---------------------------- MODULE EventFields ----------------------------
\* Parks, dungeons, fields and other events without a boss of their own: X is scripts/event/X.js.
EXTENDS EventScript

adv_dung == [Base EXCEPT
  !.begin = {Do({}, {}, {"clock"})},
  !.task = [bomb |-> Always({Nothing, Do({Wild}, {"bomb"}, {})})],
  !.entry = {"bomb"},
  !.left = "none",
  !.disband = "none"]
bellDoor == [Dungeon EXCEPT !.cleared = Always({Victory})]
DP_Endless == Endless
DP_Endless_Boss == Endless
DP_Endless_Elite == Endless
DP_Endless_Super == Endless
DP_Event == [Base EXCEPT
  !.begin = {Later({"start"})},
  !.task = [start |-> Always({Do({}, {"waves"}, {"clock"})}),
            waves |-> Always({Nothing, Do({Bomb}, {"waves"}, {}), Later({"waves"})})]]
DP_Event_Kaotic == CalmWaves
DP_Event_Super == CalmWaves
End_Farm == Waves
EP_Endless == Endless
EP_Endless_Boss == Endless
EP_Endless_Elite == Endless
EP_Endless_Super == Endless
Event_Kaotic == CalmWaves
EventBattle == [Base EXCEPT
  !.begin = {Do({}, {"start"}, {"short"})},
  !.task = [start |-> Always({Do({}, {"waves"}, {"clock"})}),
            waves |-> Always({Nothing, Do({Bomb}, {"waves"}, {}), Later({"waves"})})]]
EventBattleFree == [Base EXCEPT
  !.begin = {Do({}, {"start"}, {"short"})},
  !.task = [start |-> Always({Do({}, {"waves"}, {"clock"})}),
            waves |-> Always({Nothing, Do({Wild}, {"waves"}, {}), Later({"waves"})})]]
kaotic_instance == [Base EXCEPT
  !.begin = {Do({}, {}, {"clock"})},
  !.disband = "none",
  !.moved = {"drop"}]
Lucid_Farm == Waves
magnusDoor == Trial(8880000)
MD_drakeroom == [Base EXCEPT
  !.begin = {Do({}, {}, {"clock"})},
  !.timeout = "none",
  !.disband = "none",
  !.moved = {"drop"},
  !.revive = {"stay"}]
MD_event_cake == [Base EXCEPT
  !.begin = {Do({}, {}, {"clock"})},
  !.left = "all",
  !.disband = "none"]
MD_event_drakeroom == Field
MD_event_error == Field
MD_event_golem == Field
MD_event_high == Field
MD_event_mushroom == Field
MD_event_pig == Field
MD_event_protect == Field
MD_event_rabbit == Field
MD_event_remember == Field
MD_event_roundTable == Field
MD_event_sand == Field
MD_event_treasure == Field
MP_Daily == EndlessPark
MP_Easy == Park
MP_Endless == [Base EXCEPT
  !.begin = {Do({Wild}, {}, {"clock", "kill"})},
  !.kill = Each({8950118}, Until({Nothing, Prize})),
  !.other = Until({Nothing, Bring({8950118})}),
  !.moved = {"stay"}]
MP_Endless_End == EndlessPark
MP_Endless_Farm == [Base EXCEPT
  !.begin = {Do({Wild}, {}, {"clock", "kill"})},
  !.kill = Each({8950118}, Until({Prize})),
  !.other = Until({Nothing, Bring({8950118})}),
  !.moved = {"stay"}]
MP_Endless_Job == EndlessPark
MP_Endless_Job2 == EndlessPark
MP_Endless_Mission == EndlessPark
MP_Endless_Reward == EndlessPark
MP_Hard == Park
MP_Hell == Park
MP_Kaotic_Easy == Dungeon
MP_Kaotic_Giga == Dungeon
MP_Kaotic_Hard == Dungeon
MP_Kaotic_Hell == Dungeon
MP_Kaotic_Kaotic == Dungeon
MP_Kaotic_Normal == Dungeon
MP_Kaotic_Super == Dungeon
MP_Master == [Chest(9800126) EXCEPT !.moved = {"one", "stay"}]
MP_Mega_Easy == Dungeon
MP_Mega_Hard == Dungeon
MP_Mega_Kaotic == Dungeon
MP_Mega_Normal == Dungeon
MP_Mega_Super == Dungeon
MP_Normal == Park
MP_Soul_Easy == Dungeon
MP_Soul_Hard == Dungeon
MP_Soul_Normal == Dungeon
Pal == [Base EXCEPT !.begin = {Bring({Wild})}, !.left = "none", !.disband = "none"]
Pal_Dark_Dungeon_300 == [Dungeon EXCEPT !.left = "none", !.disband = "none"]
Pal_Dungeon_200 == [Dungeon EXCEPT !.left = "none", !.disband = "none"]
Pal_Dungeon_201 == [Dungeon EXCEPT !.left = "none", !.disband = "none"]
Pal_Park_100 == PalPark
Pal_Park_101 == PalPark
Pal_Park_102 == PalPark
Pal_Park_103 == PalPark
Pal_Park_104 == PalPark
Pal_Park_105 == PalPark
Pal_Park_106 == PalPark
Pal_Raid == [Base EXCEPT
  !.begin = {Bring({Wild})},
  !.kill = Each({2030}, Always({Victory})),
  !.far = {2030},
  !.left = "none",
  !.disband = "none"]
player_bot == [Base EXCEPT
  !.begin = {Later({"start"})},
  !.task = [start |-> Always({Do({}, {}, {"clock"})})],
  !.disband = "none",
  !.moved = {"drop"},
  !.revive = {"all"}]
player_instance == Field
reward == Chest(9601204)
reward2 == Chest(9601204)
reward3 == Chest(9601204)
reward_dp == [Base EXCEPT !.begin = {Bring({Wild})}]
reward_start == Chest(9601206)
Shadow == [Base EXCEPT
  !.begin = {Do({}, {"start"}, {"short"})},
  !.kill = [m \in {8230012} |-> Always({Bring({m})})],
  !.task = [start |-> Always({Do({8230012}, {"bombs"}, {"clock"})}),
            bombs |-> Always({Do({Wild}, {"bombs"}, {}), Later({"bombs"})})],
  !.left = "none",
  !.disband = "none"]
star_dung == [Dungeon EXCEPT
  !.task = [bomb |-> Always({Nothing, Do({Wild}, {"bomb"}, {})})],
  !.entry = {"bomb"},
  !.left = "none",
  !.disband = "none"]
TD_Battle1 == Hunt(7220005)
TD_Battle2 == Hunt(8220010)
TD_Battle3 == Hunt(8220011)
TD_Battle4 == Hunt(8220012)
TD_Battle5 == Hunt(8220015)
test == [Base EXCEPT !.begin = {Bring({Wild})}, !.left = "none", !.disband = "none"]
TimeBattle == [Base EXCEPT
  !.begin = {Do({}, {"start"}, {"short"})},
  !.task = [start |-> Always({Do({Wild}, {"waves"}, {"clock"})}),
            waves |-> Always({Nothing, Do({Wild}, {"waves"}, {}), Later({"waves"})})]]
treDoor == [Dungeon EXCEPT !.cleared = Always({Victory})]
victorDoor == [Dungeon EXCEPT !.cleared = Always({Victory})]
Will_Farm == Waves

FieldsScripts ==
  [adv_dung |-> adv_dung, bellDoor |-> bellDoor, DP_Endless |-> DP_Endless,
   DP_Endless_Boss |-> DP_Endless_Boss, DP_Endless_Elite |-> DP_Endless_Elite,
   DP_Endless_Super |-> DP_Endless_Super, DP_Event |-> DP_Event,
   DP_Event_Kaotic |-> DP_Event_Kaotic, DP_Event_Super |-> DP_Event_Super,
   End_Farm |-> End_Farm, EP_Endless |-> EP_Endless, EP_Endless_Boss |-> EP_Endless_Boss,
   EP_Endless_Elite |-> EP_Endless_Elite, EP_Endless_Super |-> EP_Endless_Super,
   Event_Kaotic |-> Event_Kaotic, EventBattle |-> EventBattle,
   EventBattleFree |-> EventBattleFree, kaotic_instance |-> kaotic_instance,
   Lucid_Farm |-> Lucid_Farm, magnusDoor |-> magnusDoor, MD_drakeroom |-> MD_drakeroom,
   MD_event_cake |-> MD_event_cake, MD_event_drakeroom |-> MD_event_drakeroom,
   MD_event_error |-> MD_event_error, MD_event_golem |-> MD_event_golem,
   MD_event_high |-> MD_event_high, MD_event_mushroom |-> MD_event_mushroom,
   MD_event_pig |-> MD_event_pig, MD_event_protect |-> MD_event_protect,
   MD_event_rabbit |-> MD_event_rabbit, MD_event_remember |-> MD_event_remember,
   MD_event_roundTable |-> MD_event_roundTable, MD_event_sand |-> MD_event_sand,
   MD_event_treasure |-> MD_event_treasure, MP_Daily |-> MP_Daily, MP_Easy |-> MP_Easy,
   MP_Endless |-> MP_Endless, MP_Endless_End |-> MP_Endless_End,
   MP_Endless_Farm |-> MP_Endless_Farm, MP_Endless_Job |-> MP_Endless_Job,
   MP_Endless_Job2 |-> MP_Endless_Job2, MP_Endless_Mission |-> MP_Endless_Mission,
   MP_Endless_Reward |-> MP_Endless_Reward, MP_Hard |-> MP_Hard, MP_Hell |-> MP_Hell,
   MP_Kaotic_Easy |-> MP_Kaotic_Easy, MP_Kaotic_Giga |-> MP_Kaotic_Giga,
   MP_Kaotic_Hard |-> MP_Kaotic_Hard, MP_Kaotic_Hell |-> MP_Kaotic_Hell,
   MP_Kaotic_Kaotic |-> MP_Kaotic_Kaotic, MP_Kaotic_Normal |-> MP_Kaotic_Normal,
   MP_Kaotic_Super |-> MP_Kaotic_Super, MP_Master |-> MP_Master, MP_Mega_Easy |-> MP_Mega_Easy,
   MP_Mega_Hard |-> MP_Mega_Hard, MP_Mega_Kaotic |-> MP_Mega_Kaotic,
   MP_Mega_Normal |-> MP_Mega_Normal, MP_Mega_Super |-> MP_Mega_Super, MP_Normal |-> MP_Normal,
   MP_Soul_Easy |-> MP_Soul_Easy, MP_Soul_Hard |-> MP_Soul_Hard,
   MP_Soul_Normal |-> MP_Soul_Normal, Pal |-> Pal,
   Pal_Dark_Dungeon_300 |-> Pal_Dark_Dungeon_300, Pal_Dungeon_200 |-> Pal_Dungeon_200,
   Pal_Dungeon_201 |-> Pal_Dungeon_201, Pal_Park_100 |-> Pal_Park_100,
   Pal_Park_101 |-> Pal_Park_101, Pal_Park_102 |-> Pal_Park_102, Pal_Park_103 |-> Pal_Park_103,
   Pal_Park_104 |-> Pal_Park_104, Pal_Park_105 |-> Pal_Park_105, Pal_Park_106 |-> Pal_Park_106,
   Pal_Raid |-> Pal_Raid, player_bot |-> player_bot, player_instance |-> player_instance,
   reward |-> reward, reward2 |-> reward2, reward3 |-> reward3, reward_dp |-> reward_dp,
   reward_start |-> reward_start, Shadow |-> Shadow, star_dung |-> star_dung,
   TD_Battle1 |-> TD_Battle1, TD_Battle2 |-> TD_Battle2, TD_Battle3 |-> TD_Battle3,
   TD_Battle4 |-> TD_Battle4, TD_Battle5 |-> TD_Battle5, test |-> test,
   TimeBattle |-> TimeBattle, treDoor |-> treDoor, victorDoor |-> victorDoor,
   Will_Farm |-> Will_Farm]
============================================================================
