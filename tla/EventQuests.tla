---------------------------- MODULE EventQuests ----------------------------
\* Party quests, dojos and raids: X is scripts/event/X.js.
EXTENDS EventScript

APQ == [Base EXCEPT
  !.begin = {Do({Wild, c}, {}, {"clock"}) : c \in 9601204..9601206},
  !.kill = Each(9601204..9601206, Always({Prize}))]
ark2_battle == [Base EXCEPT
  !.begin = {Do({8860000}, {"waves"}, {"clock"})},
  !.kill = Each({8860000}, Always({Victory})),
  !.task = [waves |-> Until({Do({Wild}, {"waves"}, {}), Later({"waves"})})]]
ark2_battle_kaotic == [Base EXCEPT
  !.begin = {Do({8860000}, {"waves"}, {"clock"})},
  !.kill = Each({8860000}, Always({Prize})),
  !.task = [waves |-> Until({Do({Wild}, {"waves"}, {}), Later({"waves"})})]]
Ark_Battle == [Base EXCEPT
  !.begin = {Later({"start"})},
  !.kill = Each({8860000}, Always({Prize})),
  !.task = [start |-> Always({Do({Wild, 8860000}, {"waves"}, {"clock"})}),
            waves |-> Until({Do({Wild}, {"waves"}, {}), Later({"waves"})})]]
arma_battle == Hunt(8641010)
battle_capt == [Base EXCEPT
  !.begin = {Do({9480049}, {}, {"clock"})},
  !.kill = Each({9480049}, Always({Victory}))]
battle_tara == [Dungeon EXCEPT !.cleared = Always({Victory})]
BlackBean == [Base EXCEPT
  !.begin = {Later({"start"})},
  !.kill = [m \in {8820002} |-> Until({Bring({m})})]
           @@ Each(8820003..8820006, Until({Bring({8820002})}))
           @@ Each({9420620}, Always({Victory})),
  !.task = [start |-> Always({Do({8820002, 8820003, 8820004, 8820005, 8820006, 9420620}, {"bean"}, {"clock"})}),
            bean |-> Until({Do({Wild}, {"bean"}, {}), Later({"bean"})})]]
BlackBeanKaotic == [Base EXCEPT
  !.begin = {Later({"start"})},
  !.kill = [m \in 8820002..8820006 |-> Until({Bring({m})})] @@ Each({9420620}, Always({Prize})),
  !.task = [start |-> Always({Do({8820002, 8820003, 8820004, 8820005, 8820006, 9420620}, {"bean"}, {"clock"})}),
            bean |-> Until({Do({Wild}, {"bean"}, {}), Later({"bean"})})]]
Blake == [Base EXCEPT
  !.begin = {Do({}, {"start"}, {"short"})},
  !.kill = Rise(<<9410200, 9410208, 9410206, 9410211, 9410209, 9410207, 9410213, 9410210>>)
           @@ Each({9410210}, Always({Prize})),
  !.task = [start |-> Always({Do({9410200}, {}, {"clock"})})],
  !.left = "none",
  !.disband = "none"]
Blake_JR == [Base EXCEPT
  !.begin = {Do({}, {"start"}, {"short"})},
  !.kill = Rise(<<9410200, 9410208, 9410206, 9410211, 9410209, 9410207, 9410213, 9410210>>)
           @@ Each({9410210}, Always({Prize})),
  !.task = [start |-> Always({Do({9410200}, {}, {"clock"})})],
  !.left = "none",
  !.disband = "none"]
BMPQ == [Base EXCEPT
  !.begin = {Do({}, {}, {"clock"})},
  !.kill = Each(9601204..9601206, Always({Prize})),
  !.far = {9601204, 9601205, 9601206}]
chowBoss == Dungeon
Comm_will == [Base EXCEPT
  !.begin = {Later({"start"})},
  !.kill = Each({2600800}, Always({Victory}))
           @@ Each({8880306}, Perhaps({Later({"boss1", "will"})})),
  !.cleared = Always({Victory}),
  !.task = [start |-> Always({Do({Wild, 2600800}, {"bombs", "boss", "boss1"}, {"clock"})}),
            bombs |-> Perhaps({Do({Bomb}, {"bombs"}, {})}),
            boss |-> Perhaps({Do({Wild}, {"boss"}, {}), Later({"boss"})}),
            boss1 |-> Perhaps({Bring({8880306})}),
            will |-> Perhaps({Bring({Wild})})]]
Darknell == [Base EXCEPT
  !.begin = {Later({"start"})},
  !.kill = [m \in 8645004..8645008 |-> Until({Nothing, Bring({m})})]
           @@ Each({8645009}, Always({Victory})),
  !.task = [start |-> Always({Do(8645004..8645009, {"bombs"}, {"clock"})}),
            bombs |-> Until({Nothing, Do({Bomb}, {"bombs"}, {})})]]
Dojo == [Base EXCEPT
  !.begin = {Do({Wild, b}, {}, {"clock"}) : b \in 9833380..9833382},
  !.kill = Each(9833380..9833382, Always({Prize})),
  !.other = Always({Nothing, Bring({Wild})}),
  !.left = "none",
  !.disband = "none"]
DojoUnlimited == [Base EXCEPT
  !.begin = {Do({}, {"start"}, {"short"})},
  !.kill = [m \in {Drawn} |-> Always({Bring({m})})],
  !.task = [start |-> Always({Do({Drawn}, {}, {"clock"})})],
  !.left = "none",
  !.disband = "none"]
DPBattle == Battle(9421583)
Elite == [Base EXCEPT
  !.begin = {Do({}, {"start"}, {"short"})},
  !.other = Always({Prize, Victory}),
  !.task = [start |-> Always({Do({Wild}, {}, {"clock"})})],
  !.left = "none",
  !.disband = "none",
  !.many = {}]
Elite2 == [Base EXCEPT
  !.begin = {Do({}, {"start"}, {"short"})},
  !.other = Always({Prize, Victory}),
  !.task = [start |-> Always({Do({Wild}, {}, {"clock"})})],
  !.left = "none",
  !.disband = "none",
  !.many = {}]
EliteKaotic == [Base EXCEPT
  !.begin = {Do({}, {"start"}, {"short"})},
  !.other = Always({Victory}),
  !.task = [start |-> Always({Do({Wild}, {}, {"clock"})})],
  !.left = "none",
  !.disband = "none",
  !.many = {}]
Empress == [Base EXCEPT
  !.begin = {Later({"start"})},
  !.kill = Each({8850011}, Always({Prize})),
  !.task = [start |-> Always({Do({Wild, 8850011}, {"boss", "mob"}, {"clock"})}),
            boss |-> Until({Do({Wild}, {"boss"}, {})}),
            mob |-> Until({Do({Wild}, {"mob"}, {})})],
  !.left = "none",
  !.disband = "none"]
Evil_Hilla == [Base EXCEPT
  !.begin = {Later({"start"})},
  !.kill = Each({8880403}, Until({Later({"necro_dem"})}))
           @@ Each({8880404}, Until({Later({"necro_lotus"})}))
           @@ Each({8880405}, Always({Victory})),
  !.task = [start |-> Always({Do({8880403, 8880404, 8880405}, {"bombs"}, {"clock"})}),
            bombs |-> Until({Do({Bomb}, {"bombs"}, {})}),
            necro_dem |-> Until({Bring({8880403})}),
            necro_lotus |-> Until({Bring({8880404})})]]
fairyBoss == Dungeon
Hazard == [Base EXCEPT
  !.begin = {Do({}, {"start"}, {"short"})},
  !.kill = [m \in {2400332} |-> Until({Bring({m})})] @@ Each({2400325}, Always({Prize})),
  !.task = [start |-> Always({Do({2400325, 2400332}, {}, {"clock"})})],
  !.many = {Wild, Bomb, 2400332},
  !.left = "none",
  !.disband = "none"]
HorntailBoss == [Base EXCEPT
  !.begin = {Do({}, {"left", "right"}, {"clock"})},
  !.kill = Each({8810018}, Always({Prize})),
  !.task = [left |-> Until({Do({Wild}, {"left"}, {}), Later({"left"})}),
            right |-> Until({Do({Wild}, {"right"}, {}), Later({"right"})})],
  !.far = {8810018},
  !.moved = {"drop"}]
HPQ == [Base EXCEPT
  !.begin = {Do({9601204, 9833719}, {}, {"clock"})},
  !.kill = [m \in 9833720..9833723 |-> Always({Bring({m + 1})})]
           @@ Each({9601204}, Always({Prize}))
           @@ Each({9833719}, Always({Do({9833720}, {"bomb"}, {})}))
           @@ Each({9833724}, Always({Bring({Wild})})),
  !.task = [bomb |-> Until({Do({Bomb}, {"bomb"}, {}), Later({"bomb"})})]]
Kaotic_Castle == [Base EXCEPT
  !.begin = {Later({"begin"})},
  !.other = Always({Prize}),
  !.task = [begin |-> Always({Do({}, {}, {"clock"})})],
  !.far = {Wild},
  !.left = "none",
  !.disband = "none",
  !.revive = {"stay"}]
Kaotic_Castle_Switch == [Base EXCEPT
  !.begin = {Do({}, {"begin"}, {"kill"})},
  !.task = [begin |-> Always({Do({Wild}, {}, {"clock"})})],
  !.left = "none",
  !.disband = "none",
  !.revive = {"stay"}]
Kaotic_Caves == [Base EXCEPT
  !.begin = {Later({"begin"})},
  !.other = Always({Prize}),
  !.task = [begin |-> Always({Do({}, {}, {"clock"})})],
  !.far = {Wild},
  !.left = "none",
  !.disband = "none",
  !.revive = {"stay"}]
Kaotic_Dojo == [Base EXCEPT
  !.begin = {Do({}, {"start"}, {"short"})},
  !.kill = [m \in 9305300..9305337 |-> Always({Bring({m + 1})})]
           @@ Each({9305338}, Always({Do({9305339}, {}, {"prize", "win"})}))
           @@ Each({9305339}, Always({Prize})),
  !.task = [start |-> Always({Do({9305300}, {}, {"clock"})})],
  !.left = "none",
  !.disband = "none"]
Kobold == [Base EXCEPT
  !.begin = {Later({"start"})},
  !.kill = [m \in {Drawn} |-> Until({Bring({m})})] @@ Each({9390915}, Always({Victory})),
  !.task = [start |-> Always({Do({9390915}, {"bombs", "randomboss"}, {"clock"})}),
            bombs |-> Until({Do({Bomb}, {"bombs"}, {})}),
            randomboss |-> Until({Do({Drawn}, {"randomboss"}, {}), Later({"randomboss"})})],
  !.many = {Wild, Bomb, Drawn}]
LMPQ == [Hunt(8899000) EXCEPT !.left = "none", !.disband = "none"]
LMPQ_Solo == [Dungeon EXCEPT
  !.kill = Each(8899006..8899009, Always({Victory})),
  !.left = "none",
  !.disband = "none",
  !.emptied = {Bring({b}) : b \in 8899006..8899009}]
LMPQ_Solo_Hard == [Dungeon EXCEPT
  !.kill = Each({8899000}, Always({Victory})),
  !.left = "none",
  !.disband = "none",
  !.emptied = {Bring({8899000})}]
LucidPQ == [Base EXCEPT
  !.begin = {Do({9601281}, {}, {"clock"})},
  !.kill = Each({9601281}, Always({Prize})),
  !.task = [bomb |-> Until({Nothing, Do({Bomb}, {"bomb"}, {}), Later({"bomb"})})],
  !.arrive = {Nothing, Later({"bomb"})}]
Master_Dojo == [Base EXCEPT
  !.begin = {Do({Wild, 9601015}, {}, {"clock"})},
  !.kill = Each({9601015}, Always({Prize})),
  !.left = "none",
  !.disband = "none"]
Moonbridge == [Base EXCEPT
  !.begin = {Later({"start"})},
  !.kill = [m \in 8220100..8220103 |-> Always({Bring({m + 1})})]
           @@ Each({8220104}, Always({Victory})),
  !.task = [start |-> Always({Do({8220100}, {"bean", "bean2", "bomb"}, {"clock"})}),
            bean |-> Until({Do({Bomb}, {"bean"}, {}), Later({"bean"})}),
            bean2 |-> Until({Do({Bomb}, {"bean2"}, {}), Later({"bean2"})}),
            bomb |-> Until({Do({Bomb}, {"bomb"}, {}), Later({"bomb"})})]]
PapulatusBattle == [Base EXCEPT
  !.begin = {Later({"start"})},
  !.kill = [m \in 8500000..8500001 |-> Always({Bring({m + 1})})]
           @@ Each({8500002}, Always({Victory})),
  !.task = [start |-> Always({Do({8500000}, {}, {"clock"})})]]
Pianus_Battle == [Dungeon EXCEPT !.cleared = Always({Victory})]
PinkBean == [Base EXCEPT
  !.begin = {Later({"start"})},
  !.kill = Each({8820001}, Always({Prize})),
  !.task = [start |-> Always({Do({Wild, 8820001}, {}, {"clock"})})]]
PinkBeanHard == [Base EXCEPT
  !.begin = {Later({"start"})},
  !.kill = [m \in 8820002..8820006 |-> Until({Bring({m})})] @@ Each({8820212}, Always({Prize})),
  !.task = [start |-> Always({Do({Wild, 8820002, 8820003, 8820004, 8820005, 8820006}, {"bean"}, {"clock"})}),
            bean |-> Until({Do({Wild}, {"bean"}, {}), Later({"bean"})})],
  !.far = {8820212}]
Ramu == [Base EXCEPT
  !.begin = {Later({"start"})},
  !.kill = Each({9421583}, Always({Prize})),
  !.task = [start |-> Always({Do({9421583}, {"bombs", "randomboss"}, {"clock"})}),
            bombs |-> Until({Do({Bomb}, {"bombs"}, {})}),
            randomboss |-> Until({Do({Wild}, {"randomboss"}, {}), Later({"randomboss"})})]]
Ramu_trials == [Base EXCEPT
  !.begin = {Later({"start"})},
  !.task = [start |-> Always({Do({8880000}, {"bombs"}, {"clock"})}),
            bombs |-> Until({Do({Bomb}, {"bombs"}, {})})],
  !.kill = Rise(<<8880000, 8880101, 8240099, 8880150, 8880302, 8880403, 8880404, 8880405, 8645009, 2600800>>)
           @@ Each({2600800}, Always({Prize}))]
rose == Chest(8211004)
scar == [Base EXCEPT
  !.begin = {Do({9420547}, {}, {"clock"}), Do({Wild}, {}, {"clock"})},
  !.kill = [m \in 9420547..9420548 |-> Always({Bring({m + 1})})]
           @@ Each({9420544}, Always({Do({Wild}, {}, {"win"})}))
           @@ Each({9420549}, Always({Victory}))]
ShowaBattle == [Dungeon EXCEPT !.moved = {"drop"}]
sing_battle == [HuntForPrize(8641059) EXCEPT !.revive = {"drop"}]
slurpy_battle == HuntForPrize(8642016)
spirit_battle == [HuntForPrize(8644011) EXCEPT !.revive = {"drop"}]
TimeClock == [Base EXCEPT
  !.begin = {Later({"start"})},
  !.kill = Each({8910000}, Always({Victory})),
  !.task = [start |-> Always({Do({8910000}, {"bean"}, {"clock"})}),
            bean |-> Until({Do({Wild}, {"bean"}, {}), Later({"bean"})})]]
TimeClown == [Base EXCEPT
  !.begin = {Later({"start"})},
  !.cleared = Always({Victory}),
  !.task = [start |-> Always({Do({Wild}, {}, {"clock"})})]]
TimeDam == [Base EXCEPT
  !.begin = {Later({"start"})},
  !.kill = Each({8880100}, Always({Bring({8880101})})) @@ Each({8880101}, Always({Prize})),
  !.task = [start |-> Always({Do({Wild, 8880100}, {"bean"}, {"clock"})}),
            bean |-> Until({Do({Wild}, {"bean"}, {}), Later({"bean"})})]]
TimeQueen == [Base EXCEPT
  !.begin = {Later({"start"})},
  !.kill = Each({8920001}, Always({Victory})),
  !.task = [start |-> Always({Do({Wild}, {}, {"clock"})})],
  !.far = {8920001}]
TimeVellum == [Base EXCEPT
  !.begin = {Later({"start"})},
  !.kill = Each({8930100}, Always({Prize})),
  !.task = [start |-> Always({Do({8930100}, {"bean"}, {"clock"})}),
            bean |-> Until({Do({Wild}, {"bean"}, {}), Later({"bean"})})]]
TimeVellumKaotic == [Base EXCEPT
  !.begin = {Later({"start"})},
  !.kill = Each({8930100}, Always({Victory})),
  !.task = [start |-> Always({Do({8930100}, {"bean"}, {"clock"})}),
            bean |-> Until({Do({Wild}, {"bean"}, {}), Later({"bean"})})]]
TPQ == [Base EXCEPT
  !.begin = {Do({Wild, b}, {}, {"clock"}) : b \in {9833432, 9833434, 9833436, 9833438}},
  !.kill = Each({9833432, 9833434, 9833436, 9833438}, Always({Prize})),
  !.task = [bombs |-> Until({Do({Bomb}, {"bombs"}, {})})],
  !.arrive = {Nothing, Later({"bombs"})},
  !.exit = "all",
  !.left = "all",
  !.moved = {"all"},
  !.revive = {"all"}]
treeboss == [Base EXCEPT
  !.begin = {Do({}, {}, {"clock"})},
  !.kill = Each({9420522}, Always({Victory})),
  !.far = {9420522}]
tuto == Chest(9500650)
Vonleon == [Base EXCEPT
  !.begin = {Later({"start"})},
  !.kill = Each({8840000}, Always({Prize})),
  !.task = [start |-> Always({Do({8840000}, {"anni", "bomb"}, {"clock"})}),
            anni |-> Until({Do({Wild}, {"anni"}, {})}),
            bomb |-> Until({Nothing, Do({Wild}, {"bomb"}, {})})]]
ZakumBattle == [Base EXCEPT
  !.begin = {Do({8800000}, {}, {"clock"})},
  !.kill = [m \in 8800000..8800001 |-> Always({Bring({m + 1})})]
           @@ Each({8800002}, Always({Prize}))]

QuestsScripts ==
  [APQ |-> APQ, ark2_battle |-> ark2_battle, ark2_battle_kaotic |-> ark2_battle_kaotic,
   Ark_Battle |-> Ark_Battle, arma_battle |-> arma_battle, battle_capt |-> battle_capt,
   battle_tara |-> battle_tara, BlackBean |-> BlackBean, BlackBeanKaotic |-> BlackBeanKaotic,
   Blake |-> Blake, Blake_JR |-> Blake_JR, BMPQ |-> BMPQ, chowBoss |-> chowBoss,
   Comm_will |-> Comm_will, Darknell |-> Darknell, Dojo |-> Dojo,
   DojoUnlimited |-> DojoUnlimited, DPBattle |-> DPBattle, Elite |-> Elite, Elite2 |-> Elite2,
   EliteKaotic |-> EliteKaotic, Empress |-> Empress, Evil_Hilla |-> Evil_Hilla,
   fairyBoss |-> fairyBoss, Hazard |-> Hazard, HorntailBoss |-> HorntailBoss, HPQ |-> HPQ,
   Kaotic_Castle |-> Kaotic_Castle, Kaotic_Castle_Switch |-> Kaotic_Castle_Switch,
   Kaotic_Caves |-> Kaotic_Caves, Kaotic_Dojo |-> Kaotic_Dojo, Kobold |-> Kobold,
   LMPQ |-> LMPQ, LMPQ_Solo |-> LMPQ_Solo, LMPQ_Solo_Hard |-> LMPQ_Solo_Hard,
   LucidPQ |-> LucidPQ, Master_Dojo |-> Master_Dojo, Moonbridge |-> Moonbridge,
   PapulatusBattle |-> PapulatusBattle, Pianus_Battle |-> Pianus_Battle, PinkBean |-> PinkBean,
   PinkBeanHard |-> PinkBeanHard, Ramu |-> Ramu, Ramu_trials |-> Ramu_trials, rose |-> rose,
   scar |-> scar, ShowaBattle |-> ShowaBattle, sing_battle |-> sing_battle,
   slurpy_battle |-> slurpy_battle, spirit_battle |-> spirit_battle, TimeClock |-> TimeClock,
   TimeClown |-> TimeClown, TimeDam |-> TimeDam, TimeQueen |-> TimeQueen,
   TimeVellum |-> TimeVellum, TimeVellumKaotic |-> TimeVellumKaotic, TPQ |-> TPQ,
   treeboss |-> treeboss, tuto |-> tuto, Vonleon |-> Vonleon, ZakumBattle |-> ZakumBattle]
============================================================================
