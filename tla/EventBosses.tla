---------------------------- MODULE EventBosses ----------------------------
\* The boss events, one definition per script: X is scripts/event/X.js.
EXTENDS EventScript

BGC_Aragami == Ordeal(9480236)
BGC_Asura == Ordeal(9480238)
BGC_Atilla == Ordeal(9480235)
BGC_Butcher == Ordeal(9480237)
BGC_Khan == [Base EXCEPT
  !.begin = {Later({"start"})},
  !.kill = Each({9480239}, Always({Prize})),
  !.task = [start |-> Always({Do({9480239}, {"bombs", "randomboss"}, {"clock"})}),
            bombs |-> Until({Do({Bomb}, {"bombs"}, {})}),
            randomboss |-> Until({Do({Wild}, {"randomboss"}, {}), Later({"randomboss"})})]]
blackHeaven_boss == [Base EXCEPT
  !.begin = {Do({Wild}, {"bombs", "start"}, {"clock"})},
  !.kill = Each({8240098}, Always({Later({"boss1"})})) @@ Each({8240099}, Always({Prize})),
  !.task = [start |-> Always({Do({Wild, 8240098, 8240099}, {"boss"}, {})}),
            bombs |-> Until({Do({Wild}, {"bombs"}, {})}),
            boss |-> Until({Nothing, Do({Wild}, {"boss"}, {})}),
            boss1 |-> Until({Nothing, Do({Wild}, {"boss1"}, {})})],
  !.moved = {"one", "stay"}]
BMT_Aragami == Trial(9480236)
BMT_Ark == [Base EXCEPT
  !.begin = {Later({"start"})},
  !.kill = Each({8860000}, Always({Prize})),
  !.task = [start |-> Always({Do({Wild, 8860000}, {}, {"clock"})})]]
BMT_Asura == Trial(9480238)
BMT_Atilla == Trial(9480235)
BMT_Black_Bean == [Base EXCEPT
  !.begin = {Later({"start"})},
  !.kill = Each({9420620}, Always({Prize})),
  !.task = [start |-> Always({Do({Wild, 9420620}, {}, {"clock"})})]]
BMT_Butcher == Trial(9480237)
BMT_Capo == Trial(9390822)
BMT_CommanderWill == [Base EXCEPT
  !.begin = {Later({"start"})},
  !.kill = [m \in {8880306} |-> Until({Bring({m})})] @@ Each({2600800}, Always({Prize})),
  !.task = [start |-> Always({Do({Wild, 2600800, 8880306}, {"bomb"}, {"clock"})}),
            bomb |-> Until({Do({Wild}, {"bomb"}, {}), Later({"bomb"})})],
  !.many = {Wild, Bomb, 8880306}]
BMT_Damien == [Base EXCEPT
  !.begin = {Later({"start"})},
  !.kill = Each({8880101}, Always({Prize})),
  !.task = [start |-> Always({Do({8880101}, {"demon"}, {"clock"})}),
            demon |-> Until({Do({Wild}, {"demon"}, {})})]]
BMT_Darknell == [Base EXCEPT
  !.begin = {Later({"start"})},
  !.kill = [m \in 8645004..8645008 |-> Until({Bring({m})})] @@ Each({8645009}, Always({Prize})),
  !.task = [start |-> Always({Do(8645004..8645009, {}, {"clock"})})]]
BMT_Empress == [Base EXCEPT
  !.begin = {Later({"start"})},
  !.kill = [m \in 8850000..8850004 |-> Until({Bring({m})})] @@ Each({8850011}, Always({Prize})),
  !.task = [start |-> Always({Do({Wild, 8850000, 8850001, 8850002, 8850003, 8850004, 8850011}, {}, {"clock"})})]]
BMT_Grand_Ape == Trial(9801509)
BMT_Hilla == [Base EXCEPT
  !.begin = {Later({"start"})},
  !.kill = Each({8880405}, Always({Prize})),
  !.task = [start |-> Always({Do({Wild, 8880405}, {}, {"clock"})})]]
BMT_Horseman == Trial(9601280)
BMT_Kaling == Trial(8880912)
BMT_Kalos == Trial(8880806)
BMT_Khan == Trial(9480239)
BMT_Kobold == Trial(9390915)
BMT_Limbo == Trial(8645436)
BMT_Limbo_Hard == Trial(8899000)
BMT_Lotus == [Base EXCEPT
  !.begin = {Later({"start"})},
  !.kill = Each({8240099}, Always({Prize})),
  !.task = [start |-> Always({Do({8240099}, {"bombs"}, {"clock"})}),
            bombs |-> Until({Do({Wild}, {"bombs"}, {})})]]
BMT_Lotus_Hard == [Base EXCEPT
  !.begin = {Later({"start"})},
  !.kill = Each({8881102}, Always({Prize})),
  !.task = [start |-> Always({Do({8881102}, {"bombs"}, {"clock"})}),
            bombs |-> Until({Do({Wild}, {"bombs"}, {})})]]
BMT_Lucid == Trial(8880150)
BMT_Magnus == [Base EXCEPT
  !.begin = {Later({"start"})},
  !.kill = Each({8880000}, Always({Prize})),
  !.task = [start |-> Always({Do({8880000}, {"demon"}, {"clock"})}),
            demon |-> Until({Do({Wild}, {"demon"}, {})})]]
BMT_Ramuramu == Trial(9421583)
BMT_Riverson == Trial(9390812)
BMT_Seren == [Base EXCEPT
  !.begin = {Later({"start"})},
  !.kill = Each(8880600..8880602, Always({Prize})),
  !.task = [start |-> Always({Do({s}, {}, {"clock"}) : s \in 8880600..8880602})]]
BMT_Slime == Trial(8880711)
BMT_Tree == Trial(9601282)
BMT_Vellum == [Base EXCEPT
  !.begin = {Later({"start"})},
  !.kill = Each({8930100}, Always({Prize})),
  !.task = [start |-> Always({Do({Wild, 8930100}, {}, {"clock"})})]]
BMT_Von_Leon == [Base EXCEPT
  !.begin = {Later({"start"})},
  !.kill = Each({8210011}, Until({Later({"anni"})})) @@ Each({8840000}, Always({Prize})),
  !.task = [start |-> Always({Do({8840000}, {"anni"}, {"clock"})}),
            anni |-> Until({Bring({8210011})})]]
BMT_Will == [Base EXCEPT
  !.begin = {Later({"start"})},
  !.kill = Each({8880302}, Always({Prize})),
  !.task = [start |-> Always({Do({Wild, 8880302}, {"bomb"}, {"clock"})}),
            bomb |-> Until({Do({Wild}, {"bomb"}, {}), Later({"bomb"})})]]
boss_abyss == [Base EXCEPT
  !.begin = {Do({Wild, 9601966}, {}, {"clock"})},
  !.kill = Each({9601966}, Always({Prize}))]
boss_angel == [Base EXCEPT
  !.begin = {Do({Wild, 8880711}, {}, {"clock"})},
  !.kill = Each({8880711}, Always({Prize})),
  !.cleared = Always({Victory})]
boss_ape == [Base EXCEPT
  !.begin = {Do({9801509}, {}, {"clock"})},
  !.kill = Each({9801509}, Always({Victory}))]
boss_arcs_mini == Lair(8220046)
boss_bus == Lair(9402023)
boss_capo == [Dungeon EXCEPT
  !.kill = Each({9390822}, Always({Prize})),
  !.cleared = Always({Victory}),
  !.far = {9390822}]
boss_chief == Chest(9601068)
boss_fatal == Lair(9401013)
boss_fire == Lair(8230084)
boss_flora_leader == Lair(8645408)
boss_gleam == Lair(9401011)
Boss_Gollux == [Base EXCEPT
  !.begin = {Do({Wild, 9390600}, {}, {"clock"})},
  !.kill = [m \in 9390600..9390601 |-> Always({Bring({m + 1})})]
           @@ Each({9390602}, Always({Prize})),
  !.left = "none",
  !.disband = "none",
  !.moved = {"one", "stay"},
  !.revive = {"one", "stay"}]
Boss_Grove == [Base EXCEPT
  !.begin = {Do({}, {"start"}, {"short"})},
  !.kill = Each({9601280, 9601282}, Always({Prize})),
  !.task = [start |-> Always({Do({9601280}, {}, {"clock"}), Do({9601282}, {}, {"clock"})})],
  !.left = "none",
  !.disband = "none"]
boss_guard_o == Lair(8645300)
boss_guard_s == Lair(8645340)
boss_guide == [Base EXCEPT
  !.begin = {Do({Wild, 8645430}, {}, {"clock"})},
  !.kill = Each({8645430}, Always({Victory}))]
boss_Hundun == Lair(8880902)
boss_Hundun_Dark == Lair(8880911)
boss_ice == Lair(8230083)
boss_kaling == [Base EXCEPT
  !.begin = {Do({8880907}, {"start"}, {"clock"})},
  !.kill = Each({8880907}, Always({Bring({8880912})})) @@ Each({8880912}, Always({Prize})),
  !.task = [start |-> Always({Later({"bombs"})}),
            bombs |-> Until({Do({Wild}, {"bombs"}, {}), Do({}, {}, {"lose"})})]]
boss_kalos == [Base EXCEPT
  !.begin = {Do({8880800}, {"bombs"}, {"clock"})},
  !.kill = Each({8880800}, Always({Bring({8880806})})) @@ Each({8880806}, Always({Prize})),
  !.task = [bombs |-> Until({Nothing, Do({Bomb}, {"bombs"}, {})})]]
boss_limbo == [Base EXCEPT
  !.begin = {Do({Wild, 8645436}, {}, {"clock"})},
  !.kill = Each({8645436}, Always({Victory}))]
boss_limbo_solo == [Base EXCEPT
  !.begin = {Do({Wild, 8645436}, {}, {"clock"})},
  !.kill = Each({8645436}, Always({Victory}))]
boss_lost == Lair(8645375)
boss_lotus_art == [Base EXCEPT
  !.begin = {Do({8881100}, {}, {"clock"})},
  !.kill = Each({8881100}, Always({Do({8881101}, {"bombs"}, {})}))
           @@ Each({8881101}, Always({Do({8881102}, {"bombss", "bombsss"}, {})}))
           @@ Each({8881102}, Always({Prize})),
  !.task = [bombs |-> Until({Do({Wild}, {"bombs"}, {}), Do({}, {}, {"lose"})}),
            bombss |-> Perhaps({Do({Wild}, {"bombss"}, {})}),
            bombsss |-> Perhaps({Do({Wild}, {"bombsss"}, {})})]]
boss_nerota == Lair(8880605)
boss_Qiongqi == Lair(8880900)
boss_Qiongqi_Dark == Lair(8880909)
boss_reaper == Lair(9401012)
boss_reina == Lair(8645416)
boss_riverson == [Dungeon EXCEPT
  !.kill = Each({9390812}, Always({Prize})),
  !.cleared = Always({Victory}),
  !.far = {9390812}]
boss_scarecrow == Lair(8230085)
boss_sellas_mega == Lair(8645392)
boss_seren_bright == Lair(8880601)
boss_seren_dark == Lair(8880602)
boss_seren_holy == Lair(8880600)
boss_sheriff == Lair(8220046)
boss_spire == Lair(8230086)
boss_Taowu == Lair(8880901)
boss_Taowu_Dark == Lair(8880910)
boss_zoolen_final == Lair(8220045)
boss_zoolen_mini == Lair(8230085)
BossPQ == [Base EXCEPT
  !.begin = {Do({}, {"start"}, {"short"})},
  !.kill = [m \in 9305300..9305337 |-> Always({Bring({m + 1})})]
           @@ Each({9305338}, Always({Prize})),
  !.task = [start |-> Always({Do({9305300}, {}, {"clock"})})],
  !.left = "none",
  !.disband = "none"]
BossPQ_Kaotic == [Base EXCEPT
  !.begin = {Do({}, {"start"}, {"short"})},
  !.kill = [m \in {Drawn} |-> Until({Bring({m}), Prize})],
  !.task = [start |-> Always({Do({Drawn}, {"bombs"}, {"clock"})}),
            bombs |-> Until({Do({Bomb}, {"bombs"}, {}), Do({Wild, Bomb}, {"bombs"}, {})})],
  !.left = "none",
  !.disband = "none"]
lucid_boss == [Base EXCEPT
  !.begin = {Later({"start"})},
  !.kill = Each({8880150}, Always({Victory})) @@ Each({8880166}, Always({Later({"boss"})})),
  !.task = [start |-> Always({Do({Wild, 8880150}, {"boss", "boss1"}, {"clock"})}),
            boss |-> Until({Nothing, Bring({8880166})}),
            boss1 |-> Until({Nothing, Do({Wild}, {"boss1"}, {}), Later({"boss1"})})]]
Necro_Damien == Battle(8880404)
Necro_Lotus == Battle(8880403)
will_boss == [Base EXCEPT
  !.begin = {Later({"start"})},
  !.kill = [m \in 8880300..8880301 |-> Always({Bring({m + 1})})]
           @@ Each({8880302}, Always({Victory}))
           @@ Each({8880306}, Until({Later({"boss1"})})),
  !.task = [start |-> Always({Do({Wild, 8880300}, {"boss", "boss1"}, {"clock"})}),
            boss |-> Until({Nothing, Do({Wild}, {"boss"}, {}), Later({"boss"})}),
            boss1 |-> Until({Nothing, Bring({8880306})})]]

BossesScripts ==
  [BGC_Aragami |-> BGC_Aragami, BGC_Asura |-> BGC_Asura, BGC_Atilla |-> BGC_Atilla,
   BGC_Butcher |-> BGC_Butcher, BGC_Khan |-> BGC_Khan, blackHeaven_boss |-> blackHeaven_boss,
   BMT_Aragami |-> BMT_Aragami, BMT_Ark |-> BMT_Ark, BMT_Asura |-> BMT_Asura,
   BMT_Atilla |-> BMT_Atilla, BMT_Black_Bean |-> BMT_Black_Bean, BMT_Butcher |-> BMT_Butcher,
   BMT_Capo |-> BMT_Capo, BMT_CommanderWill |-> BMT_CommanderWill, BMT_Damien |-> BMT_Damien,
   BMT_Darknell |-> BMT_Darknell, BMT_Empress |-> BMT_Empress, BMT_Grand_Ape |-> BMT_Grand_Ape,
   BMT_Hilla |-> BMT_Hilla, BMT_Horseman |-> BMT_Horseman, BMT_Kaling |-> BMT_Kaling,
   BMT_Kalos |-> BMT_Kalos, BMT_Khan |-> BMT_Khan, BMT_Kobold |-> BMT_Kobold,
   BMT_Limbo |-> BMT_Limbo, BMT_Limbo_Hard |-> BMT_Limbo_Hard, BMT_Lotus |-> BMT_Lotus,
   BMT_Lotus_Hard |-> BMT_Lotus_Hard, BMT_Lucid |-> BMT_Lucid, BMT_Magnus |-> BMT_Magnus,
   BMT_Ramuramu |-> BMT_Ramuramu, BMT_Riverson |-> BMT_Riverson, BMT_Seren |-> BMT_Seren,
   BMT_Slime |-> BMT_Slime, BMT_Tree |-> BMT_Tree, BMT_Vellum |-> BMT_Vellum,
   BMT_Von_Leon |-> BMT_Von_Leon, BMT_Will |-> BMT_Will, boss_abyss |-> boss_abyss,
   boss_angel |-> boss_angel, boss_ape |-> boss_ape, boss_arcs_mini |-> boss_arcs_mini,
   boss_bus |-> boss_bus, boss_capo |-> boss_capo, boss_chief |-> boss_chief,
   boss_fatal |-> boss_fatal, boss_fire |-> boss_fire, boss_flora_leader |-> boss_flora_leader,
   boss_gleam |-> boss_gleam, Boss_Gollux |-> Boss_Gollux, Boss_Grove |-> Boss_Grove,
   boss_guard_o |-> boss_guard_o, boss_guard_s |-> boss_guard_s, boss_guide |-> boss_guide,
   boss_Hundun |-> boss_Hundun, boss_Hundun_Dark |-> boss_Hundun_Dark, boss_ice |-> boss_ice,
   boss_kaling |-> boss_kaling, boss_kalos |-> boss_kalos, boss_limbo |-> boss_limbo,
   boss_limbo_solo |-> boss_limbo_solo, boss_lost |-> boss_lost,
   boss_lotus_art |-> boss_lotus_art, boss_nerota |-> boss_nerota,
   boss_Qiongqi |-> boss_Qiongqi, boss_Qiongqi_Dark |-> boss_Qiongqi_Dark,
   boss_reaper |-> boss_reaper, boss_reina |-> boss_reina, boss_riverson |-> boss_riverson,
   boss_scarecrow |-> boss_scarecrow, boss_sellas_mega |-> boss_sellas_mega,
   boss_seren_bright |-> boss_seren_bright, boss_seren_dark |-> boss_seren_dark,
   boss_seren_holy |-> boss_seren_holy, boss_sheriff |-> boss_sheriff,
   boss_spire |-> boss_spire, boss_Taowu |-> boss_Taowu, boss_Taowu_Dark |-> boss_Taowu_Dark,
   boss_zoolen_final |-> boss_zoolen_final, boss_zoolen_mini |-> boss_zoolen_mini,
   BossPQ |-> BossPQ, BossPQ_Kaotic |-> BossPQ_Kaotic, lucid_boss |-> lucid_boss,
   Necro_Damien |-> Necro_Damien, Necro_Lotus |-> Necro_Lotus, will_boss |-> will_boss]
============================================================================
