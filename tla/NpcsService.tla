---------------------------- MODULE NpcsService -----------------------------
\* The NPCs of services and events, and the scripts that commands and items start: NX (N_x) is scripts/npc/X.js.
EXTENDS NpcScript

N9000000 == <<{To(2)}, {To(2), To(3), Ok}, {To(4), Ok}, {To(5), Ok}, {Gives(Ok), Ok}>>
N9000001 == <<{To(2)}, {To(3)}, {To(4), To(5), To(6), Bye}, {Silence}, {To(4)},
    {Ok, Gives(Charges(Silence)), Silence}>>
N9000002 == <<{Bye}>>
N9000006 == <<{Ok}>>
N9000008 == <<{To(2)}, {Charges(To(2)), Charges(Ok), Ok}>>
N9000009 == <<{Ok}>>
N9000010 == <<{Bye}>>
N9000011 == <<{To(2)}, {To(3)}, {To(4), To(5), To(6), Bye}, {Silence}, {To(4)},
    {Ok, Gives(Charges(Silence)), Silence}>>
N9000012 == <<{To(2)}, {To(3), Ok, Gives(Charges(Silence))}, {Bye}>>
N9000013 == <<{To(2)}, {To(3)}, {To(4), To(5), To(6), Bye}, {Silence}, {To(4)},
    {Ok, Gives(Charges(Silence)), Silence}>>
N9000017 == <<{To(2), Ok}, {GivesBlind(Charges(Ok)), Ok}>>
N9000020 == <<{To(2), To(3)}, {Bye}, {To(4)}, {To(5)}, {To(6)}, {To(7), Charges(Bye)},
    {To(6), Silence}>>
N9000021 == <<{To(2)}, {To(3)}, {To(4)}, {To(5)}, {Bye}>>
N9000036 == <<{To(2), Ok}, {Bye, GivesBlind(Charges(Bye))}>>
N9000038 == <<{To(2)}, {To(3), Ok}, {Ok, Bye}>>
N9000040 == <<{To(2), Ok}, {To(3), Ok}, {To(4), Ok}, {Ok}>>
N9000041 == <<{To(2), Ok}, {To(3), Ok}, {GivesBlind(Ok)}>>
N9000046 == <<{To(2)}, {To(3), Ok}, {To(4)}, {To(5), Ok}, {Charges(Ok), Ok}>>
N9000049 == <<{To(2), To(3)}, {Bye}, {Ok, Bye}>>
N9000055 == <<{To(1)}>>
N9000059 == <<{To(2)}, {Bye}>>
N9000060 == <<{To(2)}, {Bye}>>
N9000075 == <<{To(2)}, {Ok, Bye, Charges(Bye)}>>
N9000078 == <<{To(2)}, {Gives(Charges(Ok)), Ok}>>
N9000080 == <<{To(2)}, {Ok, Bye, Charges(Bye)}>>
N9000081 == <<{Shop}>>
N9000082 == <<{To(2), Bye}, {Bye}>>
N9000085 == <<{To(2)}, {Ok}>>
N9000086 == <<{To(2), Ok}, {Bye, GivesBlind(Charges(Bye))}>>
N9000087 == <<{To(2), Ok}, {Bye, GivesBlind(Charges(Bye))}>>
N9000088 == <<{To(2), Ok}, {Bye, GivesBlind(Charges(Bye))}>>
N9000123 == <<{To(2), Ok}, {Bye, GivesBlind(Charges(Bye))}>>
N9000157 == <<{To(2), Ok}, {Bye, GivesBlind(Charges(Bye))}>>
N9000174 == <<{Ok}>>
N9000230 == <<{To(2), Ok}, {Bye, GivesBlind(Charges(Bye))}>>
N9001000 == <<{To(2), Bye}, {Bye}>>
N9001001 == <<{To(2)}, {Bye}>>
N9001003 == <<{Shop}>>
N9001004 == <<{To(2)}, {To(3), Ok, Gives(Charges(Silence))}, {Bye}>>
N9001059 == <<{To(2)}, {To(3)}, {Charges(Ok), Ok}>>
N9001063 == <<{To(2)}, {To(3), Ok}, {Ok, Charges(Bye), Silence}>>
N9001131 == <<{To(2)}, {To(3)}, {To(4), Ok}, {Gives(Charges(Ok)), Ok}>>
N9001221 == <<{To(2)}, {Charges(Ok), Silence}>>
N9010000 == <<{To(2)}, {To(3), To(4), To(5), Ok}, {To(6), Ok}, {To(7), Ok}, {To(8), Ok}, {Ok},
    {ChargesBlind(Ok)}, {Gives(Ok), Ok}>>
N9010001 == <<{To(2)}, {Bye}>>
N9010009 == <<{To(2)}, {To(3), Ok, Shop, Bye}, {To(4), Ok}, {Charges(Ok), Ok}>>
N9010022 == <<{To(2), Ok}, {Ok, Bye}>>
N9010038 == <<{To(2)}, {To(3), Shop}, {To(4)}, {GivesBlind(Charges(Ok)), Ok}>>
N9010100 == <<{To(2)}, {To(3)}, {To(4), Ok}, {Bye, GivesBlind(Charges(Bye))}>>
N9020000 == <<{To(2), Bye, Silence}, {Ok, Bye, Gives(Charges(Silence))}>>
N9020002 == <<{To(2), Bye}, {Bye}>>
N9020003 == <<{To(2)}, {Ok, Bye, Gives(Charges(Silence)), Silence}>>
N9020004 == <<{Ok, Bye, Gives(Bye), Silence}>>
N9020005 == <<{To(2)}, {Ok, Bye, Gives(Charges(Silence)), Silence}>>
N9020006 == <<{Ok, Gives(Bye), Silence}>>
N9020008 == <<{Ok}>>
N9030000 == <<{To(2), Ok}, {To(3), Ok}, {Charges(To(3)), Charges(Ok), Ok, Charges(Silence)}>>
N9030100 == <<{Storage}>>
N9031000 == <<{Ok}>>
N9031001 == <<{To(2)}, {To(3), Gives(Charges(Ok)), Ok}, {Gives(Ok), Ok}>>
N9031002 == <<{To(2)}, {To(3), Gives(Charges(Ok)), Ok}, {Gives(Ok), Ok}>>
N9031003 == <<{To(2)}, {To(3), Ok}, {Ok}>>
N9031004 == <<{To(2)}, {To(3), Ok}, {Ok}>>
N9031005 == <<{To(2)}, {To(3), Ok}, {Ok}>>
N9031016 == <<{Storage}>>
N9040000 == <<{To(2), Ok}, {To(3), Ok, Bye, Silence}, {Silence}>>
N9040001 == <<{Ok, Bye}>>
N9040002 == <<{To(2), Ok, Bye, Silence}, {To(1), To(3), Ok}, {To(1)}>>
N9040003 == <<{To(2), Ok}, {Silence}>>
N9040004 == <<{Ok}>>
N9040005 == <<{To(2), Ok}, {To(3)}, {Bye, Silence}>>
N9040006 == <<{Ok, Bye}>>
N9040007 == <<{Ok}>>
N9040008 == <<{Silence}>>
N9040009 == <<{Ok, Bye}>>
N9040011 == <<{Ok}>>
N9040012 == <<{Ok}>>
N9050008 == <<{To(2)}, {Bye}>>
N9062011 == <<{To(2), Ok}, {Ok, Charges(Bye), Silence}>>
N9062015 == <<{To(2), Ok}, {Ok, Bye, Silence}>>
N9062342 == <<{To(2)}, {To(3)}, {To(4)}, {To(5), Ok}, {Charges(Ok), Ok}>>
N9070000 == <<{To(1)}>>
N9070003 == <<{To(2), To(3), Bye}, {Bye}, {Ok}>>
N9071000 == <<{To(2)}, {To(3), Ok}, {Ok, Charges(Bye), Silence}>>
N9071001 == <<{Shop}>>
N9071002 == <<{Ok}>>
N9071003 == <<{To(2), Ok}, {Bye}>>
N9071004 == <<{To(2), To(3)}, {Silence}, {Ok, Bye, Silence}>>
N9071005 == <<{To(2)}, {Bye}>>
N9100100 == <<{To(2)}, {To(3), Ok}, {Gives(Charges(Ok)), Ok}>>
N9100101 == <<{To(2)}, {To(3), Ok}, {Gives(Charges(Ok)), Ok}>>
N9100102 == <<{To(2)}, {To(3), Ok}, {Gives(Charges(Ok)), Ok}>>
N9100103 == <<{To(2)}, {To(3), Ok}, {Gives(Charges(Ok)), Ok}>>
N9100104 == <<{To(2)}, {To(3), Ok}, {Gives(Charges(Ok)), Ok}>>
N9100105 == <<{To(2)}, {To(3), Ok}, {Gives(Charges(Ok)), Ok}>>
N9100106 == <<{To(2)}, {To(3), Ok}, {Gives(Charges(Ok)), Ok}>>
N9100107 == <<{To(2)}, {To(3), Ok}, {Gives(Charges(Ok)), Ok}>>
N9100108 == <<{To(2)}, {To(3), Ok}, {Gives(Charges(Ok)), Ok}>>
N9100109 == <<{To(2)}, {To(3), Ok}, {Gives(Charges(To(3))), Gives(Charges(Ok)), Ok}>>
N9100110 == <<{To(2)}, {To(3), Ok}, {Gives(Charges(Ok)), Ok}>>
N9100111 == <<{To(2)}, {To(3), Ok}, {Gives(Charges(Ok)), Ok}>>
N9100112 == <<{To(2)}, {To(3), Ok}, {Gives(Charges(Ok)), Ok}>>
N9100117 == <<{To(2)}, {To(3), Ok}, {Gives(Charges(Ok)), Ok}>>
N9101001 == <<{To(2)}, {To(3)}, {To(2), Bye}>>
N9102100 == <<{To(2), Ok}, {GivesBlind(To(3))}, {Silence}>>
N9102101 == <<{To(2)}, {GivesBlind(To(3))}, {Silence}>>
N9103000 == <<{To(2)}, {To(3), Ok}, {Bye, Silence}>>
N9103001 == <<{Ok}>>
N9103002 == <<{To(2)}, {GivesBlind(Bye)}>>
N9103003 == <<{To(2)}, {Bye}>>
N9105004 == <<{To(2), Ok, Bye, Silence}, {Ok, Bye, Silence}>>
N9105005 == <<{To(2)}, {Bye}>>
N9110010 == <<{To(2)}, {To(3), Ok}, {Gives(Charges(To(3))), Gives(Charges(Ok)), Ok}>>
N9110100 == <<{Shop}>>
N9110102 == <<{Shop}>>
N9110105 == <<{To(2)}, {To(3)}, {To(4)}, {Bye}>>
N9110107 == <<{To(2)}, {To(3)}, {To(4)}, {Bye}>>
N9120003 == <<{To(2)}, {Ok, Charges(Bye)}>>
N9120009 == <<{Storage}>>
N9120010 == <<{To(2)}, {To(3)}, {To(4), Gives(ChargesBlind(Ok)), Ok}, {Silence}>>
N9120015 == <<{To(2)}, {To(3), Ok}, {Bye}>>
N9120020 == <<{To(2)}, {Bye}>>
N9120026 == <<{To(2), GivesBlind(Bye)}, {Ok, Bye}>>
N9120030 == <<{To(2), Silence}, {Ok, Bye, Charges(Bye)}>>
N9120034 == <<{To(2)}, {To(3), To(4)}, {To(5)}, {To(6), GivesBlind(Charges(Silence))},
    {To(3), To(7)}, {Silence},
    {To(6), GivesBlind(Charges(Silence)), GivesBlind(ChargesBlind(Silence))}>>
N9120036 == <<{To(2), To(3), To(4), To(5), Ok}, {Ok}, {Ok, Silence}, {Ok, Bye, Silence}, {Bye}>>
N9120050 == <<{To(2), To(3), To(4), To(5), Ok}, {Ok}, {Ok, Silence}, {Ok, Bye, Silence}, {Bye}>>
N9120053 == <<{To(2), To(3), To(4), To(5), Ok}, {Ok}, {Ok, Silence}, {Ok, Bye, Silence}, {Bye}>>
N9120100 == <<{To(2)}, {To(3)}, {Charges(Ok), Ok}>>
N9120200 == <<{To(2)}, {Bye}>>
N9120202 == <<{To(2)}, {Bye}>>
N9120203 == <<{To(2), To(3)}, {To(4)}, {Bye}, {GivesBlind(ChargesBlind(Bye))}>>
N9120206 == <<{To(2)}, {Ok, Gives(Charges(Silence))}>>
N9120208 == <<{To(2)}, {Ok, Gives(Charges(Silence))}>>
N9120210 == <<{To(2)}, {Ok, Gives(Charges(Silence))}>>
N9120212 == <<{To(2)}, {Ok, Gives(Charges(Silence))}>>
N9120214 == <<{To(2)}, {Ok, Gives(Charges(Silence))}>>
N9120216 == <<{To(2)}, {Ok, Gives(Charges(Silence))}>>
N9120217 == <<{Bye}>>
N9120218 == <<{Bye}>>
N9120228 == <<{Ok, Bye, Silence}>>
N_achievements == <<{To(2)}, {Ok}>>
N_ap == <<{To(2), Ok}, {To(3)}, {To(4)}, {Ok}>>
N_boost == <<{To(2)}, {To(3)}, {To(4), Ok}, {Charges(Ok), Ok}>>
N_bot == <<{To(2)}, {GivesBlind(Ok), Silence}>>
N_equips == <<{To(2)}, {To(3), Ok}, {Ok}>>
N_fish == <<{To(2), Ok}, {Ok}>>
N_help == <<{Ok}>>
N_instance == <<{To(2), Ok}, {Ok, Bye}>>
N_link == <<{Ok}>>
N_maps == <<{To(2)}, {Ok, Bye}>>
N_moral_quest == <<{To(2), Ok}, {Bye, GivesBlind(Charges(Bye))}>>
N_quest == <<{To(2)}, {Ok}>>
N_skill == <<{Ok}>>
N_warp == <<{To(2)}, {To(3), To(4), To(5), Ok}, {Bye}, {Ok}, {Charges(Ok), Ok}>>
N_who == <<{Ok}>>

ServiceScripts == {<<"9000000", N9000000>>, <<"9000001", N9000001>>, <<"9000002", N9000002>>,
    <<"9000006", N9000006>>, <<"9000008", N9000008>>, <<"9000009", N9000009>>,
    <<"9000010", N9000010>>, <<"9000011", N9000011>>, <<"9000012", N9000012>>,
    <<"9000013", N9000013>>, <<"9000017", N9000017>>, <<"9000020", N9000020>>,
    <<"9000021", N9000021>>, <<"9000036", N9000036>>, <<"9000038", N9000038>>,
    <<"9000040", N9000040>>, <<"9000041", N9000041>>, <<"9000046", N9000046>>,
    <<"9000049", N9000049>>, <<"9000055", N9000055>>, <<"9000059", N9000059>>,
    <<"9000060", N9000060>>, <<"9000075", N9000075>>, <<"9000078", N9000078>>,
    <<"9000080", N9000080>>, <<"9000081", N9000081>>, <<"9000082", N9000082>>,
    <<"9000085", N9000085>>, <<"9000086", N9000086>>, <<"9000087", N9000087>>,
    <<"9000088", N9000088>>, <<"9000123", N9000123>>, <<"9000157", N9000157>>,
    <<"9000174", N9000174>>, <<"9000230", N9000230>>, <<"9001000", N9001000>>,
    <<"9001001", N9001001>>, <<"9001003", N9001003>>, <<"9001004", N9001004>>,
    <<"9001059", N9001059>>, <<"9001063", N9001063>>, <<"9001131", N9001131>>,
    <<"9001221", N9001221>>, <<"9010000", N9010000>>, <<"9010001", N9010001>>,
    <<"9010009", N9010009>>, <<"9010022", N9010022>>, <<"9010038", N9010038>>,
    <<"9010100", N9010100>>, <<"9020000", N9020000>>, <<"9020002", N9020002>>,
    <<"9020003", N9020003>>, <<"9020004", N9020004>>, <<"9020005", N9020005>>,
    <<"9020006", N9020006>>, <<"9020008", N9020008>>, <<"9030000", N9030000>>,
    <<"9030100", N9030100>>, <<"9031000", N9031000>>, <<"9031001", N9031001>>,
    <<"9031002", N9031002>>, <<"9031003", N9031003>>, <<"9031004", N9031004>>,
    <<"9031005", N9031005>>, <<"9031016", N9031016>>, <<"9040000", N9040000>>,
    <<"9040001", N9040001>>, <<"9040002", N9040002>>, <<"9040003", N9040003>>,
    <<"9040004", N9040004>>, <<"9040005", N9040005>>, <<"9040006", N9040006>>,
    <<"9040007", N9040007>>, <<"9040008", N9040008>>, <<"9040009", N9040009>>,
    <<"9040011", N9040011>>, <<"9040012", N9040012>>, <<"9050008", N9050008>>,
    <<"9062011", N9062011>>, <<"9062015", N9062015>>, <<"9062342", N9062342>>,
    <<"9070000", N9070000>>, <<"9070003", N9070003>>, <<"9071000", N9071000>>,
    <<"9071001", N9071001>>, <<"9071002", N9071002>>, <<"9071003", N9071003>>,
    <<"9071004", N9071004>>, <<"9071005", N9071005>>, <<"9100100", N9100100>>,
    <<"9100101", N9100101>>, <<"9100102", N9100102>>, <<"9100103", N9100103>>,
    <<"9100104", N9100104>>, <<"9100105", N9100105>>, <<"9100106", N9100106>>,
    <<"9100107", N9100107>>, <<"9100108", N9100108>>, <<"9100109", N9100109>>,
    <<"9100110", N9100110>>, <<"9100111", N9100111>>, <<"9100112", N9100112>>,
    <<"9100117", N9100117>>, <<"9101001", N9101001>>, <<"9102100", N9102100>>,
    <<"9102101", N9102101>>, <<"9103000", N9103000>>, <<"9103001", N9103001>>,
    <<"9103002", N9103002>>, <<"9103003", N9103003>>, <<"9105004", N9105004>>,
    <<"9105005", N9105005>>, <<"9110010", N9110010>>, <<"9110100", N9110100>>,
    <<"9110102", N9110102>>, <<"9110105", N9110105>>, <<"9110107", N9110107>>,
    <<"9120003", N9120003>>, <<"9120009", N9120009>>, <<"9120010", N9120010>>,
    <<"9120015", N9120015>>, <<"9120020", N9120020>>, <<"9120026", N9120026>>,
    <<"9120030", N9120030>>, <<"9120034", N9120034>>, <<"9120036", N9120036>>,
    <<"9120050", N9120050>>, <<"9120053", N9120053>>, <<"9120100", N9120100>>,
    <<"9120200", N9120200>>, <<"9120202", N9120202>>, <<"9120203", N9120203>>,
    <<"9120206", N9120206>>, <<"9120208", N9120208>>, <<"9120210", N9120210>>,
    <<"9120212", N9120212>>, <<"9120214", N9120214>>, <<"9120216", N9120216>>,
    <<"9120217", N9120217>>, <<"9120218", N9120218>>, <<"9120228", N9120228>>,
    <<"achievements", N_achievements>>, <<"ap", N_ap>>, <<"boost", N_boost>>, <<"bot", N_bot>>,
    <<"equips", N_equips>>, <<"fish", N_fish>>, <<"help", N_help>>, <<"instance", N_instance>>,
    <<"link", N_link>>, <<"maps", N_maps>>, <<"moral_quest", N_moral_quest>>,
    <<"quest", N_quest>>, <<"skill", N_skill>>, <<"warp", N_warp>>, <<"who", N_who>>}
=============================================================================
