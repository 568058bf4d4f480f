----------------------------- MODULE NpcsMaple ------------------------------
\* The NPCs of the first towns, and those with numbers of four and five digits: NX (N_x) is scripts/npc/X.js.
EXTENDS NpcScript

N1000 == <<{To(2), Ok}, {To(3), Ok}, {To(4)}, {To(5), Ok}, {Ok, Later}>>
N1001 == <<{To(2)}, {To(3), Ok}, {To(4), Ok}, {To(5)}, {To(6), Ok}, {Ok, Charges(Later)}>>
N1002 == <<{To(2), Ok}, {To(3), Ok}, {To(4)}, {To(5), Ok}, {Ok, Later}>>
N1003 == <<{To(2), Ok}, {To(3), Ok}, {To(4)}, {To(5), Ok}, {Ok, Later}>>
N1004 == <<{To(2), Ok}, {To(3), Ok}, {To(4)}, {To(5), Ok}, {Ok, Later}>>
N1005 == <<{To(2), Ok}, {To(3), Ok}, {To(4)}, {To(5), Ok}, {Ok, Later}>>
N1006 == <<{To(2), Ok}, {To(3), Ok}, {To(4)}, {To(5), Ok}, {Ok, Later}>>
N1007 == <<{To(2), Ok}, {To(3), Ok}, {To(4)}, {To(5), Ok}, {Ok, Later}>>
N1501 == <<{To(2)}, {To(3), To(4), Ok}, {To(5), Ok}, {To(6), Ok}, {Ok, Charges(Bye)}, {Silence}>>
N2000 == <<{To(2), To(3), Ok}, {GivesBlind(Bye)}, {To(4)}, {GivesBlind(Ok)}>>
N2001 == <<{To(2), Ok}, {GivesBlind(Charges(Ok)), Ok, Bye, Silence}>>
N2002 == <<{To(2), Ok}, {To(3), GivesBlind(Ok), Ok}, {Bye, Charges(Bye)}>>
N2003 == <<{To(2), To(3), Ok}, {GivesBlind(Charges(Ok)), Ok}, {Ok}>>
N2004 == <<{To(2), Ok}, {GivesBlind(Charges(Ok)), Ok, Silence}>>
N2007 == <<{To(2), Silence}, {Bye, Silence}>>
N2101 == <<{To(2)}, {To(3)}, {Bye}>>
N10200 == <<{To(2)}, {To(3)}, {Bye}>>
N10201 == <<{To(2)}, {To(3)}, {Bye}>>
N10202 == <<{To(2)}, {To(3)}, {Bye}>>
N10203 == <<{To(2)}, {To(3)}, {Bye}>>
N10204 == <<{To(2)}, {To(3)}, {Bye}>>
N12000 == <<{To(2)}, {GivesBlind(To(3))}, {Ok, Charges(Bye)}>>
N12101 == <<{To(2)}, {To(3)}, {To(2), To(4)}, {To(3), Silence}>>
N20000 == <<{To(2)}, {To(3)}, {To(4), Ok}, {Gives(Charges(Ok)), Ok}>>
N22000 == <<{To(2), Ok}, {GivesBlind(Ok), Ok, GivesBlind(Bye)}>>
N1002000 == <<{To(2)}, {To(3)}, {To(4), To(5)}, {To(6), To(7)}, {Silence}, {To(8)}, {To(9)},
    {To(6), To(10)}, {To(7), To(11)}, {To(8), Silence}, {To(9), To(12)}, {To(11), Silence}>>
N1002001 == <<{To(2)}, {To(3)}, {To(4), Ok}, {Ok}>>
N1002002 == <<{To(2)}, {To(3), To(4), To(5)}, {To(4), Charges(Bye)}, {To(6), Bye}, {To(7)},
    {To(5)}, {To(5), Silence}>>
N1002003 == <<{To(2)}, {To(3)}, {To(4), Charges(Ok)}, {Silence}>>
N1002004 == <<{To(2)}, {To(3)}, {To(4), Charges(Bye)}, {Silence}>>
N1002005 == <<{Storage}>>
N1002007 == <<{To(2), To(3)}, {To(1), To(4), Charges(Bye)}, {To(4), Charges(Bye)},
    {To(5), Charges(Bye)}, {Silence}>>
N1002100 == <<{To(2), Ok}, {To(3)}, {To(4)}, {To(5)}, {Gives(Charges(To(6))), To(6)}, {Silence}>>
N1002101 == <<{To(2)}, {Bye}>>
N1010100 == <<{To(2)}, {Bye, GivesBlind(Charges(Bye))}>>
N1012000 == <<{To(2)}, {To(3)}, {To(4)}, {To(5), Charges(Bye)}, {Silence}>>
N1012002 == <<{Silence}>>
N1012003 == <<{To(2)}, {Bye, GivesBlind(Charges(Bye))}>>
N1012005 == <<{To(2)}, {Bye}>>
N1012006 == <<{To(2)}, {To(3), Ok}, {GivesBlind(To(4))}, {Silence}>>
N1012007 == <<{To(2), Ok}, {ChargesBlind(To(3)), To(3)}, {Silence}>>
N1012009 == <<{Storage}>>
N1012100 == <<{To(2), Ok}, {Bye, GivesBlind(Charges(Bye))}>>
N1012102 == <<{To(2)}, {Bye}>>
N1012103 == <<{To(2)}, {To(3)}, {Charges(Ok), Ok}>>
N1012104 == <<{To(2)}, {To(3)}, {Charges(Ok), Ok}>>
N1012105 == <<{To(2)}, {To(3)}, {Charges(Ok), Ok}>>
N1012106 == <<{To(2)}, {Bye, GivesBlind(Charges(Bye))}>>
N1012108 == <<{To(2)}, {Bye, GivesBlind(Charges(Bye))}>>
N1012109 == <<{To(2), Ok}, {Bye}>>
N1012111 == <<{To(2)}, {Bye, GivesBlind(Charges(Bye))}>>
N1012112 == <<{To(2), Bye, Silence}, {Ok, Bye, Gives(Charges(Silence))}>>
N1012113 == <<{Bye}>>
N1012114 == <<{To(2)}, {To(3), Charges(Bye)}, {Silence}>>
N1012115 == <<{To(2), Silence}, {Silence}>>
N1012116 == <<{To(1)}>>
N1012118 == <<{To(2), To(3)}, {Bye}, {To(1), Bye}>>
N1012119 == <<{To(2), To(3)}, {Bye}, {To(1), Bye}>>
N1012121 == <<{Ok}>>
N1013001 == <<{To(2)}, {To(3)}, {To(2), Bye}>>
N1013002 == <<{Bye}>>
N1013104 == <<{GivesBlind(To(2)), Ok}, {Silence}>>
N1013207 == <<{To(2)}, {Bye}>>
N1013305 == <<{To(2), To(3)}, {To(4), Ok}, {To(4)}, {Ok}>>
N1020000 == <<{To(2)}, {Bye, GivesBlind(Charges(Bye))}>>
N1022000 == <<{To(2), Ok}, {Bye, GivesBlind(Charges(Bye))}>>
N1022001 == <<{To(2)}, {To(3)}, {To(4)}, {To(5), Charges(Bye)}, {Silence}>>
N1022002 == <<{To(2), Ok}, {Ok, Bye}>>
N1022005 == <<{Storage}>>
N1022007 == <<{To(2)}, {Bye, GivesBlind(Charges(Bye))}>>
N1022101 == <<{To(2), Ok}, {Bye, GivesBlind(Bye), GivesBlind(Charges(Bye))}>>
N1022103 == <<{To(2)}, {Bye}>>
N1022105 == <<{To(2)}, {To(1), Bye}>>
N1022106 == <<{To(2)}, {To(1), Bye}>>
N1022107 == <<{Gives(Ok), Ok}>>
N1023000 == <<{To(2)}, {To(3)}, {To(4)}, {To(5), Charges(Bye)}, {Silence}>>
N1032000 == <<{To(2)}, {To(3)}, {To(4)}, {To(5), Charges(Bye)}, {Silence}>>
N1032001 == <<{To(2), Ok}, {Bye, GivesBlind(Charges(Bye))}>>
N1032002 == <<{Silence}>>
N1032003 == <<{To(2)}, {Bye}>>
N1032004 == <<{To(2)}, {Bye}>>
N1032005 == <<{To(2)}, {To(3)}, {To(4), Charges(Bye)}, {Silence}>>
N1032006 == <<{Storage}>>
N1032007 == <<{Ok}>>
N1032008 == <<{To(2)}, {Bye}>>
N1032009 == <<{To(2)}, {Bye}>>
N1032100 == <<{To(2), Ok}, {To(3)}, {To(4)}, {GivesBlind(Charges(To(5))), To(5)}, {Silence}>>
N1032101 == <<{To(2)}, {Bye, GivesBlind(Charges(Bye))}>>
N1032102 == <<{To(2)}, {Ok, Charges(Bye)}>>
N1032104 == <<{To(2)}, {Bye, GivesBlind(Charges(Bye))}>>
N1032106 == <<{To(2)}, {Bye, GivesBlind(Charges(Bye))}>>
N1032111 == <<{Ok}>>
N1032113 == <<{To(2)}, {To(1), Bye}>>
N1032114 == <<{To(2)}, {To(1), Bye}>>
N1033000 == <<{Storage}>>
N1033002 == <<{Shop}>>
N1033103 == <<{Silence}>>
N1033104 == <<{Silence}>>
N1033105 == <<{Silence}>>
N1033106 == <<{Silence}>>
N1033110 == <<{Silence}>>
N1033112 == <<{Silence}>>
N1033200 == <<{Silence}>>
N1033201 == <<{To(2)}, {To(3)}, {To(4)}, {To(5)}, {To(6)}, {To(7)}, {To(8)}, {To(9)}, {To(10)},
    {To(11)}, {Bye}>>
N1033202 == <<{To(2)}, {To(3)}, {To(4)}, {To(5)}, {To(6)}, {To(7)}, {To(8)}, {To(9)}, {To(10)},
    {To(11)}, {To(12)}, {To(13)}, {To(14)}, {To(15)}, {To(16)}, {To(17)}, {To(18)}, {To(19)},
    {To(20)}, {To(20), Silence}>>
N1033205 == <<{To(2), Silence}, {Silence}>>
N1033206 == <<{Silence}>>
N1040000 == <<{GivesBlind(Ok), Ok}>>
N1040001 == <<{GivesBlind(Ok), Ok}>>
N1043000 == <<{Bye, GivesBlind(Bye)}>>
N1043001 == <<{Bye, GivesBlind(Bye)}>>
N1043002 == <<{Silence}>>
N1043003 == <<{Silence}>>

MapleScripts == {<<"1000", N1000>>, <<"1001", N1001>>, <<"1002", N1002>>, <<"1003", N1003>>,
    <<"1004", N1004>>, <<"1005", N1005>>, <<"1006", N1006>>, <<"1007", N1007>>, <<"1501", N1501>>,
    <<"2000", N2000>>, <<"2001", N2001>>, <<"2002", N2002>>, <<"2003", N2003>>, <<"2004", N2004>>,
    <<"2007", N2007>>, <<"2101", N2101>>, <<"10200", N10200>>, <<"10201", N10201>>,
    <<"10202", N10202>>, <<"10203", N10203>>, <<"10204", N10204>>, <<"12000", N12000>>,
    <<"12101", N12101>>, <<"20000", N20000>>, <<"22000", N22000>>, <<"1002000", N1002000>>,
    <<"1002001", N1002001>>, <<"1002002", N1002002>>, <<"1002003", N1002003>>,
    <<"1002004", N1002004>>, <<"1002005", N1002005>>, <<"1002007", N1002007>>,
    <<"1002100", N1002100>>, <<"1002101", N1002101>>, <<"1010100", N1010100>>,
    <<"1012000", N1012000>>, <<"1012002", N1012002>>, <<"1012003", N1012003>>,
    <<"1012005", N1012005>>, <<"1012006", N1012006>>, <<"1012007", N1012007>>,
    <<"1012009", N1012009>>, <<"1012100", N1012100>>, <<"1012102", N1012102>>,
    <<"1012103", N1012103>>, <<"1012104", N1012104>>, <<"1012105", N1012105>>,
    <<"1012106", N1012106>>, <<"1012108", N1012108>>, <<"1012109", N1012109>>,
    <<"1012111", N1012111>>, <<"1012112", N1012112>>, <<"1012113", N1012113>>,
    <<"1012114", N1012114>>, <<"1012115", N1012115>>, <<"1012116", N1012116>>,
    <<"1012118", N1012118>>, <<"1012119", N1012119>>, <<"1012121", N1012121>>,
    <<"1013001", N1013001>>, <<"1013002", N1013002>>, <<"1013104", N1013104>>,
    <<"1013207", N1013207>>, <<"1013305", N1013305>>, <<"1020000", N1020000>>,
    <<"1022000", N1022000>>, <<"1022001", N1022001>>, <<"1022002", N1022002>>,
    <<"1022005", N1022005>>, <<"1022007", N1022007>>, <<"1022101", N1022101>>,
    <<"1022103", N1022103>>, <<"1022105", N1022105>>, <<"1022106", N1022106>>,
    <<"1022107", N1022107>>, <<"1023000", N1023000>>, <<"1032000", N1032000>>,
    <<"1032001", N1032001>>, <<"1032002", N1032002>>, <<"1032003", N1032003>>,
    <<"1032004", N1032004>>, <<"1032005", N1032005>>, <<"1032006", N1032006>>,
    <<"1032007", N1032007>>, <<"1032008", N1032008>>, <<"1032009", N1032009>>,
    <<"1032100", N1032100>>, <<"1032101", N1032101>>, <<"1032102", N1032102>>,
    <<"1032104", N1032104>>, <<"1032106", N1032106>>, <<"1032111", N1032111>>,
    <<"1032113", N1032113>>, <<"1032114", N1032114>>, <<"1033000", N1033000>>,
    <<"1033002", N1033002>>, <<"1033103", N1033103>>, <<"1033104", N1033104>>,
    <<"1033105", N1033105>>, <<"1033106", N1033106>>, <<"1033110", N1033110>>,
    <<"1033112", N1033112>>, <<"1033200", N1033200>>, <<"1033201", N1033201>>,
    <<"1033202", N1033202>>, <<"1033205", N1033205>>, <<"1033206", N1033206>>,
    <<"1040000", N1040000>>, <<"1040001", N1040001>>, <<"1043000", N1043000>>,
    <<"1043001", N1043001>>, <<"1043002", N1043002>>, <<"1043003", N1043003>>}
=============================================================================
