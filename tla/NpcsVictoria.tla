---------------------------- MODULE NpcsVictoria ----------------------------
\* The NPCs of Victoria Island, the Nautilus and Ereve: NX (N_x) is scripts/npc/X.js.
EXTENDS NpcScript

N1052000 == <<{To(2)}, {Bye, GivesBlind(Charges(Bye))}>>
N1052001 == <<{To(2), Ok}, {Bye, GivesBlind(Charges(Bye))}>>
N1052002 == <<{To(2)}, {To(3)}, {To(4), Ok}, {Gives(Charges(Ok)), Ok}>>
N1052003 == <<{Silence}>>
N1052004 == <<{To(2)}, {To(3)}, {Charges(Ok), Ok}>>
N1052005 == <<{To(2)}, {To(3)}, {Charges(Ok), Ok}>>
N1052006 == <<{Ok}>>
N1052007 == <<{To(2), To(3), To(4), To(5)}, {To(6), Bye, ChargesBlind(Bye)},
    {Bye, ChargesBlind(Bye)}, {To(6), Bye}, {Bye}, {ChargesBlind(Bye)}>>
N1052008 == <<{Bye, GivesBlind(Bye)}>>
N1052009 == <<{Bye, GivesBlind(Bye)}>>
N1052010 == <<{Bye, GivesBlind(Bye)}>>
N1052011 == <<{To(2)}, {Bye}>>
N1052012 == <<{To(2)}, {Bye}>>
N1052013 == <<{Ok}>>
N1052014 == <<{To(2)}, {To(3), Ok, Gives(Charges(Silence))},
    {Ok, Gives(Charges(Silence)), Silence}>>
N1052016 == <<{To(2)}, {To(3)}, {To(4)}, {To(5), Charges(Bye)}, {Silence}>>
N1052017 == <<{Storage}>>
N1052100 == <<{To(2)}, {To(3)}, {Charges(Ok), Ok}>>
N1052101 == <<{To(2)}, {To(3)}, {Charges(Ok), Ok}>>
N1052102 == <<{To(2)}, {Bye, GivesBlind(Charges(Bye))}>>
N1052103 == <<{To(2)}, {Bye, GivesBlind(Charges(Bye))}>>
N1052104 == <<{To(1), Silence}>>
N1052106 == <<{To(2)}, {Bye, GivesBlind(Charges(Bye))}>>
N1052107 == <<{Silence}>>
N1052113 == <<{To(2)}, {To(1), Bye}>>
N1052114 == <<{To(2)}, {To(1), Bye}>>
N1052116 == <<{Shop}>>
N1057001 == <<{Ok}>>
N1061000 == <<{To(2)}, {To(3)}, {To(4), Ok}, {GivesBlind(Charges(Ok)), Ok}>>
N1061005 == <<{To(2)}, {Bye, GivesBlind(Charges(Bye))}>>
N1061006 == <<{To(2)}, {Bye}>>
N1061007 == <<{To(2)}, {To(3)}, {Bye}>>
N1061008 == <<{Storage}>>
N1061010 == <<{To(2)}, {Bye}>>
N1061011 == <<{To(2)}, {Bye, GivesBlind(Charges(Bye))}>>
N1061012 == <<{Ok, Bye, Silence}>>
N1061014 == <<{To(2), To(3)}, {To(2), To(4), To(5), To(6), Ok}, {To(3), To(5), To(6), To(7), Ok},
    {Ok}, {Ok, Silence}, {Ok, Bye, Silence}, {To(7), Ok}>>
N1061016 == <<{To(2)}, {To(3)}, {Gives(Charges(Ok)), Ok}>>
N1061017 == <<{To(2)}, {Bye}>>
N1061018 == <<{To(2)}, {Bye}>>
N1061019 == <<{To(2)}, {Bye, GivesBlind(Charges(Bye))}>>
N1061100 == <<{To(2)}, {To(3)}, {To(4)}, {To(5), Charges(Bye)}, {Silence}>>
N1063000 == <<{GivesBlind(Bye)}>>
N1063001 == <<{GivesBlind(Bye)}>>
N1063002 == <<{GivesBlind(Bye)}>>
N1063012 == <<{Ok, Silence}>>
N1063013 == <<{Ok, Silence}>>
N1063014 == <<{To(2)}, {Bye, GivesBlind(Charges(Bye))}>>
N1063016 == <<{Bye}>>
N1063017 == <<{Bye}>>
N1064002 == <<{To(2), Ok}, {Ok, Charges(Bye)}>>
N1064004 == <<{To(2)}, {To(3)}, {To(4), Ok}, {Gives(Charges(Ok)), Ok}>>
N1072000 == <<{To(2), Ok, Silence}, {To(3)}, {To(2), To(4), Ok, Silence}, {To(3), Ok}>>
N1072001 == <<{To(2), Ok, Silence}, {To(3)}, {To(2), To(4), Ok, Silence}, {To(3), Ok}>>
N1072002 == <<{To(2), Ok, Silence}, {To(3)}, {To(2), To(4), Ok, Silence}, {To(3), Ok}>>
N1072003 == <<{To(2), Ok, Bye, Silence}, {To(3)}, {To(2), To(4), Ok, Bye, Silence}, {To(3), Ok}>>
N1072004 == <<{Charges(Ok), Ok}>>
N1072005 == <<{Charges(Ok), Ok}>>
N1072006 == <<{Charges(Ok), Ok}>>
N1072007 == <<{Charges(Ok), Ok}>>
N1072008 == <<{To(1), To(2)}, {Bye}>>
N1081001 == <<{To(2)}, {To(3)}, {Bye}>>
N1090000 == <<{To(2), Ok}, {Bye, GivesBlind(Charges(Bye))}>>
N1091002 == <<{Shop}>>
N1091004 == <<{Storage}>>
N1092000 == <<{Ok, Bye}>>
N1092014 == <<{To(2)}, {To(3)}, {To(4)}, {To(5), Charges(Bye)}, {Silence}>>
N1092016 == <<{Ok, Silence}>>
N1092018 == <<{To(2)}, {GivesBlind(Ok), Ok}>>
N1092019 == <<{Ok}>>
N1092090 == <<{GivesBlind(Bye)}>>
N1092091 == <<{GivesBlind(Bye)}>>
N1092092 == <<{GivesBlind(Bye)}>>
N1092093 == <<{GivesBlind(Bye)}>>
N1092094 == <<{GivesBlind(Bye)}>>
N1092095 == <<{GivesBlind(Bye)}>>
N1094000 == <<{Ok}>>
N1094002 == <<{GivesBlind(To(2)), GivesBlind(Ok), Silence}, {Silence}>>
N1094003 == <<{GivesBlind(To(1)), GivesBlind(Ok), Silence}>>
N1094004 == <<{GivesBlind(To(2)), GivesBlind(Ok), Silence}, {Silence}>>
N1094005 == <<{GivesBlind(To(2)), GivesBlind(Ok), Silence}, {Silence}>>
N1094006 == <<{GivesBlind(To(2)), GivesBlind(Ok), Silence}, {Silence}>>
N1095000 == <<{To(2)}, {Bye}>>
N1095001 == <<{To(2)}, {To(1), Bye}>>
N1095002 == <<{To(2)}, {To(1), Bye}>>
N1095003 == <<{Ok}>>
N1096000 == <<{To(2)}, {To(3)}, {To(4)}, {To(5)}, {To(6)}, {To(7)}, {Bye}>>
N1096001 == <<{To(1)}>>
N1096003 == <<{To(2)}, {Silence}>>
N1096005 == <<{To(2)}, {Bye}>>
N1096010 == <<{GivesBlind(To(1)), Silence}>>
N1100000 == <<{Storage}>>
N1100003 == <<{Bye}>>
N1100007 == <<{Bye}>>
N1101001 == <<{Ok}>>
N1101008 == <<{To(2)}, {To(3), Ok, Silence}, {To(4)}, {Silence}>>
N1102001 == <<{To(2)}, {To(3), Bye}, {Bye}>>
N1102003 == <<{Ok}>>
N1103000 == <<{To(1)}>>
N1103003 == <<{To(2)}, {Bye, GivesBlind(Charges(Bye))}>>
N1103005 == <<{Bye}>>
N1104002 == <<{To(2)}, {Silence}>>
N1104100 == <<{To(2)}, {Silence}>>
N1104101 == <<{To(2)}, {Silence}>>
N1104102 == <<{To(2)}, {Silence}>>
N1104103 == <<{To(2)}, {Silence}>>
N1104104 == <<{To(2)}, {Silence}>>
N1104200 == <<{Bye, Silence}>>
N1200000 == <<{Storage}>>
N1200001 == <<{Shop}>>
N1200002 == <<{Shop}>>
N1200003 == <<{To(2)}, {Bye}>>
N1200004 == <<{To(2)}, {Bye}>>
N1202000 == <<{To(2)}, {To(3), Silence}, {To(2), To(4), Silence}, {To(3), To(5), Silence},
    {To(4), To(6), Silence}, {To(5), To(7), Silence}, {To(6), To(8), Silence},
    {To(7), Bye, Silence}>>
N1204001 == <<{To(2)}, {To(3)}, {To(2), Bye}>>
N1209000 == <<{To(2), To(3)}, {To(4), Silence}, {To(4), Ok}, {To(2), To(3), Silence}>>
N1209001 == <<{Ok}>>
N1209002 == <<{Ok}>>
N1209003 == <<{Ok}>>
N1209004 == <<{Ok}>>
N1209005 == <<{Ok}>>
N1300010 == <<{To(2)}, {To(3)}, {To(2), Silence}>>
N1300013 == <<{To(2)}, {Ok, Bye}>>
N1300014 == <<{To(2)}, {Silence}>>
N1301000 == <<{Shop}>>
N1402401 == <<{To(2), Ok}, {Ok, Bye}>>
N1530621 == <<{To(2)}, {To(3)}, {To(4), Ok}, {Bye, GivesBlind(Charges(Bye))}>>
N1540496 == <<{To(2)}, {To(3), Ok}, {Ok, Charges(Bye)}>>
N1540660 == <<{To(2)}, {To(3)}, {To(4), Ok}, {Bye, GivesBlind(Charges(Bye))}>>
N1540809 == <<{To(2)}, {To(3), Ok}, {Bye}>>

VictoriaScripts == {<<"1052000", N1052000>>, <<"1052001", N1052001>>, <<"1052002", N1052002>>,
    <<"1052003", N1052003>>, <<"1052004", N1052004>>, <<"1052005", N1052005>>,
    <<"1052006", N1052006>>, <<"1052007", N1052007>>, <<"1052008", N1052008>>,
    <<"1052009", N1052009>>, <<"1052010", N1052010>>, <<"1052011", N1052011>>,
    <<"1052012", N1052012>>, <<"1052013", N1052013>>, <<"1052014", N1052014>>,
    <<"1052016", N1052016>>, <<"1052017", N1052017>>, <<"1052100", N1052100>>,
    <<"1052101", N1052101>>, <<"1052102", N1052102>>, <<"1052103", N1052103>>,
    <<"1052104", N1052104>>, <<"1052106", N1052106>>, <<"1052107", N1052107>>,
    <<"1052113", N1052113>>, <<"1052114", N1052114>>, <<"1052116", N1052116>>,
    <<"1057001", N1057001>>, <<"1061000", N1061000>>, <<"1061005", N1061005>>,
    <<"1061006", N1061006>>, <<"1061007", N1061007>>, <<"1061008", N1061008>>,
    <<"1061010", N1061010>>, <<"1061011", N1061011>>, <<"1061012", N1061012>>,
    <<"1061014", N1061014>>, <<"1061016", N1061016>>, <<"1061017", N1061017>>,
    <<"1061018", N1061018>>, <<"1061019", N1061019>>, <<"1061100", N1061100>>,
    <<"1063000", N1063000>>, <<"1063001", N1063001>>, <<"1063002", N1063002>>,
    <<"1063012", N1063012>>, <<"1063013", N1063013>>, <<"1063014", N1063014>>,
    <<"1063016", N1063016>>, <<"1063017", N1063017>>, <<"1064002", N1064002>>,
    <<"1064004", N1064004>>, <<"1072000", N1072000>>, <<"1072001", N1072001>>,
    <<"1072002", N1072002>>, <<"1072003", N1072003>>, <<"1072004", N1072004>>,
    <<"1072005", N1072005>>, <<"1072006", N1072006>>, <<"1072007", N1072007>>,
    <<"1072008", N1072008>>, <<"1081001", N1081001>>, <<"1090000", N1090000>>,
    <<"1091002", N1091002>>, <<"1091004", N1091004>>, <<"1092000", N1092000>>,
    <<"1092014", N1092014>>, <<"1092016", N1092016>>, <<"1092018", N1092018>>,
    <<"1092019", N1092019>>, <<"1092090", N1092090>>, <<"1092091", N1092091>>,
    <<"1092092", N1092092>>, <<"1092093", N1092093>>, <<"1092094", N1092094>>,
    <<"1092095", N1092095>>, <<"1094000", N1094000>>, <<"1094002", N1094002>>,
    <<"1094003", N1094003>>, <<"1094004", N1094004>>, <<"1094005", N1094005>>,
    <<"1094006", N1094006>>, <<"1095000", N1095000>>, <<"1095001", N1095001>>,
    <<"1095002", N1095002>>, <<"1095003", N1095003>>, <<"1096000", N1096000>>,
    <<"1096001", N1096001>>, <<"1096003", N1096003>>, <<"1096005", N1096005>>,
    <<"1096010", N1096010>>, <<"1100000", N1100000>>, <<"1100003", N1100003>>,
    <<"1100007", N1100007>>, <<"1101001", N1101001>>, <<"1101008", N1101008>>,
    <<"1102001", N1102001>>, <<"1102003", N1102003>>, <<"1103000", N1103000>>,
    <<"1103003", N1103003>>, <<"1103005", N1103005>>, <<"1104002", N1104002>>,
    <<"1104100", N1104100>>, <<"1104101", N1104101>>, <<"1104102", N1104102>>,
    <<"1104103", N1104103>>, <<"1104104", N1104104>>, <<"1104200", N1104200>>,
    <<"1200000", N1200000>>, <<"1200001", N1200001>>, <<"1200002", N1200002>>,
    <<"1200003", N1200003>>, <<"1200004", N1200004>>, <<"1202000", N1202000>>,
    <<"1204001", N1204001>>, <<"1209000", N1209000>>, <<"1209001", N1209001>>,
    <<"1209002", N1209002>>, <<"1209003", N1209003>>, <<"1209004", N1209004>>,
    <<"1209005", N1209005>>, <<"1300010", N1300010>>, <<"1300013", N1300013>>,
    <<"1300014", N1300014>>, <<"1301000", N1301000>>, <<"1402401", N1402401>>,
    <<"1530621", N1530621>>, <<"1540496", N1540496>>, <<"1540660", N1540660>>,
    <<"1540809", N1540809>>}
=============================================================================
