----------------------------- MODULE NpcsMinar ------------------------------
\* The NPCs of Minar, Mu Lung, Nihal and Edelstein: NX (N_x) is scripts/npc/X.js.
EXTENDS NpcScript

N2070000 == <<{Storage}>>
N2070002 == <<{Shop}>>
N2070003 == <<{Shop}>>
N2071012 == <<{To(2)}, {Bye}>>
N2079000 == <<{To(2)}, {To(3), Ok}, {Ok, Charges(Bye)}>>
N2080001 == <<{Shop}>>
N2080002 == <<{Shop}>>
N2080004 == <<{Shop}>>
N2080005 == <<{Storage}>>
N2081000 == <<{Ok}>>
N2081005 == <<{To(2)}, {Bye}>>
N2081006 == <<{To(2), Ok}, {ChargesBlind(Ok)}>>
N2081008 == <<{To(2), Ok}, {GivesBlind(ChargesBlind(Ok))}>>
N2081009 == <<{Ok, Silence}>>
N2081010 == <<{To(2), Bye}, {To(3)}, {Gives(Ok), Ok, Bye}>>
N2081013 == <<{To(2), Ok}, {GivesBlind(ChargesBlind(Ok))}>>
N2081100 == <<{To(2), Ok}, {ChargesBlind(To(3)), Gives(ChargesBlind(To(3))), To(3), Ok}, {To(4)},
    {ChargesBlind(To(3)), Gives(ChargesBlind(To(3))), To(3), Ok, Silence}>>
N2081200 == <<{To(2), Ok}, {To(3), Ok}, {To(4), To(5)}, {To(6)}, {To(3), To(6), Ok},
    {To(4), To(5), Silence}>>
N2081300 == <<{To(2), Ok}, {To(3), Ok}, {To(4), To(5)}, {To(6)}, {To(3), To(6), Ok},
    {To(4), To(5), Silence}>>
N2081400 == <<{To(2), Ok}, {ChargesBlind(To(3)), To(3), Ok, Silence}, {To(2)}>>
N2081500 == <<{To(2), Ok}, {ChargesBlind(To(3)), To(3), Ok, Silence}, {To(4)}, {To(5)},
    {To(4), Silence}>>
N2082000 == <<{Ok}>>
N2082001 == <<{To(2)}, {Bye}>>
N2082002 == <<{To(2)}, {Bye}>>
N2082003 == <<{To(2)}, {Bye}>>
N2083000 == <<{Ok}>>
N2083001 == <<{Ok}>>
N2083002 == <<{To(2)}, {Bye}>>
N2084000 == <<{To(2), Silence}, {To(3)}, {To(4)}, {To(5)}, {Ok, Gives(Charges(Silence))}>>
N2084001 == <<{To(2)}, {Silence}>>
N2090000 == <<{Storage}>>
N2090001 == <<{Shop}>>
N2090002 == <<{Shop}>>
N2090003 == <<{Shop}>>
N2090100 == <<{To(2)}, {To(3)}, {Charges(Ok), Ok}>>
N2090101 == <<{To(2)}, {To(3)}, {Charges(Ok), Ok}>>
N2090102 == <<{To(2)}, {To(3)}, {Charges(Ok), Ok}>>
N2090103 == <<{To(2)}, {To(3)}, {Charges(Ok), Ok}>>
N2090104 == <<{To(2)}, {To(3)}, {Charges(Ok), Ok}>>
N2091005 == <<{To(2)}, {To(3), Ok}, {To(4), To(5), Ok, Shop}, {To(5)}, {Ok, Bye}>>
N2091006 == <<{To(2)}, {To(3), To(4)}, {Bye}, {To(5)}, {To(6), Silence}, {Silence}>>
N2092001 == <<{To(2)}, {Bye}>>
N2093000 == <<{Shop}>>
N2093001 == <<{Shop}>>
N2093002 == <<{Shop}>>
N2093003 == <<{Storage}>>
N2093004 == <<{To(2)}, {Ok, Charges(Bye)}>>
N2094000 == <<{Ok, Bye, Silence}>>
N2094001 == <<{To(2)}, {Gives(Charges(Ok)), Ok, Gives(Bye)}>>
N2094002 == <<{Charges(To(1)), To(1), Bye, Silence}>>
N2095000 == <<{To(1)}>>
N2096000 == <<{Silence}>>
N2100000 == <<{Storage}>>
N2100002 == <<{Shop}>>
N2100003 == <<{Shop}>>
N2100005 == <<{To(2)}, {To(3)}, {To(4), Charges(Ok)}, {Silence}>>
N2100006 == <<{To(2)}, {To(3)}, {To(4), Charges(Ok)}, {Silence}>>
N2100007 == <<{To(2)}, {To(3)}, {To(4), Charges(Ok)}, {Silence}>>
N2100008 == <<{To(2)}, {To(3), Charges(Ok)}, {Silence}>>
N2100009 == <<{To(2)}, {To(3), Charges(Ok)}, {Silence}>>
N2101000 == <<{Ok}>>
N2101001 == <<{Ok}>>
N2101002 == <<{Ok}>>
N2101003 == <<{To(2)}, {Bye}>>
N2101004 == <<{Ok}>>
N2101005 == <<{Ok}>>
N2101006 == <<{Silence}>>
N2101007 == <<{Ok}>>
N2101008 == <<{Ok}>>
N2101009 == <<{Ok}>>
N2101011 == <<{To(2)}, {Bye}>>
N2101013 == <<{To(2)}, {To(3), To(4)}, {To(2), To(5)}, {To(3)}, {To(6), Charges(Bye)},
    {To(5), Silence}>>
N2101014 == <<{Bye}>>
N2102000 == <<{To(2)}, {Bye}>>
N2102001 == <<{To(2)}, {Bye}>>
N2102002 == <<{Ok}>>
N2103000 == <<{Silence}>>
N2103001 == <<{To(1), Silence}>>
N2103002 == <<{To(1), Silence}>>
N2103009 == <<{Silence}>>
N2103010 == <<{Silence}>>
N2103011 == <<{Silence}>>
N2103012 == <<{Silence}>>
N2110000 == <<{Storage}>>
N2110001 == <<{Shop}>>
N2110005 == <<{To(2), Ok}, {To(3)}, {Bye}>>
N2111000 == <<{To(2)}, {Silence}>>
N2111001 == <<{Ok}>>
N2111003 == <<{To(2), Ok}, {Bye}>>
N2111006 == <<{Silence}>>
N2111024 == <<{Bye}>>
N2111025 == <<{Silence}>>
N2111026 == <<{Silence}>>
N2112000 == <<{Ok}>>
N2112001 == <<{Bye}>>
N2112002 == <<{To(2), Ok, Bye, Gives(Bye)}, {Ok, Bye, Gives(Bye), Gives(Charges(Silence))}>>
N2112003 == <<{Charges(Ok), Ok, Bye, Silence}>>
N2112004 == <<{Charges(Ok), Ok, Bye, Silence}>>
N2112005 == <<{Charges(Ok), Ok, Bye, Silence}>>
N2112006 == <<{Charges(Ok), Ok, Bye, Silence}>>
N2112007 == <<{Ok, Gives(Silence), Silence}>>
N2112008 == <<{Ok, Bye, Gives(Bye)}>>
N2112009 == <<{Ok, Bye, Gives(Bye)}>>
N2112010 == <<{Ok}>>
N2112011 == <<{Bye}>>
N2112012 == <<{To(2), Ok, Bye, Gives(Bye)}, {Ok, Bye, Gives(Bye), Gives(Charges(Silence))}>>
N2112013 == <<{Ok, Gives(Silence), Silence}>>
N2112018 == <<{Ok, Bye, Gives(Bye)}>>
N2130000 == <<{Shop}>>
N2131000 == <<{Ok}>>
N2131001 == <<{To(2)}, {To(3), To(4)}, {Gives(Charges(Ok)), Ok, Silence}, {Silence}>>
N2131002 == <<{Ok}>>
N2131003 == <<{To(2)}, {To(3), To(4)}, {Gives(Charges(Ok)), Ok, Silence}, {Silence}>>
N2131005 == <<{To(2)}, {To(3), To(4)}, {Gives(Charges(Ok)), Ok, Silence}, {Silence}>>
N2131006 == <<{To(2)}, {To(3), To(4)}, {Gives(Charges(Ok)), Ok, Silence}, {Silence}>>
N2131007 == <<{To(2)}, {To(3), To(4)}, {Gives(Charges(Ok)), Ok, Silence}, {Silence}>>
N2132000 == <<{Ok}>>
N2132001 == <<{To(1)}>>
N2132002 == <<{To(1)}>>
N2132003 == <<{To(1)}>>
N2133000 == <<{To(2)}, {Ok, Bye, GivesBlind(Charges(Silence)), Silence}>>
N2133001 == <<{To(1), GivesBlind(Ok), Ok, Bye, Charges(Bye), Silence}>>
N2133002 == <<{To(2)}, {Bye}>>
N2133004 == <<{To(1), Bye, Silence}>>
N2140000 == <<{To(2), Ok}, {Gives(Charges(Ok)), Ok}>>
N2141000 == <<{To(2)}, {Silence}>>
N2141001 == <<{To(2), Ok}, {Ok, Charges(Bye)}>>
N2141002 == <<{To(2)}, {Bye}>>
N2142000 == <<{Shop}>>
N2143004 == <<{To(2), Ok}, {Ok, Bye, Silence}>>
N2150000 == <<{Storage}>>
N2150002 == <<{Shop}>>
N2150008 == <<{To(2), Ok}, {Bye}>>
N2150009 == <<{To(2)}, {Bye}>>
N2150010 == <<{To(2)}, {Bye}>>
N2153002 == <<{To(2), Ok}, {Bye}>>
N2159000 == <<{To(2)}, {To(3)}, {Silence}>>
N2159001 == <<{To(2)}, {To(3)}, {To(2), To(4)}, {To(3), To(5)}, {To(4), To(6)}, {To(5), To(7)},
    {To(6), To(8)}, {To(7), To(9)}, {To(8), To(10)}, {To(9), To(11)}, {To(10), Bye}>>
N2159002 == <<{To(2)}, {To(3)}, {Silence}>>
N2159003 == <<{To(2)}, {To(2), Silence}>>
N2159004 == <<{To(2)}, {To(2), Silence}>>
N2159005 == <<{To(2)}, {Silence}>>
N2159006 == <<{To(2), Silence}, {To(3), Silence}, {To(2), To(4), Silence}, {To(3), Bye, Silence}>>
N2159007 == <<{To(2), Ok, Silence}, {To(3), Ok, Silence}, {To(2), To(4), Ok, Silence},
    {To(3), Ok, Bye, Silence}>>
N2159008 == <<{To(2)}, {To(3)}, {To(2), To(4)}, {To(3), To(5)}, {To(4), To(6)}, {To(5), To(7)},
    {To(6), To(8)}, {To(7), To(9)}, {To(8), To(10)}, {To(9), Bye}>>
N2159010 == <<{To(2)}, {To(3)}, {To(2), To(4)}, {To(3), To(5)}, {To(4), To(6)}, {To(5), To(7)},
    {To(6), To(8)}, {To(7), To(9)}, {To(8), To(10)}, {To(9), GivesBlind(Bye)}>>
N2159011 == <<{To(2)}, {Bye}>>
N2159012 == <<{To(2)}, {To(3)}, {To(2), To(4)}, {To(3), To(5)}, {To(4), To(6)}, {To(5), To(7)},
    {To(6), To(8)}, {To(7), To(9)}, {To(8), To(10)}, {To(9), Silence}>>
N2159013 == <<{To(2)}, {Silence}>>
N2159015 == <<{To(2)}, {To(2), Silence}>>
N2159016 == <<{To(2)}, {To(2), Silence}>>
N2159017 == <<{To(1), Bye}>>
N2159018 == <<{To(2)}, {Ok, Bye, Gives(Charges(Silence)), Silence}>>
N2159019 == <<{To(1)}>>
N2159020 == <<{To(1)}>>
N2159100 == <<{To(2)}, {Silence}>>
N2159307 == <<{To(2)}, {To(3)}, {To(4)}, {To(5)}, {To(6)}, {To(7)}, {To(8)}, {To(9)}, {To(10)},
    {To(11)}, {To(12)}, {To(13)}, {To(14)}, {To(15)}, {To(16)}, {To(17)}, {To(18)}, {To(19)},
    {To(20)}, {To(21)}, {Bye}>>
N2159309 == <<{To(2), Silence}, {To(3), Silence}, {To(4), Silence}, {To(5), Silence}, {Silence}>>
N2159310 == <<{To(1)}>>
N2159311 == <<{To(2)}, {To(3)}, {To(4)}, {To(5)}, {To(6)}, {Bye}>>
N2159314 == <<{To(1)}>>
N2159328 == <<{To(1)}>>
N2159329 == <<{To(1)}>>
N2159330 == <<{To(2)}, {To(3)}, {Bye}>>
N2159340 == <<{To(2)}, {To(3)}, {To(4)}, {To(5)}, {To(6)}, {To(7)}, {To(8)}, {To(9)}, {To(10)},
    {To(11)}, {To(12)}, {To(13)}, {To(14)}, {To(15)}, {To(16)}, {Bye}>>
N2159344 == <<{To(2)}, {To(3)}, {To(4)}, {To(5)}, {To(6)}, {To(7)}, {To(8)}, {To(9)}, {To(10)},
    {To(11)}, {To(12)}, {To(13)}, {To(14)}, {To(15)}, {To(16)}, {To(17)}, {To(18)}, {To(19)},
    {Bye}>>
N2161001 == <<{To(2), Ok}, {Charges(Ok), Ok}>>
N2161004 == <<{To(2), Ok}, {Ok, Charges(Bye)}>>
N2161005 == <<{Ok}>>
N2161006 == <<{To(2)}, {Bye}>>
N2161007 == <<{Bye}>>
N2161008 == <<{Bye}>>
N2161009 == <<{To(2)}, {Shop, Bye}>>
N2162000 == <<{To(2)}, {GivesBlind(Charges(Ok)), Ok}>>
N2170004 == <<{To(2)}, {Bye}>>
N2170006 == <<{Bye, Silence}>>
N2184000 == <<{To(2)}, {To(3), Ok}, {Gives(Charges(To(3))), Gives(Charges(Ok)), Ok}>>
N2210000 == <<{To(2), Ok}, {Bye}>>
N2210003 == <<{To(2)}, {Bye}>>
N2210004 == <<{To(2), Ok}, {Bye}>>
N2210005 == <<{To(2)}, {Bye}>>
N2491000 == <<{Ok}>>
N2500001 == <<{To(2)}, {To(3), Ok}, {Ok, Charges(Bye)}>>
N2560000 == <<{GivesBlind(Ok), Ok}>>
N2560102 == <<{To(2), Ok}, {Bye, Charges(Bye)}>>
N2560103 == <<{To(2), Ok}, {Bye, Charges(Bye)}>>
N2560104 == <<{To(2), Ok}, {Bye, Charges(Bye)}>>
N2560106 == <<{To(2)}, {To(3), Ok}, {Ok, Charges(Bye)}>>
N2560107 == <<{To(2), Ok}, {Bye, Charges(Bye)}>>
N2560110 == <<{To(2), Ok}, {Bye, Charges(Bye)}>>
N2560111 == <<{To(2), Ok}, {Bye, Charges(Bye)}>>
N2560112 == <<{To(2), Ok}, {Bye, Charges(Bye)}>>
N2560113 == <<{To(2), Ok}, {Bye, Charges(Bye)}>>
N2560118 == <<{To(2), Ok}, {Bye, Charges(Bye)}>>
N2560119 == <<{To(2), Ok}, {Bye, Charges(Bye)}>>

MinarScripts == {<<"2070000", N2070000>>, <<"2070002", N2070002>>, <<"2070003", N2070003>>,
    <<"2071012", N2071012>>, <<"2079000", N2079000>>, <<"2080001", N2080001>>,
    <<"2080002", N2080002>>, <<"2080004", N2080004>>, <<"2080005", N2080005>>,
    <<"2081000", N2081000>>, <<"2081005", N2081005>>, <<"2081006", N2081006>>,
    <<"2081008", N2081008>>, <<"2081009", N2081009>>, <<"2081010", N2081010>>,
    <<"2081013", N2081013>>, <<"2081100", N2081100>>, <<"2081200", N2081200>>,
    <<"2081300", N2081300>>, <<"2081400", N2081400>>, <<"2081500", N2081500>>,
    <<"2082000", N2082000>>, <<"2082001", N2082001>>, <<"2082002", N2082002>>,
    <<"2082003", N2082003>>, <<"2083000", N2083000>>, <<"2083001", N2083001>>,
    <<"2083002", N2083002>>, <<"2084000", N2084000>>, <<"2084001", N2084001>>,
    <<"2090000", N2090000>>, <<"2090001", N2090001>>, <<"2090002", N2090002>>,
    <<"2090003", N2090003>>, <<"2090100", N2090100>>, <<"2090101", N2090101>>,
    <<"2090102", N2090102>>, <<"2090103", N2090103>>, <<"2090104", N2090104>>,
    <<"2091005", N2091005>>, <<"2091006", N2091006>>, <<"2092001", N2092001>>,
    <<"2093000", N2093000>>, <<"2093001", N2093001>>, <<"2093002", N2093002>>,
    <<"2093003", N2093003>>, <<"2093004", N2093004>>, <<"2094000", N2094000>>,
    <<"2094001", N2094001>>, <<"2094002", N2094002>>, <<"2095000", N2095000>>,
    <<"2096000", N2096000>>, <<"2100000", N2100000>>, <<"2100002", N2100002>>,
    <<"2100003", N2100003>>, <<"2100005", N2100005>>, <<"2100006", N2100006>>,
    <<"2100007", N2100007>>, <<"2100008", N2100008>>, <<"2100009", N2100009>>,
    <<"2101000", N2101000>>, <<"2101001", N2101001>>, <<"2101002", N2101002>>,
    <<"2101003", N2101003>>, <<"2101004", N2101004>>, <<"2101005", N2101005>>,
    <<"2101006", N2101006>>, <<"2101007", N2101007>>, <<"2101008", N2101008>>,
    <<"2101009", N2101009>>, <<"2101011", N2101011>>, <<"2101013", N2101013>>,
    <<"2101014", N2101014>>, <<"2102000", N2102000>>, <<"2102001", N2102001>>,
    <<"2102002", N2102002>>, <<"2103000", N2103000>>, <<"2103001", N2103001>>,
    <<"2103002", N2103002>>, <<"2103009", N2103009>>, <<"2103010", N2103010>>,
    <<"2103011", N2103011>>, <<"2103012", N2103012>>, <<"2110000", N2110000>>,
    <<"2110001", N2110001>>, <<"2110005", N2110005>>, <<"2111000", N2111000>>,
    <<"2111001", N2111001>>, <<"2111003", N2111003>>, <<"2111006", N2111006>>,
    <<"2111024", N2111024>>, <<"2111025", N2111025>>, <<"2111026", N2111026>>,
    <<"2112000", N2112000>>, <<"2112001", N2112001>>, <<"2112002", N2112002>>,
    <<"2112003", N2112003>>, <<"2112004", N2112004>>, <<"2112005", N2112005>>,
    <<"2112006", N2112006>>, <<"2112007", N2112007>>, <<"2112008", N2112008>>,
    <<"2112009", N2112009>>, <<"2112010", N2112010>>, <<"2112011", N2112011>>,
    <<"2112012", N2112012>>, <<"2112013", N2112013>>, <<"2112018", N2112018>>,
    <<"2130000", N2130000>>, <<"2131000", N2131000>>, <<"2131001", N2131001>>,
    <<"2131002", N2131002>>, <<"2131003", N2131003>>, <<"2131005", N2131005>>,
    <<"2131006", N2131006>>, <<"2131007", N2131007>>, <<"2132000", N2132000>>,
    <<"2132001", N2132001>>, <<"2132002", N2132002>>, <<"2132003", N2132003>>,
    <<"2133000", N2133000>>, <<"2133001", N2133001>>, <<"2133002", N2133002>>,
    <<"2133004", N2133004>>, <<"2140000", N2140000>>, <<"2141000", N2141000>>,
    <<"2141001", N2141001>>, <<"2141002", N2141002>>, <<"2142000", N2142000>>,
    <<"2143004", N2143004>>, <<"2150000", N2150000>>, <<"2150002", N2150002>>,
    <<"2150008", N2150008>>, <<"2150009", N2150009>>, <<"2150010", N2150010>>,
    <<"2153002", N2153002>>, <<"2159000", N2159000>>, <<"2159001", N2159001>>,
    <<"2159002", N2159002>>, <<"2159003", N2159003>>, <<"2159004", N2159004>>,
    <<"2159005", N2159005>>, <<"2159006", N2159006>>, <<"2159007", N2159007>>,
    <<"2159008", N2159008>>, <<"2159010", N2159010>>, <<"2159011", N2159011>>,
    <<"2159012", N2159012>>, <<"2159013", N2159013>>, <<"2159015", N2159015>>,
    <<"2159016", N2159016>>, <<"2159017", N2159017>>, <<"2159018", N2159018>>,
    <<"2159019", N2159019>>, <<"2159020", N2159020>>, <<"2159100", N2159100>>,
    <<"2159307", N2159307>>, <<"2159309", N2159309>>, <<"2159310", N2159310>>,
    <<"2159311", N2159311>>, <<"2159314", N2159314>>, <<"2159328", N2159328>>,
    <<"2159329", N2159329>>, <<"2159330", N2159330>>, <<"2159340", N2159340>>,
    <<"2159344", N2159344>>, <<"2161001", N2161001>>, <<"2161004", N2161004>>,
    <<"2161005", N2161005>>, <<"2161006", N2161006>>, <<"2161007", N2161007>>,
    <<"2161008", N2161008>>, <<"2161009", N2161009>>, <<"2162000", N2162000>>,
    <<"2170004", N2170004>>, <<"2170006", N2170006>>, <<"2184000", N2184000>>,
    <<"2210000", N2210000>>, <<"2210003", N2210003>>, <<"2210004", N2210004>>,
    <<"2210005", N2210005>>, <<"2491000", N2491000>>, <<"2500001", N2500001>>,
    <<"2560000", N2560000>>, <<"2560102", N2560102>>, <<"2560103", N2560103>>,
    <<"2560104", N2560104>>, <<"2560106", N2560106>>, <<"2560107", N2560107>>,
    <<"2560110", N2560110>>, <<"2560111", N2560111>>, <<"2560112", N2560112>>,
    <<"2560113", N2560113>>, <<"2560118", N2560118>>, <<"2560119", N2560119>>}
=============================================================================
