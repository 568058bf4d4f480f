----------------------------- MODULE NpcsZones ------------------------------
\* The NPCs of the instances and the themed worlds: NX (N_x) is scripts/npc/X.js.
EXTENDS NpcScript

N9300000 == <<{To(2), Ok}, {Ok, Bye, Silence}>>
N9300011 == <<{To(2)}, {To(3)}, {To(2), Silence}>>
N9310001 == <<{Shop}>>
N9310002 == <<{Shop}>>
N9310003 == <<{Shop}>>
N9310013 == <<{Ok}>>
N9310057 == <<{To(2), Silence}, {To(3), Ok, Bye, Silence},
    {To(4), Gives(Charges(Silence)), Silence}, {Silence}>>
N9310421 == <<{To(2)}, {To(3), Ok}, {Charges(Ok), Ok}>>
N9330045 == <<{To(2)}, {Gives(Charges(To(3))), To(3), To(4), Gives(Charges(Ok)), Ok, Bye},
    {Silence}, {Gives(Charges(To(3))), To(3), Ok}>>
N9330085 == <<{To(2), To(3), Bye}, {Bye},
    {Bye, GivesBlind(Bye), Charges(Silence), GivesBlind(Charges(Silence)), Silence}>>
N9330108 == <<{To(2)}, {To(3), Bye}, {Bye}>>
N9330109 == <<{To(2)}, {To(3), Gives(Charges(To(4))), To(4), Ok},
    {Gives(Charges(To(4))), To(4), Ok}, {Silence}>>
N9330110 == <<{To(2)}, {Gives(Charges(Ok)), Ok}>>
N9390120 == <<{To(2)}, {Bye, GivesBlind(Charges(Bye))}>>
N9390122 == <<{To(2), Ok}, {Bye, GivesBlind(Charges(Bye))}>>
N9390126 == <<{To(2), Ok}, {Ok, Charges(Bye)}>>
N9390201 == <<{To(2), Ok}, {Bye, GivesBlind(Charges(Bye))}>>
N9390203 == <<{To(2), Ok}, {Bye, GivesBlind(Charges(Bye))}>>
N9390204 == <<{To(2), Ok}, {Bye, GivesBlind(Charges(Bye))}>>
N9390205 == <<{To(2), Ok}, {Bye, GivesBlind(Charges(Bye))}>>
N9390206 == <<{To(2), Ok}, {Bye, GivesBlind(Charges(Bye))}>>
N9390207 == <<{To(2), Ok}, {Bye, GivesBlind(Charges(Bye))}>>
N9390210 == <<{To(2), Ok}, {Bye, GivesBlind(Charges(Bye))}>>
N9390212 == <<{To(2), Ok}, {Bye, GivesBlind(Charges(Bye))}>>
N9390213 == <<{To(2), Ok}, {Bye, GivesBlind(Charges(Bye))}>>
N9390215 == <<{To(2), Ok}, {Bye, GivesBlind(Charges(Bye))}>>
N9390216 == <<{To(2), Ok}, {Bye, GivesBlind(Charges(Bye))}>>
N9390219 == <<{To(2), Ok}, {Bye, GivesBlind(Charges(Bye))}>>
N9390220 == <<{To(2), Ok}, {Bye, GivesBlind(Charges(Bye))}>>
N9390221 == <<{To(2), Ok}, {Bye, GivesBlind(Charges(Bye))}>>
N9390234 == <<{To(2), Ok}, {Bye, GivesBlind(Charges(Bye))}>>
N9390236 == <<{To(2), Ok}, {Bye, GivesBlind(Charges(Bye))}>>
N9390237 == <<{To(2), To(3), Ok}, {Bye}, {GivesBlind(Charges(Ok)), Ok}>>
N9390239 == <<{To(2), Ok}, {Bye, GivesBlind(Charges(Bye))}>>
N9390240 == <<{To(2), Ok}, {Bye, GivesBlind(Charges(Bye))}>>
N9390241 == <<{To(2), Ok}, {Bye, GivesBlind(Charges(Bye))}>>
N9390249 == <<{To(2), Ok}, {Bye, GivesBlind(Charges(Bye))}>>
N9390250 == <<{To(2), Ok}, {Bye, GivesBlind(Charges(Bye))}>>
N9390251 == <<{To(2), Ok}, {Bye, GivesBlind(Charges(Bye))}>>
N9390252 == <<{To(2), Ok}, {Bye, GivesBlind(Charges(Bye))}>>
N9390255 == <<{To(2), Ok}, {Bye, GivesBlind(Charges(Bye))}>>
N9390258 == <<{To(2), Ok}, {Bye, GivesBlind(Charges(Bye))}>>
N9390259 == <<{To(2), Ok}, {Bye, GivesBlind(Charges(Bye))}>>
N9390260 == <<{To(2), Ok}, {Bye, GivesBlind(Charges(Bye))}>>
N9390262 == <<{To(2), Ok}, {Bye, GivesBlind(Charges(Bye))}>>
N9390304 == <<{To(2), Ok}, {Bye, GivesBlind(Charges(Bye))}>>
N9390305 == <<{To(2), Ok}, {Bye, GivesBlind(Charges(Bye))}>>
N9390306 == <<{To(2), Ok}, {Bye, GivesBlind(Charges(Bye))}>>
N9390307 == <<{Ok, Silence}>>
N9390308 == <<{To(2), Ok}, {Bye, GivesBlind(Charges(Bye))}>>
N9390309 == <<{To(2), Ok}, {Bye, GivesBlind(Charges(Bye))}>>
N9390310 == <<{To(2), Ok}, {Bye, GivesBlind(Charges(Bye))}>>
N9390312 == <<{To(2), Ok}, {Bye, GivesBlind(Charges(Bye))}>>
N9390313 == <<{To(2), Ok}, {Bye, GivesBlind(Charges(Bye))}>>
N9390314 == <<{Ok}>>
N9390315 == <<{Charges(Ok), GivesBlind(Charges(Ok)), Ok}>>
N9390316 == <<{Charges(Ok), Ok}>>
N9390317 == <<{To(2), Ok}, {Bye, GivesBlind(Charges(Bye))}>>
N9390318 == <<{Ok}>>
N9390319 == <<{To(2), Ok}, {Bye, GivesBlind(Charges(Bye))}>>
N9390320 == <<{To(2), Ok}, {Bye, GivesBlind(Charges(Bye))}>>
N9390324 == <<{Charges(Ok), GivesBlind(Charges(Ok)), Ok}>>
N9390327 == <<{To(2)}, {To(3), Ok}, {To(4)}, {To(5)}, {Charges(Ok), Ok}>>
N9390328 == <<{To(2), Ok}, {Bye, GivesBlind(Charges(Bye))}>>
N9390329 == <<{To(2), Ok}, {Bye, GivesBlind(Charges(Bye))}>>
N9390330 == <<{To(2), Ok}, {Bye, GivesBlind(Charges(Bye))}>>
N9390331 == <<{To(2), Ok}, {Bye, GivesBlind(Charges(Bye))}>>
N9390333 == <<{To(2), Ok}, {Bye, GivesBlind(Charges(Bye))}>>
N9390335 == <<{To(2), Ok}, {Bye, GivesBlind(Charges(Bye))}>>
N9390336 == <<{Ok}>>
N9390417 == <<{To(2), Ok}, {To(3)}, {To(4), Ok}, {Ok, Charges(Bye)}>>
N9390442 == <<{To(2), Ok}, {To(3)}, {To(4), Ok}, {GivesBlind(Charges(Ok)), Ok}>>
N9390443 == <<{To(2), Ok}, {To(3), To(4), Ok}, {Ok, Bye, Charges(Bye)}, {Ok, Bye}>>
N9390450 == <<{Ok}>>
N9390451 == <<{Ok}>>
N9390470 == <<{To(2), Ok}, {Bye, GivesBlind(Charges(Bye))}>>
N9400061 == <<{To(2)}, {To(3), To(4), Ok}, {Charges(To(5)), Ok}, {To(6), Ok}, {To(3), Ok},
    {Charges(Ok), Ok}>>
N9400218 == <<{To(2), Ok}, {To(3), Ok}, {Charges(To(3)), Charges(Ok), Ok}>>
N9400219 == <<{To(2), Ok}, {To(3)}, {To(4)}, {To(5), Ok}, {Charges(Ok), Ok}>>
N9400221 == <<{To(2), Ok}, {To(3)}, {To(4)}, {To(5), Ok}, {Charges(Ok), Ok}>>
N9400527 == <<{To(2)}, {To(3), Ok}, {To(4), Ok}, {To(5)}, {Charges(Ok), Ok}>>
N9400530 == <<{To(2)}, {Ok, Charges(Bye)}>>
N9400584 == <<{To(2), To(3)}, {To(4), To(5), Ok}, {To(4), Ok}, {Charges(Ok), Ok}, {Ok}>>
N9400719 == <<{To(2), Ok}, {Ok, Bye, Silence}>>
N9400801 == <<{To(2)}, {To(3), To(4), Ok}, {GivesBlind(Charges(Ok)), Ok}, {To(5)},
    {Charges(Ok), Ok}>>
N9400813 == <<{To(2)}, {To(3), Ok}, {Ok}>>
N9400819 == <<{To(2)}, {To(3)}, {To(4)}, {To(5), Ok}, {GivesBlind(Charges(Ok)), Ok}>>
N9400841 == <<{To(2)}, {To(3)}, {GivesBlind(Charges(Ok)), Ok}>>
N9400842 == <<{To(2)}, {To(3)}, {GivesBlind(Charges(Ok)), Ok}>>
N9400844 == <<{To(2)}, {To(3), Ok}, {Charges(Ok), Ok}>>
N9400917 == <<{To(2), Ok}, {To(3)}, {To(4), Ok}, {Charges(Ok), Ok}>>
N9400981 == <<{To(2), Ok}, {To(3), Ok}, {GivesBlind(ChargesBlind(Ok))}>>
N9400982 == <<{To(2), Ok}, {To(3), Ok}, {Charges(To(3)), Charges(Ok), Ok}>>
N9400983 == <<{To(2), Ok}, {To(3)}, {GivesBlind(Charges(To(1))), Ok}>>
N9400985 == <<{To(2)}, {To(3)}, {GivesBlind(Charges(Ok)), Ok}>>
N9400986 == <<{To(2), Ok}, {GivesBlind(Charges(Ok)), Ok}>>
N9400987 == <<{To(2)}, {Charges(Ok), Ok}>>
N9401088 == <<{To(2), Ok}, {To(3)}, {To(4)}, {To(5)}, {To(6)}, {Charges(Ok), Ok}>>
N9401169 == <<{To(2)}, {To(3)}, {Charges(Ok), Ok}>>
N9900000 == <<{To(2), Ok}, {To(3)}, {Silence}>>
N9901101 == <<{To(2)}, {To(3), To(4)}, {Ok, Bye, Charges(Bye), Charges(Silence), Silence},
    {Gives(Charges(Ok)), Ok}>>
N9901201 == <<{To(2)}, {To(3), To(4), To(5), To(6)}, {Ok, Silence}, {Ok}, {Gives(Ok), Ok},
    {Gives(Ok), Ok, Silence}>>
N9901501 == <<{To(2)}, {To(3)}, {Gives(Ok), Ok}>>
N9901502 == <<{Ok, Gives(Silence)}>>
N9901503 == <<{To(2), To(3), To(4), Ok}, {Ok}, {Ok, Silence}, {Ok, Bye, Silence}>>
N9901900 == <<{To(1)}>>

ZonesScripts == {<<"9300000", N9300000>>, <<"9300011", N9300011>>, <<"9310001", N9310001>>,
    <<"9310002", N9310002>>, <<"9310003", N9310003>>, <<"9310013", N9310013>>,
    <<"9310057", N9310057>>, <<"9310421", N9310421>>, <<"9330045", N9330045>>,
    <<"9330085", N9330085>>, <<"9330108", N9330108>>, <<"9330109", N9330109>>,
    <<"9330110", N9330110>>, <<"9390120", N9390120>>, <<"9390122", N9390122>>,
    <<"9390126", N9390126>>, <<"9390201", N9390201>>, <<"9390203", N9390203>>,
    <<"9390204", N9390204>>, <<"9390205", N9390205>>, <<"9390206", N9390206>>,
    <<"9390207", N9390207>>, <<"9390210", N9390210>>, <<"9390212", N9390212>>,
    <<"9390213", N9390213>>, <<"9390215", N9390215>>, <<"9390216", N9390216>>,
    <<"9390219", N9390219>>, <<"9390220", N9390220>>, <<"9390221", N9390221>>,
    <<"9390234", N9390234>>, <<"9390236", N9390236>>, <<"9390237", N9390237>>,
    <<"9390239", N9390239>>, <<"9390240", N9390240>>, <<"9390241", N9390241>>,
    <<"9390249", N9390249>>, <<"9390250", N9390250>>, <<"9390251", N9390251>>,
    <<"9390252", N9390252>>, <<"9390255", N9390255>>, <<"9390258", N9390258>>,
    <<"9390259", N9390259>>, <<"9390260", N9390260>>, <<"9390262", N9390262>>,
    <<"9390304", N9390304>>, <<"9390305", N9390305>>, <<"9390306", N9390306>>,
    <<"9390307", N9390307>>, <<"9390308", N9390308>>, <<"9390309", N9390309>>,
    <<"9390310", N9390310>>, <<"9390312", N9390312>>, <<"9390313", N9390313>>,
    <<"9390314", N9390314>>, <<"9390315", N9390315>>, <<"9390316", N9390316>>,
    <<"9390317", N9390317>>, <<"9390318", N9390318>>, <<"9390319", N9390319>>,
    <<"9390320", N9390320>>, <<"9390324", N9390324>>, <<"9390327", N9390327>>,
    <<"9390328", N9390328>>, <<"9390329", N9390329>>, <<"9390330", N9390330>>,
    <<"9390331", N9390331>>, <<"9390333", N9390333>>, <<"9390335", N9390335>>,
    <<"9390336", N9390336>>, <<"9390417", N9390417>>, <<"9390442", N9390442>>,
    <<"9390443", N9390443>>, <<"9390450", N9390450>>, <<"9390451", N9390451>>,
    <<"9390470", N9390470>>, <<"9400061", N9400061>>, <<"9400218", N9400218>>,
    <<"9400219", N9400219>>, <<"9400221", N9400221>>, <<"9400527", N9400527>>,
    <<"9400530", N9400530>>, <<"9400584", N9400584>>, <<"9400719", N9400719>>,
    <<"9400801", N9400801>>, <<"9400813", N9400813>>, <<"9400819", N9400819>>,
    <<"9400841", N9400841>>, <<"9400842", N9400842>>, <<"9400844", N9400844>>,
    <<"9400917", N9400917>>, <<"9400981", N9400981>>, <<"9400982", N9400982>>,
    <<"9400983", N9400983>>, <<"9400985", N9400985>>, <<"9400986", N9400986>>,
    <<"9400987", N9400987>>, <<"9401088", N9401088>>, <<"9401169", N9401169>>,
    <<"9900000", N9900000>>, <<"9901101", N9901101>>, <<"9901201", N9901201>>,
    <<"9901501", N9901501>>, <<"9901502", N9901502>>, <<"9901503", N9901503>>,
    <<"9901900", N9901900>>}
=============================================================================
