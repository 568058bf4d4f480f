----------------------------- MODULE NpcsArcane -----------------------------
\* The NPCs of the Arcane river and the later bosses: NX (N_x) is scripts/npc/X.js.
EXTENDS NpcScript

N3000001 == <<{Ok}>>
N3000003 == <<{To(2), Ok}, {Ok, Charges(Bye)}>>
N3000011 == <<{To(2), Ok}, {Ok, Charges(Bye)}>>
N3001213 == <<{To(2)}, {To(3)}, {To(4), Ok}, {Gives(Charges(Ok)), Ok}>>
N3001215 == <<{To(2)}, {To(3)}, {To(4), Ok}, {Gives(Charges(Ok)), Ok}>>
N3001222 == <<{To(2), Ok}, {Ok, Charges(Bye)}>>
N3001230 == <<{To(2)}, {To(3)}, {To(4), Ok}, {Gives(Charges(Ok)), Ok}>>
N3001552 == <<{Ok}>>
N3001612 == <<{To(2), Ok}, {Ok, Bye}>>
N3001904 == <<{To(2), Ok}, {Ok, Charges(Bye)}>>
N3001910 == <<{To(2), Ok}, {Ok, Charges(Bye)}>>
N3001913 == <<{To(2), Ok}, {Ok, Charges(Bye)}>>
N3001931 == <<{To(2)}, {To(3), Ok}, {To(4), Ok}, {To(5)}, {Charges(Ok), Ok}>>
N3001947 == <<{To(2), Ok}, {Bye, Charges(Bye)}>>
N3002020 == <<{To(2)}, {Bye}>>
N3002023 == <<{To(2)}, {Bye}>>
N3003100 == <<{To(2), Ok}, {Ok, Bye}>>
N3003101 == <<{To(2)}, {To(3)}, {To(4)}, {To(5), Ok}, {Gives(Charges(Ok)), Ok}>>
N3003103 == <<{To(2), Ok}, {Ok, Bye, Silence}>>
N3003110 == <<{To(2), Ok}, {Bye}>>
N3003111 == <<{To(2)}, {To(3)}, {To(4), Ok}, {Gives(Charges(Ok)), Ok}>>
N3003123 == <<{To(2)}, {Bye}>>
N3003126 == <<{To(2)}, {To(3), Ok}, {Ok, Charges(Bye), Silence}>>
N3003146 == <<{To(2)}, {To(3), To(4), Ok}, {Ok, Bye, Silence}, {Ok}>>
N3003219 == <<{To(2), Ok}, {Ok, Bye, Silence}>>
N3003250 == <<{To(2), Ok}, {Ok, Bye, Silence}>>
N3003270 == <<{To(2)}, {Bye}>>
N3003273 == <<{To(2), Ok}, {Ok, Bye, Silence}>>
N3003300 == <<{To(2), Ok, Silence}, {Bye}>>
N3003314 == <<{To(2), Ok}, {Bye}>>
N3003336 == <<{To(2), Ok, Silence}, {Bye}>>
N3003403 == <<{To(2), Ok}, {To(3), Ok}, {Bye}>>
N3003428 == <<{To(2)}, {To(3)}, {To(4), Ok}, {Gives(Charges(Ok)), Ok}>>
N3003435 == <<{To(2), Ok}, {Ok, Charges(Bye)}>>
N3003530 == <<{To(2), Ok}, {Bye}>>
N3003531 == <<{To(2), Charges(Ok)}, {Bye, Charges(Bye), GivesBlind(Charges(Bye))}>>
N3003533 == <<{To(2), Ok}, {Bye}>>
N3003555 == <<{To(2), Ok}, {Ok, Bye, Silence}>>
N3003558 == <<{To(2)}, {Bye, GivesBlind(Charges(Bye))}>>
N3003560 == <<{To(2), Ok}, {Ok, Bye, Silence}>>
N3003570 == <<{To(2), Ok}, {Bye}>>
N3003609 == <<{To(2)}, {Bye}>>
N3003611 == <<{To(2)}, {Bye}>>
N3003620 == <<{To(2), Ok}, {Ok, Bye, Silence}>>
N3003639 == <<{Ok}>>
N3003651 == <<{To(2)}, {Bye}>>
N3003656 == <<{To(2), Ok}, {Ok, Bye, Silence}>>
N3003659 == <<{To(2), Ok}, {Ok, Bye, Silence}>>
N3003693 == <<{To(2), Ok}, {To(3)}, {To(4), Ok}, {Charges(Ok), Ok}>>
N3003707 == <<{To(2), Ok}, {Ok, Bye}>>
N3003726 == <<{To(2), Ok}, {Bye}>>
N3003787 == <<{To(2)}, {Bye}>>
N3003810 == <<{To(2), To(3), Ok}, {Ok, Bye}, {GivesBlind(Charges(Ok)), Ok}>>
N3003811 == <<{To(2)}, {To(3), To(4)}, {GivesBlind(Charges(Ok)), Ok}, {To(5), Ok},
    {Gives(Charges(To(6))), Ok}, {To(4)}>>
N3003900 == <<{To(2), Ok}, {Bye}>>
N3003932 == <<{To(2), Ok}, {Ok, Bye, Charges(Bye)}>>
N3003952 == <<{To(2), Ok}, {Bye}>>
N3003960 == <<{To(2)}, {Bye}>>
N3003965 == <<{To(2), Ok}, {Bye}>>
N3003975 == <<{To(2)}, {Bye}>>
N3004335 == <<{To(2), Ok}, {GivesBlind(Charges(Ok)), Ok}>>
N3004410 == <<{To(2), Ok}, {Ok, Charges(Bye)}>>
N3004411 == <<{To(2), Ok}, {Ok, Charges(Bye)}>>
N3004441 == <<{To(2), Ok}, {Bye}>>
N3004506 == <<{To(2), Ok}, {Ok, Charges(Bye)}>>
N3004541 == <<{To(2), Ok}, {Ok, Charges(Bye)}>>
N3004816 == <<{To(2), Ok}, {To(3), Ok}, {Ok, Charges(Bye)}>>
N3004971 == <<{To(2), Ok}, {Ok, Charges(Bye)}>>
N3004990 == <<{To(2)}, {Bye}>>
N3005004 == <<{To(2), Ok}, {Ok, Charges(Bye)}>>
N3005016 == <<{To(2), Ok}, {Ok, Charges(Bye)}>>
N3005151 == <<{To(2)}, {To(3), Ok}, {Ok, Charges(Bye)}>>
N3005162 == <<{To(2), Ok}, {Ok, Charges(Bye)}>>
N3005164 == <<{To(2), Ok}, {Ok, Charges(Bye)}>>
N3005173 == <<{To(2), Ok}, {Ok, Charges(Bye)}>>
N3005180 == <<{To(2), Ok}, {Ok, Charges(Bye)}>>
N3005258 == <<{To(2)}, {To(3), Ok}, {Ok, Charges(Bye)}>>
N3005267 == <<{To(2), Ok}, {Ok, Charges(Bye)}>>
N3005510 == <<{To(2), Ok}, {Ok, Charges(Bye)}>>
N3005531 == <<{To(2), Ok}, {Ok, Charges(Bye)}>>
N3005541 == <<{To(2), Ok}, {Ok, Charges(Bye)}>>
N3005644 == <<{To(2)}, {To(3), Ok}, {Ok, Charges(Bye)}>>
N3006119 == <<{To(2), Ok}, {Ok, Charges(Bye)}>>
N3006125 == <<{To(2), Ok}, {Ok, Charges(Bye)}>>
N3006126 == <<{To(2), Ok}, {Ok, Charges(Bye)}>>
N3006127 == <<{To(2), Ok}, {Ok, Charges(Bye)}>>
N3006199 == <<{To(2), Ok}, {Ok, Charges(Bye)}>>
N3006289 == <<{To(2)}, {To(3), Ok}, {Ok, Charges(Bye)}>>
N3006295 == <<{To(2), Ok}, {Ok}>>
N3006427 == <<{To(2), Ok}, {Ok, Charges(Bye)}>>
N3006442 == <<{To(2), Ok}, {Ok, Charges(Bye)}>>
N3006480 == <<{To(2)}, {To(3), Ok}, {Ok, Charges(Bye)}>>
N3006519 == <<{To(2), Ok}, {Bye, GivesBlind(Charges(Bye))}>>
N3006520 == <<{To(2), Ok}, {Bye, GivesBlind(Charges(Bye))}>>
N3006521 == <<{To(2), Ok}, {Bye, GivesBlind(Charges(Bye))}>>
N3006531 == <<{To(2), Ok}, {Bye, GivesBlind(Charges(Bye))}>>
N3006532 == <<{To(2), Ok}, {Bye, GivesBlind(Charges(Bye))}>>
N3006533 == <<{To(2), Ok}, {Bye, GivesBlind(Charges(Bye))}>>
N3006534 == <<{To(2), Ok}, {Bye, GivesBlind(Charges(Bye))}>>
N3006535 == <<{To(2), Ok}, {Bye, GivesBlind(Charges(Bye))}>>
N3006536 == <<{To(2), Ok}, {Bye, GivesBlind(Charges(Bye))}>>
N3006537 == <<{To(2), Ok}, {Bye, GivesBlind(Charges(Bye))}>>
N3006538 == <<{To(2), Ok}, {Bye, GivesBlind(Charges(Bye))}>>
N3006539 == <<{To(2), Ok}, {Bye, GivesBlind(Charges(Bye))}>>
N3006540 == <<{To(2), Ok}, {Bye, GivesBlind(Charges(Bye))}>>
N3006541 == <<{To(2), Ok}, {Bye, GivesBlind(Charges(Bye))}>>
N3006548 == <<{To(2)}, {To(3), Ok}, {Ok, Charges(Bye)}>>
N3006551 == <<{Ok}>>
N3006553 == <<{Ok}>>
N3006588 == <<{To(2)}, {To(3), Ok}, {Ok, Charges(Bye)}>>
N3006589 == <<{To(2)}, {To(3), Ok}, {Ok, Charges(Bye)}>>
N3006592 == <<{To(2)}, {To(3), Ok}, {Charges(Ok), Ok}>>

ArcaneScripts == {<<"3000001", N3000001>>, <<"3000003", N3000003>>, <<"3000011", N3000011>>,
    <<"3001213", N3001213>>, <<"3001215", N3001215>>, <<"3001222", N3001222>>,
    <<"3001230", N3001230>>, <<"3001552", N3001552>>, <<"3001612", N3001612>>,
    <<"3001904", N3001904>>, <<"3001910", N3001910>>, <<"3001913", N3001913>>,
    <<"3001931", N3001931>>, <<"3001947", N3001947>>, <<"3002020", N3002020>>,
    <<"3002023", N3002023>>, <<"3003100", N3003100>>, <<"3003101", N3003101>>,
    <<"3003103", N3003103>>, <<"3003110", N3003110>>, <<"3003111", N3003111>>,
    <<"3003123", N3003123>>, <<"3003126", N3003126>>, <<"3003146", N3003146>>,
    <<"3003219", N3003219>>, <<"3003250", N3003250>>, <<"3003270", N3003270>>,
    <<"3003273", N3003273>>, <<"3003300", N3003300>>, <<"3003314", N3003314>>,
    <<"3003336", N3003336>>, <<"3003403", N3003403>>, <<"3003428", N3003428>>,
    <<"3003435", N3003435>>, <<"3003530", N3003530>>, <<"3003531", N3003531>>,
    <<"3003533", N3003533>>, <<"3003555", N3003555>>, <<"3003558", N3003558>>,
    <<"3003560", N3003560>>, <<"3003570", N3003570>>, <<"3003609", N3003609>>,
    <<"3003611", N3003611>>, <<"3003620", N3003620>>, <<"3003639", N3003639>>,
    <<"3003651", N3003651>>, <<"3003656", N3003656>>, <<"3003659", N3003659>>,
    <<"3003693", N3003693>>, <<"3003707", N3003707>>, <<"3003726", N3003726>>,
    <<"3003787", N3003787>>, <<"3003810", N3003810>>, <<"3003811", N3003811>>,
    <<"3003900", N3003900>>, <<"3003932", N3003932>>, <<"3003952", N3003952>>,
    <<"3003960", N3003960>>, <<"3003965", N3003965>>, <<"3003975", N3003975>>,
    <<"3004335", N3004335>>, <<"3004410", N3004410>>, <<"3004411", N3004411>>,
    <<"3004441", N3004441>>, <<"3004506", N3004506>>, <<"3004541", N3004541>>,
    <<"3004816", N3004816>>, <<"3004971", N3004971>>, <<"3004990", N3004990>>,
    <<"3005004", N3005004>>, <<"3005016", N3005016>>, <<"3005151", N3005151>>,
    <<"3005162", N3005162>>, <<"3005164", N3005164>>, <<"3005173", N3005173>>,
    <<"3005180", N3005180>>, <<"3005258", N3005258>>, <<"3005267", N3005267>>,
    <<"3005510", N3005510>>, <<"3005531", N3005531>>, <<"3005541", N3005541>>,
    <<"3005644", N3005644>>, <<"3006119", N3006119>>, <<"3006125", N3006125>>,
    <<"3006126", N3006126>>, <<"3006127", N3006127>>, <<"3006199", N3006199>>,
    <<"3006289", N3006289>>, <<"3006295", N3006295>>, <<"3006427", N3006427>>,
    <<"3006442", N3006442>>, <<"3006480", N3006480>>, <<"3006519", N3006519>>,
    <<"3006520", N3006520>>, <<"3006521", N3006521>>, <<"3006531", N3006531>>,
    <<"3006532", N3006532>>, <<"3006533", N3006533>>, <<"3006534", N3006534>>,
    <<"3006535", N3006535>>, <<"3006536", N3006536>>, <<"3006537", N3006537>>,
    <<"3006538", N3006538>>, <<"3006539", N3006539>>, <<"3006540", N3006540>>,
    <<"3006541", N3006541>>, <<"3006548", N3006548>>, <<"3006551", N3006551>>,
    <<"3006553", N3006553>>, <<"3006588", N3006588>>, <<"3006589", N3006589>>,
    <<"3006592", N3006592>>}
=============================================================================
