---------------------------- MODULE NpcsOssyria -----------------------------
\* The NPCs of Orbis, El Nath, Ludibrium and Aqua Road: NX (N_x) is scripts/npc/X.js.
EXTENDS NpcScript

N2001000 == <<{To(2)}, {To(3)}, {To(2), To(4)}, {To(3), To(5)}, {To(4), Silence}>>
N2001001 == <<{To(2)}, {Bye}>>
N2001002 == <<{To(2)}, {Bye}>>
N2001003 == <<{To(2)}, {Bye}>>
N2001004 == <<{To(2)}, {Bye}>>
N2002000 == <<{To(2)}, {Bye}>>
N2010000 == <<{To(2)}, {To(3)}, {To(4)}, {To(5)}, {To(6), Gives(Charges(Ok)), Ok}, {Silence}>>
N2010001 == <<{To(2)}, {Charges(Ok), Ok}>>
N2010002 == <<{To(2)}, {To(3)}, {Charges(Ok), Ok}>>
N2010003 == <<{Silence}>>
N2010005 == <<{To(2)}, {To(3), To(4), To(5)}, {Ok, Charges(Bye)}, {Ok, Bye}, {To(6)},
    {Ok, Silence}>>
N2010006 == <<{Storage}>>
N2010007 == <<{To(2), To(3), Ok}, {To(4), To(5), Ok}, {To(4), Ok}, {Bye, Silence},
    {Bye, Charges(Bye), Silence}>>
N2010008 == <<{To(2), Ok}, {To(3), Ok}, {Ok, Bye}>>
N2010009 == <<{To(2), Ok}, {To(3), To(4), To(5), Ok}, {To(6)}, {ChargesBlind(Ok), Ok}, {Ok},
    {To(7)}, {To(3), Ok}>>
N2010011 == <<{To(2)}, {Bye}>>
N2012000 == <<{Ok}>>
N2012001 == <<{To(2)}, {Bye}>>
N2012002 == <<{To(2)}, {Bye}>>
N2012006 == <<{To(2)}, {To(3)}, {Bye}>>
N2012007 == <<{To(2)}, {To(3)}, {Charges(Ok), Ok}>>
N2012008 == <<{To(2)}, {To(3)}, {Charges(Ok), Ok}>>
N2012009 == <<{To(2)}, {To(3)}, {Charges(Ok), Ok}>>
N2012012 == <<{To(2)}, {Bye, GivesBlind(Charges(Bye))}>>
N2012013 == <<{To(2)}, {Bye}>>
N2012014 == <<{To(2), Ok}, {ChargesBlind(Bye)}>>
N2012015 == <<{To(2), Ok}, {ChargesBlind(Bye)}>>
N2012018 == <<{To(2)}, {Ok, Bye}>>
N2012019 == <<{To(2)}, {Bye, GivesBlind(Charges(Bye))}>>
N2012020 == <<{To(2)}, {Bye, GivesBlind(Charges(Bye))}>>
N2012021 == <<{To(2)}, {Bye}>>
N2012022 == <<{To(2)}, {Bye}>>
N2012023 == <<{Gives(Charges(Ok)), Ok, Silence}>>
N2012024 == <<{To(2)}, {Bye}>>
N2012025 == <<{To(2)}, {Bye}>>
N2012027 == <<{Silence}>>
N2012028 == <<{Silence}>>
N2012029 == <<{Silence}>>
N2012030 == <<{Silence}>>
N2012031 == <<{Silence}>>
N2012032 == <<{Silence}>>
N2012033 == <<{Silence}>>
N2013001 == <<{To(1), Ok, Bye, Gives(Silence), GivesBlind(Charges(Silence)), Silence}>>
N2013002 == <<{Ok, Bye, Gives(Bye), Silence}>>
N2020000 == <<{Silence}>>
N2020001 == <<{Shop}>>
N2020002 == <<{Silence}>>
N2020004 == <<{Storage}>>
N2020005 == <<{To(2), Ok}, {To(3)}, {To(4), Ok}, {Gives(Charges(Ok)), GivesBlind(Charges(Ok))}>>
N2020008 == <<{To(2), Ok, Bye, Silence}, {Gives(Ok), Ok, Silence}>>
N2020009 == <<{To(2), Ok}, {Ok, Silence}>>
N2020010 == <<{To(2), Ok}, {Ok, Silence}>>
N2020011 == <<{To(2), Ok}, {Ok, Silence}>>
N2020013 == <<{To(2), Ok}, {Ok, Silence}>>
N2022003 == <<{To(2)}, {Ok, Bye, Gives(Charges(Silence)), Silence}>>
N2022004 == <<{Ok, Bye}>>
N2022005 == <<{To(2)}, {Ok, Bye, GivesBlind(Silence)}>>
N2022006 == <<{To(1)}>>
N2022007 == <<{To(1), GivesBlind(Charges(Silence))}>>
N2022008 == <<{To(1)}>>
N2022009 == <<{To(1)}>>
N2023000 == <<{To(2)}, {To(3)}, {Ok, Charges(Bye)}>>
N2030000 == <<{To(2), Bye}, {To(3), To(4)}, {Bye, Silence}, {To(2), To(3), Bye, Silence}>>
N2030006 == <<{To(2), Ok}, {To(3)}, {To(2), GivesBlind(Charges(Ok)), Ok}>>
N2030008 == <<{Ok}>>
N2030010 == <<{To(2)}, {Bye}>>
N2030011 == <<{To(2)}, {Bye}>>
N2030014 == <<{To(2)}, {Bye}>>
N2032001 == <<{Silence}>>
N2032002 == <<{To(2)}, {To(3), To(4), To(5)}, {Silence}, {ChargesBlind(Silence)}, {Bye, Silence}>>
N2032003 == <<{To(2)}, {To(3)}, {To(2), To(4), Gives(Bye)}, {Silence}>>
N2040000 == <<{Ok}>>
N2040002 == <<{To(2), Ok}, {To(3), Ok}, {To(4), To(5), Ok}, {To(6), Ok}, {To(7), Ok},
    {To(8), To(9), Ok}, {To(10), To(11), Ok}, {To(6), To(12), To(13), Ok, Bye, Silence},
    {To(12), To(13), Ok, Bye, Silence}, {To(13), To(14), Ok}, {To(7), To(13), To(14), Ok},
    {To(8), To(9), To(13), Ok, Silence}, {To(13), Ok, Silence},
    {To(10), To(11), To(13), Ok, Silence}>>
N2040003 == <<{Ok}>>
N2040016 == <<{To(2)}, {To(3)}, {To(4)}, {GivesBlind(Charges(Ok)), Ok}>>
N2040019 == <<{To(2)}, {To(3)}, {Charges(Ok), Ok}>>
N2040020 == <<{To(2)}, {To(3)}, {To(4)}, {Bye}>>
N2040022 == <<{Silence}>>
N2040024 == <<{To(2), Ok}, {ChargesBlind(Bye)}>>
N2040025 == <<{To(2), Ok}, {To(3)}, {ChargesBlind(Bye)}>>
N2040026 == <<{To(2), Ok}, {To(3)}, {ChargesBlind(Bye)}>>
N2040027 == <<{To(2), Ok}, {ChargesBlind(Bye)}>>
N2040028 == <<{To(2), To(3), To(4)},
    {GivesBlind(ChargesBlind(To(4))), Gives(ChargesBlind(To(5)))}, {To(4)}, {Bye}, {To(4), Bye}>>
N2040030 == <<{To(2)}, {To(3), Silence}, {To(4)}, {To(5), Silence}, {To(6), Silence},
    {To(7), Silence}, {To(8), Silence}, {To(9), Silence}, {To(10), Silence}, {To(11), Silence},
    {Silence}>>
N2040032 == <<{To(2)}, {To(3), GivesBlind(Ok)}, {Silence}>>
N2040033 == <<{To(2), Ok}, {ChargesBlind(To(3)), To(3)}, {Silence}>>
N2040034 == <<{Ok, Bye, Silence}>>
N2040035 == <<{Bye}>>
N2040036 == <<{To(1), Ok}>>
N2040037 == <<{To(1), Ok}>>
N2040038 == <<{Charges(To(1)), To(1), Ok}>>
N2040039 == <<{To(1), Ok}>>
N2040040 == <<{Charges(To(1)), To(1), Ok}>>
N2040041 == <<{To(2)}, {Silence}>>
N2040042 == <<{To(1), Ok}>>
N2040043 == <<{To(1), Silence}>>
N2040044 == <<{To(1), To(2)}, {ChargesBlind(Bye), ChargesBlind(Silence), Silence}>>
N2040045 == <<{To(2)}, {Silence}>>
N2040046 == <<{To(2)}, {To(3)}, {To(4), Charges(Ok)}, {Silence}>>
N2040047 == <<{To(2), Bye, Charges(Bye)}, {Bye}>>
N2040048 == <<{To(2)}, {To(3), To(4), To(5)}, {To(4), Charges(Bye)}, {To(6), Bye}, {To(7)},
    {To(5)}, {To(5), Silence}>>
N2040050 == <<{To(2)}, {To(3)}, {To(4), Silence}, {To(5), Gives(ChargesBlind(Ok))}, {Silence}>>
N2040052 == <<{To(2)}, {To(1), Ok, Silence}>>
N2041000 == <<{To(2)}, {Bye}>>
N2041001 == <<{To(2)}, {Bye}>>
N2041003 == <<{Shop}>>
N2041004 == <<{To(2), Ok}, {ChargesBlind(Bye)}>>
N2041007 == <<{To(2)}, {To(3)}, {Charges(Ok), Ok}>>
N2041008 == <<{Storage}>>
N2041009 == <<{To(2)}, {To(3)}, {Charges(Ok), Ok}>>
N2041010 == <<{To(2)}, {To(3)}, {Charges(Ok), Ok}>>
N2041013 == <<{To(2)}, {To(3)}, {Charges(Ok), Ok}>>
N2041017 == <<{To(2)}, {To(3), To(4), Ok}, {Charges(Ok), Ok, Silence}, {Charges(Ok), Silence}>>
N2041023 == <<{Ok, Bye, Silence}>>
N2041025 == <<{To(2)}, {Bye}>>
N2042001 == <<{To(2), Ok}, {Ok, Bye}>>
N2042002 == <<{To(2), Ok}, {Ok, Charges(Bye)}>>
N2042003 == <<{Bye}>>
N2042004 == <<{Bye}>>
N2042006 == <<{To(2), Ok}, {Ok, Bye, Silence}>>
N2042007 == <<{To(2)}, {To(3), Ok}, {Ok, Charges(Bye)}>>
N2042008 == <<{Bye}>>
N2042009 == <<{Bye}>>
N2043000 == <<{To(2)}, {To(3)}, {To(2), Bye}>>
N2050004 == <<{Storage}>>
N2050014 == <<{Silence}>>
N2050015 == <<{Silence}>>
N2050016 == <<{Silence}>>
N2050017 == <<{Silence}>>
N2050018 == <<{Silence}>>
N2050019 == <<{Silence}>>
N2060005 == <<{Silence}>>
N2060008 == <<{Storage}>>
N2060009 == <<{To(2), To(3)}, {Charges(Bye), ChargesBlind(Bye)}, {Bye, Charges(Bye)}>>
N2060010 == <<{Bye}>>
N2060100 == <<{Ok, Charges(Bye)}>>
N2060103 == <<{Ok}>>

OssyriaScripts == {<<"2001000", N2001000>>, <<"2001001", N2001001>>, <<"2001002", N2001002>>,
    <<"2001003", N2001003>>, <<"2001004", N2001004>>, <<"2002000", N2002000>>,
    <<"2010000", N2010000>>, <<"2010001", N2010001>>, <<"2010002", N2010002>>,
    <<"2010003", N2010003>>, <<"2010005", N2010005>>, <<"2010006", N2010006>>,
    <<"2010007", N2010007>>, <<"2010008", N2010008>>, <<"2010009", N2010009>>,
    <<"2010011", N2010011>>, <<"2012000", N2012000>>, <<"2012001", N2012001>>,
    <<"2012002", N2012002>>, <<"2012006", N2012006>>, <<"2012007", N2012007>>,
    <<"2012008", N2012008>>, <<"2012009", N2012009>>, <<"2012012", N2012012>>,
    <<"2012013", N2012013>>, <<"2012014", N2012014>>, <<"2012015", N2012015>>,
    <<"2012018", N2012018>>, <<"2012019", N2012019>>, <<"2012020", N2012020>>,
    <<"2012021", N2012021>>, <<"2012022", N2012022>>, <<"2012023", N2012023>>,
    <<"2012024", N2012024>>, <<"2012025", N2012025>>, <<"2012027", N2012027>>,
    <<"2012028", N2012028>>, <<"2012029", N2012029>>, <<"2012030", N2012030>>,
    <<"2012031", N2012031>>, <<"2012032", N2012032>>, <<"2012033", N2012033>>,
    <<"2013001", N2013001>>, <<"2013002", N2013002>>, <<"2020000", N2020000>>,
    <<"2020001", N2020001>>, <<"2020002", N2020002>>, <<"2020004", N2020004>>,
    <<"2020005", N2020005>>, <<"2020008", N2020008>>, <<"2020009", N2020009>>,
    <<"2020010", N2020010>>, <<"2020011", N2020011>>, <<"2020013", N2020013>>,
    <<"2022003", N2022003>>, <<"2022004", N2022004>>, <<"2022005", N2022005>>,
    <<"2022006", N2022006>>, <<"2022007", N2022007>>, <<"2022008", N2022008>>,
    <<"2022009", N2022009>>, <<"2023000", N2023000>>, <<"2030000", N2030000>>,
    <<"2030006", N2030006>>, <<"2030008", N2030008>>, <<"2030010", N2030010>>,
    <<"2030011", N2030011>>, <<"2030014", N2030014>>, <<"2032001", N2032001>>,
    <<"2032002", N2032002>>, <<"2032003", N2032003>>, <<"2040000", N2040000>>,
    <<"2040002", N2040002>>, <<"2040003", N2040003>>, <<"2040016", N2040016>>,
    <<"2040019", N2040019>>, <<"2040020", N2040020>>, <<"2040022", N2040022>>,
    <<"2040024", N2040024>>, <<"2040025", N2040025>>, <<"2040026", N2040026>>,
    <<"2040027", N2040027>>, <<"2040028", N2040028>>, <<"2040030", N2040030>>,
    <<"2040032", N2040032>>, <<"2040033", N2040033>>, <<"2040034", N2040034>>,
    <<"2040035", N2040035>>, <<"2040036", N2040036>>, <<"2040037", N2040037>>,
    <<"2040038", N2040038>>, <<"2040039", N2040039>>, <<"2040040", N2040040>>,
    <<"2040041", N2040041>>, <<"2040042", N2040042>>, <<"2040043", N2040043>>,
    <<"2040044", N2040044>>, <<"2040045", N2040045>>, <<"2040046", N2040046>>,
    <<"2040047", N2040047>>, <<"2040048", N2040048>>, <<"2040050", N2040050>>,
    <<"2040052", N2040052>>, <<"2041000", N2041000>>, <<"2041001", N2041001>>,
    <<"2041003", N2041003>>, <<"2041004", N2041004>>, <<"2041007", N2041007>>,
    <<"2041008", N2041008>>, <<"2041009", N2041009>>, <<"2041010", N2041010>>,
    <<"2041013", N2041013>>, <<"2041017", N2041017>>, <<"2041023", N2041023>>,
    <<"2041025", N2041025>>, <<"2042001", N2042001>>, <<"2042002", N2042002>>,
    <<"2042003", N2042003>>, <<"2042004", N2042004>>, <<"2042006", N2042006>>,
    <<"2042007", N2042007>>, <<"2042008", N2042008>>, <<"2042009", N2042009>>,
    <<"2043000", N2043000>>, <<"2050004", N2050004>>, <<"2050014", N2050014>>,
    <<"2050015", N2050015>>, <<"2050016", N2050016>>, <<"2050017", N2050017>>,
    <<"2050018", N2050018>>, <<"2050019", N2050019>>, <<"2060005", N2060005>>,
    <<"2060008", N2060008>>, <<"2060009", N2060009>>, <<"2060010", N2060010>>,
    <<"2060100", N2060100>>, <<"2060103", N2060103>>}
=============================================================================
