----------------------------- MODULE NpcsTowns ------------------------------
\* The NPCs of the themed towns: NX (N_x) is scripts/npc/X.js.
EXTENDS NpcScript

N9200001 == <<{To(2)}, {Bye}>>
N9200100 == <<{To(2)}, {To(3)}, {Charges(Ok), Ok}>>
N9200101 == <<{To(2)}, {To(3)}, {Charges(Ok), Ok}>>
N9200102 == <<{To(2)}, {To(3)}, {Charges(Ok), Ok}>>
N9201000 == <<{Ok}>>
N9201002 == <<{To(2), Ok}, {Ok, Bye, Silence}>>
N9201005 == <<{To(2)}, {Bye}>>
N9201006 == <<{To(2), Silence}, {To(3), Ok, Bye, Silence}, {Silence}>>
N9201007 == <<{Silence}>>
N9201008 == <<{To(2)}, {Bye}>>
N9201009 == <<{Silence}>>
N9201010 == <<{To(2), Silence}, {To(3), Ok, Bye, Silence}, {Silence}>>
N9201011 == <<{To(2), Ok}, {Ok, Bye, Silence}>>
N9201012 == <<{To(2)}, {Gives(Charges(To(3))), Gives(To(3)), Ok}, {Silence}>>
N9201013 == <<{To(2)}, {Gives(Charges(To(3))), Gives(To(3)), Ok}, {Silence}>>
N9201014 == <<{Ok}>>
N9201015 == <<{To(2)}, {To(3)}, {Charges(Ok), Ok}>>
N9201016 == <<{To(2)}, {To(3)}, {Charges(Ok), Ok}>>
N9201021 == <<{To(2)}, {Bye}>>
N9201022 == <<{To(2), Bye}, {Bye}>>
N9201023 == <<{To(2)}, {To(3), Ok, Gives(Silence)}, {To(4)}, {To(5)}, {Bye}>>
N9201024 == <<{To(2), Ok}, {To(3)}, {To(4), Ok}, {Charges(Ok), Ok}>>
N9201025 == <<{To(2)}, {To(3), Ok, Gives(Silence)}, {To(4)}, {To(5)}, {Bye}>>
N9201026 == <<{To(2)}, {To(3), Ok, Gives(Silence)}, {To(4)}, {To(5)}, {Bye}>>
N9201027 == <<{To(2), Ok}, {Ok, Charges(Bye)}>>
N9201039 == <<{To(2)}, {To(3)}, {Charges(To(4)), To(4)}, {Silence}>>
N9201043 == <<{To(2), GivesBlind(Charges(Ok)), Ok}, {ChargesBlind(Bye)}>>
N9201044 == <<{Ok, Bye, Silence}>>
N9201045 == <<{Ok, Bye, Charges(Bye), Silence}>>
N9201047 == <<{Ok, Bye, Charges(Silence), Silence}>>
N9201048 == <<{To(2)}, {Ok, Bye, Silence}>>
N9201056 == <<{To(2)}, {To(3)}, {Bye}>>
N9201057 == <<{To(2), To(3), To(4)}, {To(5)}, {Bye}, {To(5), Bye}, {To(6), Charges(Bye)},
    {Silence}>>
N9201061 == <<{To(2)}, {To(3)}, {Charges(Ok), Ok}>>
N9201062 == <<{To(2)}, {To(3)}, {Charges(Ok), Ok}>>
N9201063 == <<{To(2)}, {To(3)}, {Charges(Ok), Ok}>>
N9201064 == <<{To(2)}, {To(3)}, {Charges(Ok), Ok}>>
N9201065 == <<{To(2)}, {To(3)}, {Charges(Ok), Ok}>>
N9201068 == <<{To(2), Silence}, {To(3), Charges(Bye)}, {Silence}>>
N9201069 == <<{To(2)}, {To(3)}, {Charges(Ok), Ok}>>
N9201070 == <<{To(2)}, {To(3)}, {Charges(Ok), Ok}>>
N9201079 == <<{Bye}>>
N9201081 == <<{Storage}>>
N9201088 == <<{To(2), Ok}, {To(3), Ok}, {ChargesBlind(Ok), Ok}>>
N9201091 == <<{To(2)}, {To(3)}, {To(4), Ok}, {Gives(Charges(Ok)), Ok}>>
N9201101 == <<{To(2)}, {To(3), Ok}, {To(4)}, {To(5), Ok}, {Charges(Ok), Ok}>>
N9201102 == <<{To(2), Ok}, {To(3), Ok}, {To(4), Ok}, {Ok}>>
N9201107 == <<{Ok, Bye, GivesBlind(Bye), Silence}>>
N9201108 == <<{Ok, Bye, GivesBlind(Bye), Silence}>>
N9201109 == <<{Ok, Bye, GivesBlind(Bye), Silence}>>
N9201110 == <<{GivesBlind(Ok), Ok, Silence}>>
N9201111 == <<{Ok, Silence}>>
N9201112 == <<{To(1), Silence}>>
N9201113 == <<{To(2), To(3), To(4), Ok}, {Ok}, {Ok, Silence},
    {Ok, Charges(Bye), Charges(Silence), Silence}>>
N9201114 == <<{Bye}>>
N9201115 == <<{To(1), Ok, Silence}>>
N9201117 == <<{To(2)}, {To(3)}, {To(4), Charges(Silence)}, {Silence}>>
N9201120 == <<{To(2)}, {Bye, GivesBlind(Charges(Bye))}>>
N9201123 == <<{To(2), Ok}, {To(3)}, {To(2), To(4), Ok}, {To(3), To(5)}, {To(6), To(7)}, {To(8)},
    {Silence}, {Bye}>>
N9201124 == <<{To(2), Ok}, {To(3)}, {To(2), To(4), Ok}, {To(3), To(5)}, {To(6), To(7)}, {To(8)},
    {Silence}, {Bye}>>
N9201125 == <<{To(2), Ok}, {To(3)}, {To(2), To(4), Ok}, {To(3), To(5)}, {To(6), To(7)}, {To(8)},
    {Silence}, {Bye}>>
N9201126 == <<{To(2), Ok}, {To(3)}, {To(2), To(4), Ok}, {To(3), To(5)}, {To(6), To(7)}, {To(8)},
    {Silence}, {Bye}>>
N9201127 == <<{To(2), Ok}, {To(3)}, {To(2), To(4), Ok}, {To(3), To(5)}, {To(6), To(7)}, {To(8)},
    {Silence}, {Bye}>>
N9201128 == <<{To(2), Ok}, {Bye}>>
N9201129 == <<{To(2), Ok}, {Bye}>>
N9201130 == <<{To(2), Ok}, {Bye}>>
N9201131 == <<{To(2), Ok}, {Bye}>>
N9201132 == <<{To(2), Ok}, {Bye}>>
N9201133 == <<{Ok, Bye}>>
N9201134 == <<{To(2)}, {Bye}>>
N9201135 == <<{To(2)}, {To(3)}, {To(4)}, {To(5), Charges(Bye)}, {Silence}>>
N9201139 == <<{Silence}>>
N9201140 == <<{Silence}>>
N9201141 == <<{Silence}>>
N9201142 == <<{To(2)}, {Ok, Bye, Silence}>>
N9201151 == <<{Ok}>>
N9201186 == <<{To(2), Ok}, {Ok, Bye}>>
N9201233 == <<{To(2), Ok}, {GivesBlind(Charges(To(1))), Ok}>>
N9201238 == <<{To(2)}, {To(3), Ok}, {Gives(Charges(To(3))), Gives(Charges(Ok)), Ok}>>
N9201252 == <<{To(2), Ok}, {Bye, GivesBlind(Charges(Bye))}>>
N9201358 == <<{To(2), Ok}, {To(3), Ok}, {To(4), Ok}, {To(5), Ok}, {Ok, Bye}>>
N9201429 == <<{To(2), To(3), Ok}, {Bye, Charges(Bye)}, {Bye}>>
N9201430 == <<{To(2), Ok}, {Bye, Charges(Bye)}>>
N9201431 == <<{To(2), Ok}, {Bye, Charges(Bye)}>>
N9201432 == <<{To(2), Ok}, {Bye, Charges(Bye)}>>
N9201433 == <<{To(2), Ok}, {Bye, GivesBlind(Charges(Bye))}>>
N9201434 == <<{To(2), Ok}, {Bye, GivesBlind(Charges(Bye))}>>
N9201435 == <<{To(2), Ok}, {Bye, GivesBlind(Charges(Bye))}>>
N9201598 == <<{Ok}>>
N9209000 == <<{To(2)}, {Charges(Ok), Ok}>>
N9209001 == <<{To(2)}, {Charges(Ok), Ok}>>
N9209005 == <<{To(2)}, {To(3), Bye}, {Gives(Charges(To(4))), To(4), Ok}, {Silence}>>
N9209008 == <<{To(2)}, {Ok}>>
N9209100 == <<{Ok}>>
N9220000 == <<{To(2)}, {Bye}>>
N9220005 == <<{To(2)}, {Bye}>>
N9220018 == <<{Ok, Bye, Silence}>>
N9220019 == <<{To(2)}, {Bye}>>
N9220020 == <<{To(1), Ok, Charges(Bye)}>>
N9250007 == <<{Shop}>>
N9250008 == <<{Shop}>>
N9250009 == <<{Shop}>>
N9250022 == <<{Ok}>>
N9250030 == <<{To(2)}, {To(3)}, {To(4), Charges(Ok)}, {Silence}>>
N9250031 == <<{Storage}>>
N9250049 == <<{To(2)}, {To(3)}, {To(4), Charges(Ok)}, {Silence}>>
N9250052 == <<{To(2), Ok}, {GivesBlind(Ok), Ok}>>
N9250137 == <<{To(2)}, {Bye}>>
N9250139 == <<{Silence}>>
N9250142 == <<{To(2)}, {To(3), Ok}, {Ok, Charges(Bye)}>>
N9250143 == <<{To(2)}, {Ok, Bye, Silence}>>
N9250155 == <<{To(2)}, {Bye}>>
N9250156 == <<{To(2)}, {Bye}>>
N9270017 == <<{To(2), Silence}, {Bye}>>
N9270018 == <<{To(2), Silence}, {Bye}>>
N9270019 == <<{Shop}>>
N9270020 == <<{Shop}>>
N9270022 == <<{Shop}>>
N9270023 == <<{To(2)}, {Silence}>>
N9270025 == <<{To(2)}, {Charges(Ok), Ok}>>
N9270026 == <<{To(2)}, {To(3), To(4)}, {Charges(Ok), Ok}, {To(5), To(6), Charges(Ok), Ok},
    {Silence}, {To(5), To(6), Silence}>>
N9270029 == <<{Ok}>>
N9270030 == <<{Ok}>>
N9270033 == <<{To(2)}, {Bye}>>
N9270034 == <<{Ok}>>
N9270035 == <<{To(2), Gives(Ok), Ok}, {To(3), Ok, Shop}, {To(4), To(5), Ok}, {To(6), Ok},
    {To(7), Ok}, {Ok, Silence}, {Ok, Bye}>>
N9270038 == <<{To(2)}, {Bye}>>
N9270041 == <<{To(2)}, {Bye}>>
N9270042 == <<{Storage}>>
N9270043 == <<{To(2), Ok}, {GivesBlind(ChargesBlind(Ok)), GivesBlind(Ok)}>>
N9270045 == <<{To(2)}, {Bye}>>
N9270047 == <<{To(2), Ok}, {Ok, Bye, Silence}>>
N9270054 == <<{Storage}>>
N9270055 == <<{Shop}>>
N9270056 == <<{Shop}>>
N9270075 == <<{To(2)}, {Bye}>>

TownsScripts == {<<"9200001", N9200001>>, <<"9200100", N9200100>>, <<"9200101", N9200101>>,
    <<"9200102", N9200102>>, <<"9201000", N9201000>>, <<"9201002", N9201002>>,
    <<"9201005", N9201005>>, <<"9201006", N9201006>>, <<"9201007", N9201007>>,
    <<"9201008", N9201008>>, <<"9201009", N9201009>>, <<"9201010", N9201010>>,
    <<"9201011", N9201011>>, <<"9201012", N9201012>>, <<"9201013", N9201013>>,
    <<"9201014", N9201014>>, <<"9201015", N9201015>>, <<"9201016", N9201016>>,
    <<"9201021", N9201021>>, <<"9201022", N9201022>>, <<"9201023", N9201023>>,
    <<"9201024", N9201024>>, <<"9201025", N9201025>>, <<"9201026", N9201026>>,
    <<"9201027", N9201027>>, <<"9201039", N9201039>>, <<"9201043", N9201043>>,
    <<"9201044", N9201044>>, <<"9201045", N9201045>>, <<"9201047", N9201047>>,
    <<"9201048", N9201048>>, <<"9201056", N9201056>>, <<"9201057", N9201057>>,
    <<"9201061", N9201061>>, <<"9201062", N9201062>>, <<"9201063", N9201063>>,
    <<"9201064", N9201064>>, <<"9201065", N9201065>>, <<"9201068", N9201068>>,
    <<"9201069", N9201069>>, <<"9201070", N9201070>>, <<"9201079", N9201079>>,
    <<"9201081", N9201081>>, <<"9201088", N9201088>>, <<"9201091", N9201091>>,
    <<"9201101", N9201101>>, <<"9201102", N9201102>>, <<"9201107", N9201107>>,
    <<"9201108", N9201108>>, <<"9201109", N9201109>>, <<"9201110", N9201110>>,
    <<"9201111", N9201111>>, <<"9201112", N9201112>>, <<"9201113", N9201113>>,
    <<"9201114", N9201114>>, <<"9201115", N9201115>>, <<"9201117", N9201117>>,
    <<"9201120", N9201120>>, <<"9201123", N9201123>>, <<"9201124", N9201124>>,
    <<"9201125", N9201125>>, <<"9201126", N9201126>>, <<"9201127", N9201127>>,
    <<"9201128", N9201128>>, <<"9201129", N9201129>>, <<"9201130", N9201130>>,
    <<"9201131", N9201131>>, <<"9201132", N9201132>>, <<"9201133", N9201133>>,
    <<"9201134", N9201134>>, <<"9201135", N9201135>>, <<"9201139", N9201139>>,
    <<"9201140", N9201140>>, <<"9201141", N9201141>>, <<"9201142", N9201142>>,
    <<"9201151", N9201151>>, <<"9201186", N9201186>>, <<"9201233", N9201233>>,
    <<"9201238", N9201238>>, <<"9201252", N9201252>>, <<"9201358", N9201358>>,
    <<"9201429", N9201429>>, <<"9201430", N9201430>>, <<"9201431", N9201431>>,
    <<"9201432", N9201432>>, <<"9201433", N9201433>>, <<"9201434", N9201434>>,
    <<"9201435", N9201435>>, <<"9201598", N9201598>>, <<"9209000", N9209000>>,
    <<"9209001", N9209001>>, <<"9209005", N9209005>>, <<"9209008", N9209008>>,
    <<"9209100", N9209100>>, <<"9220000", N9220000>>, <<"9220005", N9220005>>,
    <<"9220018", N9220018>>, <<"9220019", N9220019>>, <<"9220020", N9220020>>,
    <<"9250007", N9250007>>, <<"9250008", N9250008>>, <<"9250009", N9250009>>,
    <<"9250022", N9250022>>, <<"9250030", N9250030>>, <<"9250031", N9250031>>,
    <<"9250049", N9250049>>, <<"9250052", N9250052>>, <<"9250137", N9250137>>,
    <<"9250139", N9250139>>, <<"9250142", N9250142>>, <<"9250143", N9250143>>,
    <<"9250155", N9250155>>, <<"9250156", N9250156>>, <<"9270017", N9270017>>,
    <<"9270018", N9270018>>, <<"9270019", N9270019>>, <<"9270020", N9270020>>,
    <<"9270022", N9270022>>, <<"9270023", N9270023>>, <<"9270025", N9270025>>,
    <<"9270026", N9270026>>, <<"9270029", N9270029>>, <<"9270030", N9270030>>,
    <<"9270033", N9270033>>, <<"9270034", N9270034>>, <<"9270035", N9270035>>,
    <<"9270038", N9270038>>, <<"9270041", N9270041>>, <<"9270042", N9270042>>,
    <<"9270043", N9270043>>, <<"9270045", N9270045>>, <<"9270047", N9270047>>,
    <<"9270054", N9270054>>, <<"9270055", N9270055>>, <<"9270056", N9270056>>,
    <<"9270075", N9270075>>}
=============================================================================
