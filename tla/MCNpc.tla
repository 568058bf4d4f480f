------------------------------- MODULE MCNpc -------------------------------
(***************************************************************************)
(* The conversations with the NPCs of the server, and the scripts that     *)
(* break the rules the others keep.                                        *)
(***************************************************************************)
EXTENDS NpcTalk, NpcsMaple, NpcsVictoria, NpcsOssyria, NpcsMinar, NpcsArcane, NpcsService,
        NpcsTowns, NpcsZones

Scripts == UNION {MapleScripts, VictoriaScripts, OssyriaScripts, MinarScripts,
                  ArcaneScripts, ServiceScripts, TownsScripts, ZonesScripts}
Names == {s[1] : s \in Scripts}
Calls == [n \in Names |-> (CHOOSE s \in Scripts : s[1] = n)[2]]

\* The scripts that only a command, an item or another script can start.
Named == {"achievements", "ap", "boost", "bot", "equips", "fish", "help", "instance", "link",
    "maps", "quest", "skill", "warp", "who"}
ByClick == Names \ Named

\* PlayerCommand, GMCommand, InventoryHandler, UserInterfaceHandler: the scripts they start.
ByCommand == {"instance", "maps", "9000000", "9010038", "9010000", "2084001", "1202000",
    "1101008"}

\* The scripts they start with startNPC.
ByRequest == {"achievements", "ap", "boost", "bot", "equips", "fish", "help", "link", "quest",
    "skill", "warp", "who", "9070003"}

\* MapScriptMethods: the scripts it starts.
ByMap == {"2022006", "2159020", "2013001", "2159012", "2159006", "2159310", "2159344", "1096000",
    "2159314", "2159311", "2159340", "2159307"}

\* Scripts that can leave the player with no window and no dispose.
MuteScripts == {"1501", "2001", "2004", "2007", "12101", "1002000", "1002002", "1002003",
    "1002004", "1002007", "1002100", "1012000", "1012002", "1012006", "1012007", "1012112",
    "1012114", "1012115", "1013104", "1022001", "1023000", "1032000", "1032002", "1032005",
    "1032100", "1033103", "1033104", "1033105", "1033106", "1033110", "1033112", "1033200",
    "1033202", "1033205", "1033206", "1043002", "1043003", "1052003", "1052014", "1052016",
    "1052104", "1052107", "1061012", "1061014", "1061100", "1063012", "1063013", "1072000",
    "1072001", "1072002", "1072003", "1092014", "1092016", "1094002", "1094003", "1094004",
    "1094005", "1094006", "1096003", "1096010", "1101008", "1104002", "1104100", "1104101",
    "1104102", "1104103", "1104104", "1104200", "1202000", "1209000", "1300010", "1300014",
    "2001000", "2010000", "2010003", "2010005", "2010007", "2012023", "2012027", "2012028",
    "2012029", "2012030", "2012031", "2012032", "2012033", "2013001", "2013002", "2020000",
    "2020002", "2020008", "2020009", "2020010", "2020011", "2020013", "2022003", "2022005",
    "2022007", "2030000", "2032001", "2032002", "2032003", "2040002", "2040022", "2040030",
    "2040032", "2040033", "2040034", "2040041", "2040043", "2040044", "2040045", "2040046",
    "2040048", "2040050", "2040052", "2041017", "2041023", "2042006", "2050014", "2050015",
    "2050016", "2050017", "2050018", "2050019", "2060005", "2081009", "2081100", "2081200",
    "2081300", "2081400", "2081500", "2084000", "2084001", "2091006", "2094000", "2094002",
    "2096000", "2100005", "2100006", "2100007", "2100008", "2100009", "2101006", "2101013",
    "2103000", "2103001", "2103002", "2103009", "2103010", "2103011", "2103012", "2111000",
    "2111006", "2111025", "2111026", "2112002", "2112003", "2112004", "2112005", "2112006",
    "2112007", "2112012", "2112013", "2131001", "2131003", "2131005", "2131006", "2131007",
    "2133000", "2133001", "2133004", "2141000", "2143004", "2159000", "2159002", "2159003",
    "2159004", "2159005", "2159006", "2159007", "2159012", "2159013", "2159015", "2159016",
    "2159018", "2159100", "2159309", "2170006", "3003103", "3003126", "3003146", "3003219",
    "3003250", "3003273", "3003300", "3003336", "3003555", "3003560", "3003620", "3003656",
    "3003659", "9000001", "9000011", "9000012", "9000013", "9000020", "9001004", "9001063",
    "9001221", "9020000", "9020003", "9020004", "9020005", "9020006", "9030000", "9040000",
    "9040002", "9040003", "9040005", "9040008", "9062011", "9062015", "9071000", "9071004",
    "9102100", "9102101", "9103000", "9105004", "9120010", "9120030", "9120034", "9120036",
    "9120050", "9120053", "9120206", "9120208", "9120210", "9120212", "9120214", "9120216",
    "9120228", "9201002", "9201006", "9201007", "9201009", "9201010", "9201011", "9201012",
    "9201013", "9201023", "9201025", "9201026", "9201039", "9201044", "9201045", "9201047",
    "9201048", "9201057", "9201068", "9201107", "9201108", "9201109", "9201110", "9201111",
    "9201112", "9201113", "9201115", "9201117", "9201123", "9201124", "9201125", "9201126",
    "9201127", "9201135", "9201139", "9201140", "9201141", "9201142", "9209005", "9220018",
    "9250030", "9250049", "9250139", "9250143", "9270017", "9270018", "9270023", "9270026",
    "9270035", "9270047", "9300000", "9300011", "9310057", "9330045", "9330085", "9330109",
    "9390307", "9400719", "9900000", "9901101", "9901201", "9901502", "9901503", "bot"}

\* Scripts that take what they have not looked for in the same call.
BlindScripts == {"1012007", "1052007", "2010009", "2012014", "2012015", "2032002", "2040024",
    "2040025", "2040026", "2040027", "2040028", "2040033", "2040044", "2040050", "2041004",
    "2060009", "2081006", "2081008", "2081013", "2081100", "2081400", "2081500", "9010000",
    "9120010", "9120034", "9120203", "9201043", "9201088", "9270043", "9400981"}

\* Scripts that sell without a look at the room in the player's inventory.
CarelessScripts == {"2001", "2003", "2004", "1010100", "1012003", "1012100", "1012106", "1012108",
    "1012111", "1020000", "1022000", "1022007", "1022101", "1032001", "1032100", "1032101",
    "1032104", "1032106", "1052000", "1052001", "1052102", "1052103", "1052106", "1061000",
    "1061005", "1061011", "1061019", "1063014", "1090000", "1103003", "1530621", "1540660",
    "2012012", "2012019", "2012020", "2013001", "2020005", "2022007", "2030006", "2040016",
    "2040028", "2081008", "2081013", "2133000", "2162000", "3003531", "3003558", "3003810",
    "3003811", "3004335", "3006519", "3006520", "3006521", "3006531", "3006532", "3006533",
    "3006534", "3006535", "3006536", "3006537", "3006538", "3006539", "3006540", "3006541",
    "9000017", "9000036", "9000086", "9000087", "9000088", "9000123", "9000157", "9000230",
    "9010038", "9010100", "9120034", "9120203", "9201043", "9201120", "9201233", "9201252",
    "9201433", "9201434", "9201435", "9270043", "9330085", "9390120", "9390122", "9390201",
    "9390203", "9390204", "9390205", "9390206", "9390207", "9390210", "9390212", "9390213",
    "9390215", "9390216", "9390219", "9390220", "9390221", "9390234", "9390236", "9390237",
    "9390239", "9390240", "9390241", "9390249", "9390250", "9390251", "9390252", "9390255",
    "9390258", "9390259", "9390260", "9390262", "9390304", "9390305", "9390306", "9390308",
    "9390309", "9390310", "9390312", "9390313", "9390315", "9390317", "9390319", "9390320",
    "9390324", "9390328", "9390329", "9390330", "9390331", "9390333", "9390335", "9390442",
    "9390470", "9400801", "9400819", "9400841", "9400842", "9400981", "9400983", "9400985",
    "9400986", "moral_quest"}

\* All scripts but those named can be seen to keep the rules.
ASSUME Rules ==
  /\ \A n \in Npc \ Mute : Outspoken(n)
  /\ \A n \in Npc \ Blind : LooksFirst(n)
  /\ \A n \in Npc \ Careless : MakesRoom(n)
=============================================================================
