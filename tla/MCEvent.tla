------------------------------ MODULE MCEvent ------------------------------
\* The event scripts for TLC, and for each property the scripts that are an exception to it.
EXTENDS EventRules, EventBosses, EventFields, EventQuests

AllScripts == BossesScripts @@ FieldsScripts @@ QuestsScripts

\* Scripts that start a short clock and schedule, for the same moment, a function that starts
\* the clock of the event; and MD_drakeroom, which has no function scheduledTimeout.
ClockMayGo == {"Blake", "Blake_JR", "BossPQ", "BossPQ_Kaotic", "Boss_Grove", "DojoUnlimited",
               "Elite", "Elite2", "EliteKaotic", "EventBattle", "EventBattleFree", "Hazard",
               "Kaotic_Dojo", "Shadow", "TimeBattle", "MD_drakeroom"}

Exceptions == [
  \* scar may begin with a monster that it does not know. MP_Endless and MP_Endless_Farm choose
  \* the boss they wait for when a map is entered, which their records do not tell.
  goal |-> {"scar", "MP_Endless", "MP_Endless_Farm"},
  \* Parks reward each thread that finds the last map empty, and the two others each death.
  paid |-> {"MP_Easy", "MP_Normal", "MP_Hard", "MP_Hell", "Kaotic_Castle", "Kaotic_Caves"},
  \* The bosses of these bring the next without a look at finished; Comm_will's timers look at
  \* its stage, which the victory of the last death leaves as it is.
  quiet |-> {"boss_kaling", "boss_lotus_art", "Comm_will", "Dojo", "HPQ"},
  clock |-> ClockMayGo,
  \* The last four start no clock.
  time |-> ClockMayGo \cup {"Pal", "Pal_Raid", "reward_dp", "test"}]

\* All scripts but the exceptions can be seen to keep the rules of EventRules.
ASSUME Rules == ClockRule /\ PaidRule /\ QuietRule /\ GoalRule
=============================================================================
