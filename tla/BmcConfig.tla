------------------------------ MODULE BmcConfig ------------------------------
(***************************************************************************)
(* The configuration file and what follows it: config.Data, which every    *)
(* change of the file is read into, and the ticker of the polling loop     *)
(* (controllers/config/getConfigDetails.go, controllers/pollData/          *)
(* getPollingUpdates.go).                                                  *)
(***************************************************************************)
EXTENDS Naturals, FiniteSets

CONSTANTS
    DefaultTimeTicker,   \* hours between two polls when nothing is set
    Configs,             \* contents of the file: a mode and an interval
    Setups               \* records of a first content, of the disturbances that may
                         \* happen and of how many of them may

\* An interval that is no number is read as 0.
Config == [mode : {"Accommodate", "Revert"}, interval : Nat]

ASSUME ConfigAssumption ==
    /\ DefaultTimeTicker \in Nat \ {0}
    /\ Configs \subseteq Config
    /\ \A s \in Setups : s.config \in Configs /\ s.config.interval # 0 /\ s.times \in Nat

VARIABLES
    setup,    \* what the run starts with, and what may happen
    file,     \* the content of the file
    Data,     \* config.Data
    first,    \* the listener's reconciliationInterval, which it never assigns
    ticker,   \* hours between two polls
    watch,    \* the watcher: waiting, informed, content read, to be added again
    budget    \* disturbances still to come

configVars == <<file, Data, first, ticker, watch>>

ConfigInit ==
    /\ setup \in Setups
    /\ file = setup.config
    /\ Data = file /\ first = file.interval
    /\ ticker = DefaultTimeTicker
    /\ watch = "watching"
    /\ budget = setup.times

Disturb(kind) ==
    /\ kind \in setup.kinds
    /\ budget > 0
    /\ budget' = budget - 1

\* The process starts: SetConfiguration, TrackConfigListener, PollDetails.  TickerTime
\* is not set yet, whatever the file says.
RestartConfig ==
    /\ Data' = file /\ first' = file.interval
    /\ ticker' = DefaultTimeTicker
    /\ watch' = "watching"
    /\ UNCHANGED file

\* The file is replaced.  Without a watch nobody is told.
Configure(c) ==
    /\ Disturb("configure")
    /\ c # file /\ file' = c
    /\ watch' = IF watch = "watching" THEN "informed" ELSE watch
    /\ UNCHANGED <<setup, Data, first, ticker>>

\* TrackConfigFileChanges: SetConfiguration
ReadFile ==
    /\ watch = "informed"
    /\ Data' = file /\ watch' = "read"
    /\ UNCHANGED <<setup, file, first, ticker, budget>>

IntervalIsFirst == Data.interval = first

IntervalOfStart == first   \* mutant of NewInterval: the variable of the start
NewInterval == Data.interval

\* TrackConfigListener.  Ticker.Reset(0) ends the process.
Listen ==
    /\ watch = "read"
    /\ IntervalIsFirst \/ Data.interval # 0
    /\ ticker' = IF IntervalIsFirst THEN ticker ELSE NewInterval
    /\ watch' = "unwatched"
    /\ UNCHANGED <<setup, file, Data, first, budget>>

ListenerPanics == watch = "read" /\ ~IntervalIsFirst /\ Data.interval = 0

\* watcher.Add
Rewatch ==
    /\ watch = "unwatched"
    /\ watch' = "watching"
    /\ UNCHANGED <<setup, file, Data, first, ticker, budget>>

ConfigStep == ReadFile \/ Listen \/ Rewatch

-----------------------------------------------------------------------------
(* Properties.                                                             *)

ConfigTypeOK ==
    /\ setup \in Setups
    /\ file \in Configs /\ Data \in Configs
    /\ first \in {c.interval : c \in Configs}
    /\ ticker \in {DefaultTimeTicker} \cup {c.interval : c \in Configs}
    /\ watch \in {"watching", "informed", "read", "unwatched"}
    /\ budget \in 0 .. setup.times

\* The polling loop takes over an interval that differs from the one the process was
\* started with (a return to that one is ignored, and at the start the default counts);
\* an interval that is no number starts the process again instead.
TickerFollowsData ==
    Data.interval # first ~> (ticker = Data.interval \/ Data.interval = first)

=============================================================================
