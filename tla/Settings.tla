------------------------------ MODULE Settings ------------------------------
(***************************************************************************)
(* The schedule settings (internal/schedule/schedule.go): the values in    *)
(* force, the channel that tells the scheduler of a change, the file the   *)
(* admin page's changes survive in, and the handlers of the admin page     *)
(* that save and reset them (internal/server/admin.go).                    *)
(*                                                                         *)
(* Set, Reset and Snapshot hold the settings' mutex and are one step each; *)
(* adminScheduleSet calls Get and Set, and other handlers run in between.  *)
(* Every change closes the channel and makes a new one, so that a channel  *)
(* is the number of changes before it and is closed once that number has   *)
(* grown.                                                                  *)
(***************************************************************************)
EXTENDS Integers

CONSTANTS
    Hours,       \* hours of the day
    Intervals,   \* intervals of the credit refresh, in seconds; 0 is off
    Initial,     \* the settings of config.json and the environment
    Requested,   \* the settings an administrator may ask for
    Admins,      \* goroutines of adminScheduleSet
    DiskFaults,  \* whether a save or a removal may fail
    MaxChanges,  \* bound: changes in the life of one process
    NoFile,      \* schedule_file does not exist
    Missing      \* a request without credit_refresh_interval

Setting == [checkin : SUBSET Hours, keepalive : SUBSET Hours,
            model : SUBSET Hours, every : Intervals]

ASSUME SettingsAssumption ==
    /\ Intervals \subseteq Nat /\ 0 \in Intervals
    /\ \A d \in Intervals : d = 0 \/ d >= 60   \* what ParseInterval admits
    /\ Initial \in Setting
    /\ Requested \subseteq [checkin : SUBSET Hours, keepalive : SUBSET Hours,
                            model : SUBSET Hours, every : Intervals \cup {Missing}]
    /\ DiskFaults \in BOOLEAN
    /\ MaxChanges \in Nat

\* What is in schedule_file.
FileDoc == [checkin : SUBSET Hours, keepalive : SUBSET Hours,
            model : SUBSET Hours, every : [h : Nat, m : 0 .. 59, s : 0 .. 59]]

ASSUME NoFileAssumption == NoFile \notin FileDoc

VARIABLES
    settings,  \* checkin, keepalive, model and every in force
    ch,        \* the current change channel
    file,      \* schedule_file, or NoFile
    durable,   \* history: the last save worked
    admin      \* the locals of the adminScheduleSet handlers

settingsVars == <<settings, ch, file, durable, admin>>

-----------------------------------------------------------------------------
(* Intervals on disk *)

Off == [h |-> 0, m |-> 0, s |-> 0]
Invalid == -1

\* FormatInterval, or Duration.String where there are seconds.
FormatInterval(d) ==
    IF d <= 0 THEN Off
    ELSE [h |-> d \div 3600, m |-> (d % 3600) \div 60, s |-> d % 60]

ParseInterval(text) ==
    LET d == text.h * 3600 + text.m * 60 + text.s
    IN  IF text = Off THEN 0 ELSE IF d < 60 THEN Invalid ELSE d

fileFormat(s) == [s EXCEPT !.every = FormatInterval(s.every)]

\* Load: the file wins over the configuration if its interval is valid.
Loaded(f) ==
    IF f = NoFile \/ ParseInterval(f.every) = Invalid THEN Initial
    ELSE [f EXCEPT !.every = ParseInterval(f.every)]

-----------------------------------------------------------------------------
(* Settings *)

\* The file is replaced as a whole; every error is dropped.
saveLocked(s) ==
    \/ file' = fileFormat(s) /\ durable' = TRUE
    \/ DiskFaults /\ file' = file /\ durable' = FALSE

Notify == ch < MaxChanges /\ ch' = ch + 1

Set(new) ==
    /\ settings' = new
    /\ Notify
    /\ saveLocked(new)

\* The values a reset puts in force: Settings keeps no initial model refresh
\* hours, and those are cleared instead.
Defaults == [Initial EXCEPT !.model = {}]

\* Mutant: a reset does not close the channel.
ResetQuietly(a) ==
    /\ admin[a].pc = "idle"
    /\ file' = NoFile /\ durable' = TRUE
    /\ settings' = Defaults
    /\ UNCHANGED <<ch, admin>>

\* Mutant: a reset leaves the file where it is.
ResetInMemory(a) ==
    /\ admin[a].pc = "idle"
    /\ settings' = Defaults
    /\ Notify
    /\ UNCHANGED <<file, durable, admin>>

\* If the file cannot be removed nothing changes.
Reset(a) ==
    /\ admin[a].pc = "idle"
    /\ file' = NoFile /\ durable' = TRUE
    /\ settings' = Defaults
    /\ Notify
    /\ UNCHANGED admin

-----------------------------------------------------------------------------
(* The admin page *)

IdleAdmin == [pc |-> "idle", new |-> Initial]

\* A request without an interval keeps the current one.
Interval(c) == IF c.every = Missing THEN settings.every ELSE c.every

\* adminScheduleSet up to Get: the request is valid, its settings complete.
AdminGet(a) ==
    /\ admin[a].pc = "idle"
    /\ \E c \in Requested :
          admin' = [admin EXCEPT ![a] =
              [pc |-> "set", new |-> [c EXCEPT !.every = Interval(c)]]]
    /\ UNCHANGED <<settings, ch, file, durable>>

AdminSet(a) ==
    /\ admin[a].pc = "set"
    /\ Set(admin[a].new)
    /\ admin' = [admin EXCEPT ![a] = IdleAdmin]

\* The process is restarted; the handlers of the old one are gone.
SettingsRestart ==
    /\ settings' = Loaded(file)
    /\ ch' = 0
    /\ durable' = TRUE
    /\ admin' = [a \in Admins |-> IdleAdmin]
    /\ UNCHANGED file

SettingsInit ==
    /\ file = NoFile
    /\ settings = Loaded(file)
    /\ ch = 0
    /\ durable = TRUE
    /\ admin = [a \in Admins |-> IdleAdmin]

AdminStep == \E a \in Admins : AdminGet(a) \/ AdminSet(a) \/ Reset(a)

SettingsNext == AdminStep \/ SettingsRestart

SettingsSpec == SettingsInit /\ [][SettingsNext]_settingsVars

-----------------------------------------------------------------------------
(* Properties *)

SettingsTypeOK ==
    /\ settings \in Setting
    /\ ch \in 0 .. MaxChanges
    /\ file \in FileDoc \cup {NoFile}
    /\ durable \in BOOLEAN
    /\ admin \in [Admins -> [pc : {"idle", "set"}, new : Setting]]

\* Once the last change is saved, a restart brings back what is in force: a
\* change is read back from the file as it was made, and without a file the
\* configuration's settings are the ones in force.  The exception is the model
\* refresh hours after a reset: it clears them, and a restart brings those of
\* the configuration back.
RestartKeepsSettings ==
    durable => \/ settings = Loaded(file)
               \/ file = NoFile /\ settings = Defaults

=============================================================================
