-------------------------- MODULE DashboardCommands --------------------------
(***************************************************************************)
(* internal/dashboard: the window of the dashboard is a process of its own *)
(* (native/ui-host) and sends its commands as files.  A ticker of the tray *)
(* process reads and deletes all files in the order of their names, then   *)
(* runs the commands one by one.  Another process (a virus scanner, an     *)
(* indexer) may hold a file so that it cannot be deleted for a while.      *)
(***************************************************************************)
EXTENDS Naturals, Sequences

CONSTANTS
  MaxCommands,  \* bound: number of commands
  MaxHolds      \* bound: how often a file is held

ASSUME CommandAssumption == MaxCommands \in Nat /\ MaxHolds \in Nat

VARIABLES
  files,  \* dashboard-commands: the commands, in the order of the files' names
  inbox,  \* commands read and deleted, still to be run
  ran,    \* history: the number of the last command run
  sent,   \* number of the last command
  held,   \* number of the command whose file cannot be deleted, or 0
  holds

channel == <<files, inbox, ran, sent, held, holds>>

Answers == {"continue", "cancel", "accept", "restore"}

Commands == [id : 1..MaxCommands, action : Answers]

ChannelTypeOK ==
  /\ files \in Seq(Commands) /\ inbox \in Seq(Commands)
  /\ {ran, sent, held} \subseteq 0..MaxCommands
  /\ holds \in 0..MaxHolds

ChannelInit ==
  /\ files = <<>> /\ inbox = <<>> /\ ran = 0
  /\ sent = 0 /\ held = 0 /\ holds = 0

\* CommandWriter: a file appears under its name when it is complete, and names
\* sort by time.
Send(a) ==
  /\ sent < MaxCommands
  /\ sent' = sent + 1
  /\ files' = Append(files, [id |-> sent + 1, action |-> a])
  /\ UNCHANGED <<inbox, ran, held, holds>>

Hold ==
  /\ held = 0 /\ holds < MaxHolds
  /\ \E i \in DOMAIN files : held' = files[i].id
  /\ holds' = holds + 1
  /\ UNCHANGED <<files, inbox, ran, sent>>

Release ==
  /\ held # 0
  /\ held' = 0
  /\ UNCHANGED <<files, inbox, ran, sent, holds>>

Ids(s) == {s[i].id : i \in DOMAIN s}

-----------------------------------------------------------------------------
(* A faulty variant of ConsumeCommands: what was read before the error runs. *)

ConsumeCommands_RunsTheHeld ==
  /\ inbox = <<>> /\ files # <<>>
  /\ IF held \in Ids(files)
     THEN LET n == CHOOSE i \in DOMAIN files : files[i].id = held
          IN  /\ files' = SubSeq(files, n, Len(files))
              /\ inbox' = SubSeq(files, 1, n)
     ELSE files' = <<>> /\ inbox' = files
  /\ UNCHANGED <<ran, sent, held, holds>>

-----------------------------------------------------------------------------
\* A file that cannot be deleted ends the reading with an error, and the caller
\* drops what was read, and deleted, before it.
ConsumeCommands ==
  /\ inbox = <<>> /\ files # <<>>
  /\ IF held \in Ids(files)
     THEN LET n == CHOOSE i \in DOMAIN files : files[i].id = held
          IN  files' = SubSeq(files, n, Len(files)) /\ UNCHANGED inbox
     ELSE files' = <<>> /\ inbox' = files
  /\ UNCHANGED <<ran, sent, held, holds>>

\* The next command that ProcessPendingCommands runs.
Dispatch ==
  /\ inbox # <<>>
  /\ inbox' = Tail(inbox)
  /\ ran' = Head(inbox).id
  /\ UNCHANGED <<files, sent, held, holds>>

\* The program dies: what was read is lost, the files stay.
ChannelCrash ==
  /\ inbox' = <<>>
  /\ UNCHANGED <<files, ran, sent, held, holds>>

-----------------------------------------------------------------------------
\* No command runs twice, though a file that could not be deleted is read again,
\* and none overtakes an earlier one.
OnceAndInOrder ==
  \A i \in DOMAIN inbox :
    inbox[i].id > IF i = 1 THEN ran ELSE inbox[i - 1].id
=============================================================================
