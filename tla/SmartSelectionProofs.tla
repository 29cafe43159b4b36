------------------------ MODULE SmartSelectionProofs ------------------------
(***************************************************************************)
(* Proofs about SmartSelection, with the command channel under it, for     *)
(* every set of lines and faults and every bound.                          *)
(***************************************************************************)
EXTENDS SmartSelection, SequenceTheorems, TLAPS

\* Commands carry rising numbers, and what is read precedes what is not.
Rising(s) == \A i, j \in DOMAIN s : i < j => s[i].id < s[j].id

OrderInv ==
  /\ Rising(files) /\ Rising(inbox)
  /\ ran <= sent
  /\ \A i \in DOMAIN inbox : ran < inbox[i].id /\ inbox[i].id <= sent
  /\ \A j \in DOMAIN files : ran < files[j].id /\ files[j].id <= sent
  /\ \A i \in DOMAIN inbox, j \in DOMAIN files : inbox[i].id < files[j].id

\* The lines at hand are lines while they are needed.
LineInv ==
  /\ point # NoPoint => point.site \in Sites
  /\ pc \notin {"idle", "wait"} => orig.site \in Sites
  /\ pc \in {"trial", "recommend", "adopt", "commit"} => cand \in Sites
  /\ user \in {"dial", "save"} => target \in Sites

\* Who works holds modeSwitchMu, nobody works before the program has started,
\* and a selection at work has stored where to go back to.
LockInv ==
  /\ pc \notin {"idle", "wait"} => lock = "smart" /\ point = orig
  /\ user \in {"dial", "save"} => lock = "user"
  /\ up # "on" => pc = "idle" /\ user = "idle"

\* A refusal stays at the head of the channel until the selection goes back.
RefusedInv ==
  refused => \/ pc \in {"restore", "forget"}
             \/ /\ pc \in {"wait", "probe", "ask", "pick", "trial", "recommend"}
                /\ decisions # <<>> /\ Head(decisions) = "restore"

\* A start has put the recovery point into the configuration before it forgets
\* it.
BackInv ==
  up = "forget" /\ point # NoPoint =>
    Preferred(cfg) = point.site /\ cfg.mode = point.mode

\* A configuration names a line somebody wanted, but for the moment of an
\* adoption and for one a crash left to be rolled back.
Good(c) ==
  \/ Preferred(c) \in wanted
  \/ pc = "commit"
  \/ up = "off" /\ point # NoPoint

WantedInv ==
  unrestored \/
    /\ Good(cfg) /\ Good(saved)
    /\ up = "off" => cfg = saved
    /\ point # NoPoint => point.site \in wanted
    /\ pc \notin {"idle", "wait"} => orig.site \in wanted
    /\ pc \notin {"idle", "wait", "commit", "forget"} => cfg.mode = orig.mode
    /\ pc \in {"trial", "recommend", "adopt", "commit"} =>
         link = cand /\ site = cand
    /\ pc = "commit" => cfg = saved /\ Preferred(saved) = cand
    /\ pc \in {"idle", "wait", "probe", "ask", "forget"} =>
         {link, site} \subseteq wanted \cup {Nowhere}
    /\ user = "save" => target \in wanted

IInv ==
  TypeOK /\ OrderInv /\ LineInv /\ LockInv /\ RefusedInv /\ BackInv /\ WantedInv

-----------------------------------------------------------------------------
(* The channel. *)

LEMMA ChannelStep ==
  ASSUME [Next]_vars
  PROVE  \/ \E a \in Answers : Send(a)
         \/ Hold \/ Release \/ ConsumeCommands \/ Dispatch \/ ChannelCrash
         \/ UNCHANGED channel
<1> DEFINE Goal == \/ \E a \in Answers : Send(a)
                   \/ Hold \/ Release \/ ConsumeCommands \/ Dispatch
                   \/ ChannelCrash
                   \/ UNCHANGED channel
<1> SUFFICES Goal
    OBVIOUS
<1>1. CASE Answer
  BY <1>1 DEF Answer, Answers
<1>2. CASE CancelButton
  BY <1>2 DEF CancelButton, Answers
<1>3. CASE RunCommand
  BY <1>3 DEF RunCommand
<1>4. CASE Tick
  BY <1>4 DEF Tick
<1>5. CASE File
  BY <1>5 DEF File
<1>6. CASE Crash
  BY <1>6 DEF Crash
<1>7. CASE BeginSelection \/ SavePoint \/ ProbeCurrent \/ HearContinue \/
         KeepCurrent \/ Try \/ GiveUp \/ Trial \/ Decide
  BY <1>7 DEF BeginSelection, SavePoint, ProbeCurrent, HearContinue, Heard,
    KeepCurrent, Try, GiveUp, Trial, Decide, users, host, disk, bounds,
    history
<1>8. CASE Adopt \/ Commit \/ GoBack \/ Forget \/ UserLock \/ UserDial \/
         UserSave \/ RollBack \/ ClearPoint
  BY <1>8 DEF Adopt, Commit, GoBack, Forget, UserLock, UserDial, UserSave,
    RollBack, ClearPoint, run, users, host, disk, bounds, history
<1>9. CASE FirstDial \/ ShowResult \/ Expire \/ RestoreNormal \/
         (\E s \in Sites : SelectSite(s)) \/ (\E s \in Sites : Login(s)) \/
         UNCHANGED vars
  BY <1>9 DEF FirstDial, Preferred, ShowResult, Expire, Running,
    RestoreNormal, SelectSite, Login, vars, run, users, host, disk, bounds,
    history
<1>10. QED
  BY <1>1, <1>2, <1>3, <1>4, <1>5, <1>6, <1>7, <1>8, <1>9 DEF Next, Select,
    User, Start

LEMMA SendKeeps ==
  ASSUME ChannelTypeOK, OrderInv, NEW a \in Answers, Send(a)
  PROVE  ChannelTypeOK' /\ OrderInv'
<1> USE CommandAssumption DEF ChannelTypeOK
<1> DEFINE c == [id |-> sent + 1, action |-> a]
<1>1. sent + 1 \in 1..MaxCommands /\ c \in Commands
  BY DEF Send, Commands
<1>2. /\ files' = Append(files, c) /\ files' \in Seq(Commands)
      /\ Len(files') = Len(files) + 1
      /\ \A i \in 1..Len(files) : files'[i] = files[i]
      /\ files'[Len(files) + 1] = c
  BY <1>1 DEF Send
<1>3. ChannelTypeOK'
  BY <1>1, <1>2 DEF Send
<1>4. /\ DOMAIN files = 1..Len(files) /\ DOMAIN files' = 1..(Len(files) + 1)
      /\ DOMAIN inbox = 1..Len(inbox) /\ Len(files) \in Nat
  BY <1>2
<1>5. /\ \A i \in DOMAIN files : files[i].id \in Nat
      /\ \A i \in DOMAIN inbox : inbox[i].id \in Nat
  <2>1. /\ \A i \in DOMAIN files : files[i] \in Commands
        /\ \A i \in DOMAIN inbox : inbox[i] \in Commands
    OBVIOUS
  <2>2. QED
    BY <2>1 DEF Commands
<1>6. Rising(files')
  BY <1>2, <1>4, <1>5 DEF OrderInv, Rising
<1>7. ASSUME NEW j \in DOMAIN files'
      PROVE  ran < files'[j].id /\ files'[j].id <= sent + 1
  <2>1. CASE j \in DOMAIN files
    BY <2>1, <1>2, <1>4, <1>5 DEF OrderInv
  <2>2. CASE j = Len(files) + 1
    BY <2>2, <1>2 DEF OrderInv
  <2>3. QED
    BY <2>1, <2>2, <1>4
<1>8. ASSUME NEW i \in DOMAIN inbox, NEW j \in DOMAIN files'
      PROVE  inbox[i].id < files'[j].id
  <2>1. CASE j \in DOMAIN files
    BY <2>1, <1>2, <1>4, <1>5 DEF OrderInv
  <2>2. CASE j = Len(files) + 1
    BY <2>2, <1>2, <1>5 DEF OrderInv
  <2>3. QED
    BY <2>1, <2>2, <1>4
<1>9. /\ ran <= sent'
      /\ \A i \in DOMAIN inbox : ran < inbox[i].id /\ inbox[i].id <= sent'
  BY <1>5 DEF OrderInv, Send
<1>10. OrderInv'
  BY <1>6, <1>7, <1>8, <1>9 DEF OrderInv, Send, Rising
<1>11. QED
  BY <1>3, <1>10

LEMMA ConsumeKeeps ==
  ASSUME ChannelTypeOK, OrderInv, ConsumeCommands
  PROVE  ChannelTypeOK' /\ OrderInv'
<1> USE DEF ChannelTypeOK
<1>1. CASE held \notin Ids(files)
  <2>1. files' = <<>> /\ inbox' = files /\ UNCHANGED <<ran, sent, held, holds>>
    BY <1>1 DEF ConsumeCommands
  <2>2. OrderInv'
    BY <2>1 DEF OrderInv, Rising
  <2>3. QED
    BY <2>1, <2>2
<1>2. CASE held \in Ids(files)
  <2> DEFINE n == CHOOSE i \in DOMAIN files : files[i].id = held
  <2>1. n \in 1..Len(files) /\ Len(files) \in Nat
    BY <1>2 DEF Ids
  <2> HIDE DEF n
  <2>2. /\ files' = SubSeq(files, n, Len(files))
        /\ UNCHANGED <<inbox, ran, sent, held, holds>>
    BY <1>2 DEF ConsumeCommands, n
  <2>3. /\ files' \in Seq(Commands)
        /\ Len(files') = Len(files) - n + 1
        /\ \A i \in 1..Len(files) - n + 1 : files'[i] = files[n + i - 1]
    <3>1. \A i \in n..Len(files) : files[i] \in Commands
      BY <2>1
    <3>2. n \in Int /\ Len(files) \in Int /\ n <= Len(files)
      BY <2>1
    <3>3. QED
      BY <2>2, <3>1, <3>2, SubSeqProperties
  <2>4. /\ DOMAIN files' = 1..Len(files) - n + 1
        /\ DOMAIN files = 1..Len(files)
        /\ \A i \in DOMAIN files' : n + i - 1 \in DOMAIN files
    BY <2>1, <2>3
  <2>5. OrderInv'
    <3>1. Rising(files')
      <4> SUFFICES ASSUME NEW i \in DOMAIN files', NEW j \in DOMAIN files', i < j
                   PROVE  files'[i].id < files'[j].id
          BY DEF Rising
      <4>1. n + i - 1 < n + j - 1
        BY SMTT(30), <2>1, <2>4
      <4>2. files[n + i - 1].id < files[n + j - 1].id
        BY <4>1, <2>4 DEF OrderInv, Rising
      <4>3. QED
        BY <4>2, <2>3, <2>4
    <3>2. \A j \in DOMAIN files' : /\ ran < files'[j].id /\ files'[j].id <= sent
                                   /\ \A i \in DOMAIN inbox :
                                        inbox[i].id < files'[j].id
      BY <2>3, <2>4 DEF OrderInv
    <3>3. QED
      BY <2>2, <3>1, <3>2 DEF OrderInv, Rising
  <2>6. QED
    BY <2>2, <2>3, <2>5
<1>3. QED
  BY <1>1, <1>2

LEMMA DispatchKeeps ==
  ASSUME ChannelTypeOK, OrderInv, Dispatch
  PROVE  ChannelTypeOK' /\ OrderInv'
<1> USE DEF ChannelTypeOK
<1>1. inbox # <<>> /\ inbox' = Tail(inbox) /\ ran' = inbox[1].id
  BY DEF Dispatch
<1>2. /\ inbox' \in Seq(Commands) /\ Len(inbox') = Len(inbox) - 1
      /\ \A i \in 1..Len(inbox') : inbox'[i] = inbox[i + 1]
  BY <1>1, HeadTailProperties
<1>3. /\ DOMAIN inbox = 1..Len(inbox) /\ DOMAIN inbox' = 1..Len(inbox')
      /\ Len(inbox) \in Nat /\ 1 \in DOMAIN inbox
      /\ \A i \in DOMAIN inbox' : i + 1 \in DOMAIN inbox /\ 1 < i + 1
  BY <1>1, <1>2
<1>4. inbox[1] \in Commands
  BY <1>3
<1>5. Rising(inbox')
  <2> SUFFICES ASSUME NEW i \in DOMAIN inbox', NEW j \in DOMAIN inbox', i < j
               PROVE  inbox'[i].id < inbox'[j].id
      BY DEF Rising
  <2>1. i + 1 < j + 1
    BY <1>3
  <2>2. inbox[i + 1].id < inbox[j + 1].id
    BY <2>1, <1>3 DEF OrderInv, Rising
  <2>3. inbox'[i] = inbox[i + 1] /\ inbox'[j] = inbox[j + 1]
    BY <1>2, <1>3
  <2>4. QED
    BY <2>2, <2>3
<1>6. ran' <= sent /\ ran' \in 0..MaxCommands
  BY <1>1, <1>3, <1>4 DEF OrderInv, Commands
<1>7. \A i \in DOMAIN inbox' : /\ ran' < inbox'[i].id /\ inbox'[i].id <= sent
                               /\ \A j \in DOMAIN files :
                                    inbox'[i].id < files[j].id
  BY <1>1, <1>2, <1>3 DEF OrderInv, Rising
<1>8. \A j \in DOMAIN files : ran' < files[j].id
  BY <1>1, <1>3 DEF OrderInv
<1>9. OrderInv'
  BY <1>5, <1>6, <1>7, <1>8 DEF OrderInv, Dispatch, Rising
<1>10. QED
  BY <1>2, <1>6, <1>9 DEF Dispatch

LEMMA ChannelKept ==
  ASSUME ChannelTypeOK, OrderInv, [Next]_vars
  PROVE  ChannelTypeOK' /\ OrderInv'
<1> USE CommandAssumption DEF ChannelTypeOK
<1>1. ASSUME NEW a \in Answers, Send(a) PROVE ChannelTypeOK' /\ OrderInv'
  BY <1>1, SendKeeps
<1>2. CASE Hold
  <2>1. PICK i \in DOMAIN files : held' = files[i].id
    BY <1>2 DEF Hold
  <2>2. files[i] \in Commands
    OBVIOUS
  <2>3. held' \in 0..MaxCommands
    BY <2>1, <2>2 DEF Commands
  <2>4. QED
    BY <1>2, <2>3 DEF Hold, OrderInv, Rising
<1>3. CASE Release
  BY <1>3 DEF Release, OrderInv, Rising
<1>4. CASE ConsumeCommands
  BY <1>4, ConsumeKeeps
<1>5. CASE Dispatch
  BY <1>5, DispatchKeeps
<1>6. CASE ChannelCrash
  <2>1. inbox' \in Seq(Commands) /\ DOMAIN inbox' = {}
    BY <1>6 DEF ChannelCrash
  <2>2. QED
    BY <1>6, <2>1 DEF ChannelCrash, OrderInv, Rising
<1>7. CASE UNCHANGED channel
  BY <1>7 DEF channel, OrderInv, Rising
<1>8. QED
  BY <1>1, <1>2, <1>3, <1>4, <1>5, <1>6, <1>7, ChannelStep

-----------------------------------------------------------------------------
(* Types. *)

LEMMA ConfigTyped ==
  ASSUME SmartAssumption, NEW c \in Config, NEW s \in Sites, NEW m \in BOOLEAN
  PROVE  /\ [c EXCEPT !.mode = m] \in Config
         /\ [c EXCEPT !.preferred = s] \in Config
         /\ [c EXCEPT !.preferred = s, !.mode = m] \in Config
         /\ [c EXCEPT !.mode = m, !.preferred = s] \in Config
         /\ [c EXCEPT !.codex = s, !.mode = m] \in Config
         /\ [c EXCEPT !.mode = m, !.codex = s] \in Config
         /\ Preferred(c) \in Sites
  BY DEF Config, Preferred

LEMMA DecisionsTyped ==
  ASSUME NEW d, d \in Seq(Answers), Len(d) <= 2
  PROVE  /\ d # <<>> => /\ Tail(d) \in Seq(Answers) /\ Len(Tail(d)) <= 2
                        /\ Head(d) \in Answers
         /\ \A a \in Answers : Len(d) < 2 => /\ Append(d, a) \in Seq(Answers)
                                             /\ Len(Append(d, a)) <= 2
         /\ <<>> \in Seq(Answers) /\ Len(<<>>) <= 2
  BY HeadTailProperties

LEMMA HeadAnswers ==
  ASSUME ChannelTypeOK, inbox # <<>>
  PROVE  Head(inbox).action \in Answers
<1>1. Head(inbox) \in Commands
  BY HeadTailProperties DEF ChannelTypeOK
<1>2. QED
  BY <1>1 DEF Commands

FileTypes ==
  /\ cfg \in Config /\ saved \in Config
  /\ point \in [site : Lines, mode : BOOLEAN]

LineTypes ==
  /\ link \in Lines /\ site \in Lines /\ cand \in Lines /\ target \in Lines
  /\ orig \in [site : Lines, mode : BOOLEAN]
  /\ tried \subseteq Sites /\ wanted \subseteq Sites

PlaceTypes ==
  /\ up \in {"off", "forget", "dial", "login", "on"}
  /\ pc \in {"idle", "wait", "probe", "ask", "pick", "trial",
             "recommend", "adopt", "commit", "restore", "forget"}
  /\ lock \in {"free", "smart", "user"}
  /\ user \in {"idle", "wait", "dial", "save"}
  /\ state \in {"idle", "running", "restoring"} \cup Questions
  /\ dialog \in {"none"} \cup Questions

FlagTypes ==
  {healthy, expired, fresh, unrestored, refused} \subseteq BOOLEAN

DecisionTypes ==
  decisions \in Seq(Answers) /\ Len(decisions) <= 2

CountTypes ==
  runs \in 0..MaxRuns /\ choices \in 0..MaxChoices /\ faults \in 0..MaxFaults

Types == FileTypes /\ LineTypes /\ PlaceTypes /\
         FlagTypes /\ DecisionTypes /\ CountTypes

LEMMA TypeParts == TypeOK <=> ChannelTypeOK /\ Types
  BY DEF TypeOK, Types, FileTypes, LineTypes, PlaceTypes, FlagTypes,
         DecisionTypes, CountTypes

LEMMA FileTypesKept == IInv /\ [Next]_vars => FileTypes'
<1> SUFFICES ASSUME IInv, [Next]_vars PROVE FileTypes'
    OBVIOUS
<1>0. Types /\ LineInv
  BY TypeParts DEF IInv
<1> USE <1>0, SmartAssumption
    DEF Types, FileTypes, LineTypes, FlagTypes, LineInv, Lines, Nowhere, NoPoint
<1>1. CASE SavePoint
  <2>1. CASE point' = orig'
    BY <1>1, <2>1 DEF SavePoint, LineTypes, Config
  <2>2. CASE UNCHANGED point
    BY <1>1, <2>2 DEF SavePoint
  <2>3. QED
    BY <1>1, <2>1, <2>2 DEF SavePoint
<1>2. CASE KeepCurrent
  BY <1>2 DEF KeepCurrent, Leave, Heard, users, host, bounds, history
<1>3. CASE Adopt
  <2>1. cand \in Sites
    BY <1>3 DEF Adopt
  <2>2. cfg' \in Config
    <3>1. [cfg EXCEPT !.codex = cand, !.mode = TRUE] \in Config
      BY <2>1 DEF Config
    <3>2. orig.mode \in BOOLEAN
      OBVIOUS
    <3>3. QED
      BY <1>3, <3>1, <3>2 DEF Adopt, Config
  <2>3. saved' \in {saved, cfg'} /\ UNCHANGED point
    BY <1>3 DEF Adopt, Saving
  <2>4. QED
    BY <2>2, <2>3
<1>4. CASE Commit
  BY <1>4 DEF Commit, Leave, users, host, bounds
<1>5. CASE GoBack
  <2>1. [cfg EXCEPT !.mode = orig.mode] \in Config
    BY DEF Config
  <2>2. cfg' \in Config /\ saved' \in {saved, cfg'} /\ UNCHANGED point
    BY <1>5, <2>1 DEF GoBack, TrySave, Saving, Failing
  <2>3. QED
    BY <2>2
<1>6. CASE Forget
  BY <1>6 DEF Forget, Leave, users, host, bounds, history
<1>7. CASE UserSave
  <2>1. target \in Sites
    BY <1>7 DEF UserSave
  <2>2. cfg' \in Config
    BY <1>7, <2>1 DEF UserSave, Config
  <2>3. saved' \in {saved, cfg'} /\ UNCHANGED point
    BY <1>7 DEF UserSave, TrySave, Saving, Failing
  <2>4. QED
    BY <2>2, <2>3
<1>8. CASE RollBack
  <2>1. CASE point = NoPoint
    BY <1>8, <2>1 DEF RollBack, disk
  <2>2. CASE point # NoPoint
    <3>1. point.site \in Sites
      BY <2>2
    <3>2. cfg' \in Config
      BY ZenonT(30), <1>8, <2>2, <3>1 DEF RollBack, Config
    <3>3. saved' \in {saved, cfg'} /\ UNCHANGED point
      BY <1>8, <2>2 DEF RollBack, TrySave, Saving, Failing
    <3>4. QED
      BY <3>2, <3>3
  <2>3. QED
    BY <2>1, <2>2
<1>9. CASE ClearPoint
  BY <1>9 DEF ClearPoint, run, users, host, bounds, history
<1>10. CASE Crash
  BY <1>10 DEF Crash, host, disk, history
<1>11. ASSUME NEW s \in Sites, Login(s) PROVE FileTypes'
  <2>1. cfg' \in Config
    BY <1>11 DEF Login, Config
  <2>2. saved' \in {saved, cfg'} /\ UNCHANGED point
    BY <1>11 DEF Login, TrySave, Saving, Failing
  <2>3. QED
    BY <2>1, <2>2
<1>12. CASE BeginSelection \/ ProbeCurrent \/ HearContinue \/ Try \/ GiveUp \/
         Trial \/ Decide \/ UserLock \/ UserDial
  BY <1>12 DEF BeginSelection, ProbeCurrent, HearContinue, Heard, Try, GiveUp,
    Trial, Decide, UserLock, UserDial, run, users, host, disk, bounds, history
<1>13. CASE FirstDial \/ ShowResult \/ Answer \/ CancelButton \/ RunCommand \/
         Tick \/ File \/ Expire \/ RestoreNormal
  BY <1>13 DEF FirstDial, Preferred, ShowResult, Answer, CancelButton,
    RunCommand, Running, Tick, File, Expire, RestoreNormal, run, users, host,
    disk, bounds, history
<1>14. CASE (\E s \in Sites : SelectSite(s)) \/ UNCHANGED vars
  BY <1>14 DEF SelectSite, Running, vars, run, users, host, disk, bounds,
    history
<1>15. QED
  BY <1>1, <1>2, <1>3, <1>4, <1>5, <1>6, <1>7, <1>8, <1>9, <1>10, <1>11,
    <1>12, <1>13, <1>14 DEF Next, Select, User, Start

LEMMA LineTypesKept == IInv /\ [Next]_vars => LineTypes'
<1> SUFFICES ASSUME IInv, [Next]_vars PROVE LineTypes'
    OBVIOUS
<1>0. Types /\ LineInv
  BY TypeParts DEF IInv
<1> USE <1>0, SmartAssumption
    DEF Types, FileTypes, LineTypes, LineInv, Lines, Nowhere, NoPoint
<1>1. CASE SavePoint
  <2>1. orig' \in [site : Lines, mode : BOOLEAN]
    <3>1. cfg.mode \in BOOLEAN /\ site \in Lines
      BY DEF Config
    <3>2. [site |-> site, mode |-> cfg.mode] \in [site : Lines, mode : BOOLEAN]
      BY <3>1
    <3>3. NoPoint \in [site : Lines, mode : BOOLEAN]
      OBVIOUS
    <3>4. QED
      BY <1>1, <3>2, <3>3 DEF SavePoint, Leave
  <2>2. UNCHANGED <<link, site, target, wanted>>
    BY <1>1 DEF SavePoint, users, history
  <2>3. cand' \in Lines /\ tried' \subseteq Sites
    BY <1>1 DEF SavePoint, Leave
  <2>4. QED
    BY <2>1, <2>2, <2>3
<1>2. CASE KeepCurrent
  BY <1>2 DEF KeepCurrent, Leave, Heard, users, host, bounds, history, Config,
    Preferred
<1>3. CASE Try
  BY <1>3 DEF Try, users, host, disk, bounds, history, Config, Preferred
<1>4. CASE Trial
  BY <1>4 DEF Trial, Ask, GoingBack, users, host, disk, bounds, history,
    Config, Preferred
<1>5. CASE Decide
  BY <1>5 DEF Decide, GoingBack, Heard, users, host, disk, bounds, history,
    Config, Preferred
<1>6. CASE Commit
  BY <1>6 DEF Commit, Leave, users, host, bounds, Config, Preferred
<1>7. CASE GoBack
  <2>1. link' \in Lines /\ site' \in Lines
    BY <1>7 DEF GoBack
  <2>2. orig' \in [site : Lines, mode : BOOLEAN]
    <3>1. NoPoint \in [site : Lines, mode : BOOLEAN]
      OBVIOUS
    <3>2. orig' \in {orig, NoPoint}
      BY <1>7 DEF GoBack, Leave
    <3>3. QED
      BY <3>1, <3>2
  <2>3. cand' \in Lines /\ tried' \subseteq Sites
    BY <1>7 DEF GoBack, Leave
  <2>4. UNCHANGED <<target, wanted>>
    BY <1>7 DEF GoBack, users
  <2>5. QED
    BY <2>1, <2>2, <2>3, <2>4
<1>8. CASE Forget
  BY <1>8 DEF Forget, Leave, users, host, bounds, history, Config, Preferred
<1>9. CASE UserLock
  BY <1>9 DEF UserLock, run, host, disk, bounds, history, Config, Preferred
<1>10. CASE UserDial
  BY <1>10 DEF UserDial, run, host, disk, bounds, Config, Preferred
<1>11. CASE UserSave
  BY <1>11 DEF UserSave, Failing, TrySave, Saving, run, host, history, Config,
    Preferred
<1>12. CASE FirstDial
  BY <1>12 DEF FirstDial, Preferred, run, users, host, disk, bounds, history,
    Config
<1>13. CASE Crash
  BY <1>13 DEF Crash, host, disk, history, Config, Preferred
<1>14. ASSUME NEW s \in Sites, SelectSite(s) PROVE LineTypes'
  BY <1>14 DEF SelectSite, Running, run, host, disk, history, Config,
    Preferred
<1>15. ASSUME NEW s \in Sites, Login(s) PROVE LineTypes'
  BY <1>15 DEF Login, Failing, TrySave, Saving, run, users, host, Config,
    Preferred
<1>16. CASE BeginSelection \/ ProbeCurrent \/ HearContinue \/ GiveUp \/ Adopt
         \/ RollBack \/ ClearPoint \/ ShowResult \/ Answer
  BY <1>16 DEF BeginSelection, ProbeCurrent, HearContinue, Heard, GiveUp,
    Adopt, RollBack, ClearPoint, ShowResult, Answer, run, users, host, disk,
    bounds, history, Config, Preferred
<1>17. CASE CancelButton \/ RunCommand \/ Tick \/ File \/ Expire \/
         RestoreNormal \/ UNCHANGED vars
  BY <1>17 DEF CancelButton, RunCommand, Running, Tick, File, Expire,
    RestoreNormal, vars, run, users, host, disk, bounds, history, Config,
    Preferred
<1>18. QED
  BY <1>1, <1>2, <1>3, <1>4, <1>5, <1>6, <1>7, <1>8, <1>9, <1>10, <1>11,
    <1>12, <1>13, <1>14, <1>15, <1>16, <1>17 DEF Next, Select, User, Start

LEMMA PlaceTypesKept == IInv /\ [Next]_vars => PlaceTypes'
<1> SUFFICES ASSUME IInv, [Next]_vars PROVE PlaceTypes'
    OBVIOUS
<1>0. Types
  BY TypeParts DEF IInv
<1> USE <1>0 DEF Types, PlaceTypes, Questions
<1>1. CASE BeginSelection
  BY <1>1 DEF BeginSelection, users, host, disk, history
<1>2. CASE SavePoint
  BY <1>2 DEF SavePoint, Leave, Failing, users, host, history
<1>3. CASE ProbeCurrent
  BY <1>3 DEF ProbeCurrent, Ask, GoingBack, users, host, disk, bounds, history
<1>4. CASE HearContinue
  BY <1>4 DEF HearContinue, Heard, users, host, disk, bounds, history
<1>5. CASE KeepCurrent
  BY <1>5 DEF KeepCurrent, Leave, Heard, users, host, bounds, history
<1>6. CASE Try
  BY <1>6 DEF Try, users, host, disk, bounds, history
<1>7. CASE GiveUp
  BY <1>7 DEF GiveUp, GoingBack, users, host, disk, bounds, history
<1>8. CASE Trial
  BY <1>8 DEF Trial, Ask, GoingBack, users, host, disk, bounds, history
<1>9. CASE Decide
  BY <1>9 DEF Decide, GoingBack, Heard, users, host, disk, bounds, history
<1>10. CASE Adopt
  BY <1>10 DEF Adopt, GoingBack, Failing, Saving, users, host
<1>11. CASE Commit
  BY <1>11 DEF Commit, Leave, users, host, bounds
<1>12. CASE GoBack
  BY <1>12 DEF GoBack, Leave, Failing, TrySave, Saving, users, host
<1>13. CASE Forget
  BY <1>13 DEF Forget, Leave, users, host, bounds, history
<1>14. CASE UserLock
  BY <1>14 DEF UserLock, run, host, disk, bounds, history
<1>15. CASE UserDial
  BY <1>15 DEF UserDial, run, host, disk, bounds
<1>16. CASE UserSave
  BY <1>16 DEF UserSave, Failing, TrySave, Saving, run, host, history
<1>17. CASE RollBack
  BY <1>17 DEF RollBack, Failing, TrySave, Saving, run, users, host
<1>18. CASE ClearPoint
  BY <1>18 DEF ClearPoint, run, users, host, bounds, history
<1>19. CASE FirstDial
  BY <1>19 DEF FirstDial, Preferred, run, users, host, disk, bounds, history
<1>20. CASE ShowResult
  BY <1>20 DEF ShowResult, run, users, disk, bounds, history
<1>21. CASE Answer
  BY <1>21 DEF Answer, run, users, disk, bounds, history
<1>22. CASE RestoreNormal
  BY <1>22 DEF RestoreNormal, Running, run, host, disk, history
<1>23. CASE Crash
  BY <1>23 DEF Crash, host, disk, history
<1>24. ASSUME NEW s \in Sites, SelectSite(s) PROVE PlaceTypes'
  BY <1>24 DEF SelectSite, Running, run, host, disk, history
<1>25. ASSUME NEW s \in Sites, Login(s) PROVE PlaceTypes'
  BY <1>25 DEF Login, Failing, TrySave, Saving, run, users, host
<1>26. CASE CancelButton \/ RunCommand \/ Tick \/ File \/ Expire \/
         UNCHANGED vars
  BY <1>26 DEF CancelButton, RunCommand, Running, Tick, File, Expire, vars,
    run, users, host, disk, bounds, history
<1>27. QED
  BY <1>1, <1>2, <1>3, <1>4, <1>5, <1>6, <1>7, <1>8, <1>9, <1>10, <1>11,
    <1>12, <1>13, <1>14, <1>15, <1>16, <1>17, <1>18, <1>19, <1>20, <1>21,
    <1>22, <1>23, <1>24, <1>25, <1>26 DEF Next, Select, User, Start

LEMMA FlagTypesKept == IInv /\ [Next]_vars => FlagTypes'
<1> SUFFICES ASSUME IInv, [Next]_vars PROVE FlagTypes'
    OBVIOUS
<1>0. Types
  BY TypeParts DEF IInv
<1> USE <1>0 DEF Types, FlagTypes
<1>1. CASE BeginSelection
  BY <1>1 DEF BeginSelection, users, host, disk, history
<1>2. CASE SavePoint
  BY <1>2 DEF SavePoint, Leave, Failing, users, host, history
<1>3. CASE ProbeCurrent
  BY <1>3 DEF ProbeCurrent, Ask, GoingBack, users, host, disk, bounds, history
<1>4. CASE KeepCurrent
  BY <1>4 DEF KeepCurrent, Leave, Heard, users, host, bounds, history
<1>5. CASE Trial
  BY <1>5 DEF Trial, Ask, GoingBack, users, host, disk, bounds, history
<1>6. CASE Adopt
  BY <1>6 DEF Adopt, GoingBack, Failing, Saving, users, host
<1>7. CASE Commit
  BY <1>7 DEF Commit, Leave, users, host, bounds
<1>8. CASE GoBack
  BY <1>8 DEF GoBack, Leave, Failing, TrySave, Saving, users, host
<1>9. CASE Forget
  BY <1>9 DEF Forget, Leave, users, host, bounds, history
<1>10. CASE RollBack
  BY <1>10 DEF RollBack, Failing, TrySave, Saving, run, users, host
<1>11. CASE ShowResult
  BY <1>11 DEF ShowResult, run, users, disk, bounds, history
<1>12. CASE RunCommand
  BY <1>12 DEF RunCommand, Choose, Running, users, host, disk, bounds, history
<1>13. CASE Expire
  BY <1>13 DEF Expire, Running, users, host, disk, bounds, history
<1>14. CASE Crash
  BY <1>14 DEF Crash, host, disk, history
<1>15. CASE HearContinue \/ Try \/ GiveUp \/ Decide \/ UserLock \/ UserDial \/
         UserSave \/ ClearPoint \/ FirstDial
  BY <1>15 DEF HearContinue, Heard, Try, GiveUp, Decide, UserLock, UserDial,
    UserSave, ClearPoint, FirstDial, Preferred, run, users, host, disk,
    bounds, history
<1>16. CASE Answer \/ CancelButton \/ Tick \/ File \/ RestoreNormal \/
         (\E s \in Sites : SelectSite(s)) \/ (\E s \in Sites : Login(s)) \/
         UNCHANGED vars
  BY <1>16 DEF Answer, CancelButton, Tick, File, RestoreNormal, Running,
    SelectSite, Login, vars, run, users, host, disk, bounds, history
<1>17. QED
  BY <1>1, <1>2, <1>3, <1>4, <1>5, <1>6, <1>7, <1>8, <1>9, <1>10, <1>11,
    <1>12, <1>13, <1>14, <1>15, <1>16 DEF Next, Select, User, Start

LEMMA DecisionTypesKept == IInv /\ [Next]_vars => DecisionTypes'
<1> SUFFICES ASSUME IInv, [Next]_vars PROVE DecisionTypes'
    OBVIOUS
<1>0. Types
  BY TypeParts DEF IInv
<1> USE <1>0 DEF Types, DecisionTypes
<1>1. CASE BeginSelection
  BY <1>1, DecisionsTyped DEF BeginSelection, users, host, disk, history
<1>2. CASE SavePoint
  BY <1>2, DecisionsTyped DEF SavePoint, Leave, Failing, users, host, history
<1>3. CASE HearContinue
  BY <1>3, DecisionsTyped DEF HearContinue, Heard, users, host, disk, bounds,
    history
<1>4. CASE KeepCurrent
  BY <1>4, DecisionsTyped DEF KeepCurrent, Leave, Heard, users, host, bounds,
    history
<1>5. CASE Decide
  BY <1>5, DecisionsTyped DEF Decide, GoingBack, Heard, users, host, disk,
    bounds, history
<1>6. CASE Commit
  BY <1>6, DecisionsTyped DEF Commit, Leave, users, host, bounds
<1>7. CASE GoBack
  BY <1>7, DecisionsTyped DEF GoBack, Leave, Failing, TrySave, Saving, users,
    host
<1>8. CASE Forget
  BY <1>8, DecisionsTyped DEF Forget, Leave, users, host, bounds, history
<1>9. CASE RunCommand
  <2>1. Head(inbox).action \in Answers
    BY <1>9, HeadAnswers DEF IInv, TypeOK, RunCommand, Dispatch
  <2>2. QED
    BY <1>9, <2>1, DecisionsTyped DEF RunCommand, Choose, Answers
<1>10. CASE Crash
  BY <1>10, DecisionsTyped DEF Crash, host, disk, history
<1>11. CASE ProbeCurrent \/ Try \/ GiveUp \/ Trial \/ Adopt \/ UserLock \/
         UserDial \/ UserSave \/ RollBack
  BY <1>11 DEF ProbeCurrent, Try, GiveUp, Trial, Adopt, UserLock, UserDial,
    UserSave, RollBack, run, users, host, disk, bounds, history
<1>12. CASE ClearPoint \/ FirstDial \/ ShowResult \/ Answer \/ CancelButton \/
         Tick \/ File \/ Expire \/ RestoreNormal
  BY <1>12 DEF ClearPoint, FirstDial, Preferred, ShowResult, Answer,
    CancelButton, Tick, File, Expire, Running, RestoreNormal, run, users,
    host, disk, bounds, history
<1>13. CASE (\E s \in Sites : SelectSite(s)) \/ (\E s \in Sites : Login(s)) \/
         UNCHANGED vars
  BY <1>13 DEF SelectSite, Running, Login, vars, run, users, host, disk,
    bounds, history
<1>14. QED
  BY <1>1, <1>2, <1>3, <1>4, <1>5, <1>6, <1>7, <1>8, <1>9, <1>10, <1>11,
    <1>12, <1>13 DEF Next, Select, User, Start

LEMMA CountTypesKept == IInv /\ [Next]_vars => CountTypes'
<1> SUFFICES ASSUME IInv, [Next]_vars PROVE CountTypes'
    OBVIOUS
<1>0. Types
  BY TypeParts DEF IInv
<1> USE <1>0, SmartAssumption DEF Types, CountTypes
<1>1. CASE BeginSelection
  BY <1>1 DEF BeginSelection, users, host, disk, history
<1>2. CASE SavePoint
  BY <1>2 DEF SavePoint, Leave, Failing, users, host, history
<1>3. CASE Adopt
  BY <1>3 DEF Adopt, GoingBack, Failing, Saving, users, host
<1>4. CASE GoBack
  BY <1>4 DEF GoBack, Leave, Failing, TrySave, Saving, users, host
<1>5. CASE UserSave
  BY <1>5 DEF UserSave, Failing, TrySave, Saving, run, host, history
<1>6. CASE RollBack
  BY <1>6 DEF RollBack, Failing, TrySave, Saving, run, users, host
<1>7. CASE RestoreNormal
  BY <1>7 DEF RestoreNormal, Running, run, host, disk, history
<1>8. CASE Crash
  BY <1>8 DEF Crash, host, disk, history
<1>9. ASSUME NEW s \in Sites, SelectSite(s) PROVE CountTypes'
  BY <1>9 DEF SelectSite, Running, run, host, disk, history
<1>10. ASSUME NEW s \in Sites, Login(s) PROVE CountTypes'
  BY <1>10 DEF Login, Failing, TrySave, Saving, run, users, host
<1>11. CASE ProbeCurrent \/ HearContinue \/ KeepCurrent \/ Try \/ GiveUp \/
         Trial \/ Decide \/ Commit \/ Forget
  BY <1>11 DEF ProbeCurrent, HearContinue, Heard, KeepCurrent, Try, GiveUp,
    Trial, Decide, Commit, Forget, users, host, disk, bounds, history
<1>12. CASE UserLock \/ UserDial \/ ClearPoint \/ FirstDial \/ ShowResult \/
         Answer \/ CancelButton \/ RunCommand \/ Tick
  BY <1>12 DEF UserLock, UserDial, ClearPoint, FirstDial, Preferred,
    ShowResult, Answer, CancelButton, RunCommand, Running, Tick, run, users,
    host, disk, bounds, history
<1>13. CASE File \/ Expire \/ UNCHANGED vars
  BY <1>13 DEF File, Expire, Running, vars, run, users, host, disk, bounds,
    history
<1>14. QED
  BY <1>1, <1>2, <1>3, <1>4, <1>5, <1>6, <1>7, <1>8, <1>9, <1>10, <1>11,
    <1>12, <1>13 DEF Next, Select, User, Start

LEMMA TypesKept == IInv /\ [Next]_vars => TypeOK'
<1> SUFFICES ASSUME IInv, [Next]_vars PROVE TypeOK'
    OBVIOUS
<1>1. ChannelTypeOK'
  BY ChannelKept DEF IInv, TypeOK
<1>2. FileTypes' /\ LineTypes' /\ PlaceTypes'
  BY FileTypesKept, LineTypesKept, PlaceTypesKept
<1>3. FlagTypes' /\ DecisionTypes' /\ CountTypes'
  BY FlagTypesKept, DecisionTypesKept, CountTypesKept
<1>4. QED
  BY <1>1, <1>2, <1>3
     DEF TypeOK, FileTypes, LineTypes, PlaceTypes, FlagTypes, DecisionTypes,
         CountTypes

-----------------------------------------------------------------------------
(* The strengthening. *)

LEMMA LinesKept == IInv /\ [Next]_vars => LineInv'
<1> SUFFICES ASSUME IInv, [Next]_vars PROVE LineInv'
    OBVIOUS
<1> USE SmartAssumption DEF IInv, LineInv, LockInv, Nowhere, NoPoint, Lines
<1>1. CASE BeginSelection
  BY <1>1 DEF BeginSelection, users, host, disk, history, TypeOK, Config
<1>2. CASE SavePoint
  BY <1>2 DEF SavePoint, Leave, Failing, users, host, history, TypeOK, Config
<1>3. CASE ProbeCurrent
  BY <1>3 DEF ProbeCurrent, Ask, GoingBack, users, host, disk, bounds,
    history, TypeOK, Config
<1>4. CASE HearContinue
  BY <1>4 DEF HearContinue, Heard, users, host, disk, bounds, history, TypeOK,
    Config
<1>5. CASE KeepCurrent
  BY <1>5 DEF KeepCurrent, Leave, Heard, users, host, bounds, history, TypeOK,
    Config
<1>6. CASE Try
  BY <1>6 DEF Try, users, host, disk, bounds, history, TypeOK, Config
<1>7. CASE GiveUp
  BY <1>7 DEF GiveUp, GoingBack, users, host, disk, bounds, history, TypeOK,
    Config
<1>8. CASE Trial
  BY <1>8 DEF Trial, Ask, GoingBack, users, host, disk, bounds, history,
    TypeOK, Config
<1>9. CASE Decide
  BY <1>9 DEF Decide, GoingBack, Heard, users, host, disk, bounds, history,
    TypeOK, Config
<1>10. CASE Adopt
  BY <1>10 DEF Adopt, GoingBack, Failing, Saving, users, host, TypeOK, Config
<1>11. CASE Commit
  BY <1>11 DEF Commit, Leave, users, host, bounds, TypeOK, Config
<1>12. CASE GoBack
  BY <1>12 DEF GoBack, Leave, Failing, TrySave, Saving, users, host, TypeOK,
    Config
<1>13. CASE Forget
  BY <1>13 DEF Forget, Leave, users, host, bounds, history, TypeOK, Config
<1>14. CASE UserLock
  BY <1>14 DEF UserLock, run, host, disk, bounds, history, TypeOK, Config
<1>15. CASE UserDial
  BY <1>15 DEF UserDial, run, host, disk, bounds, TypeOK, Config
<1>16. CASE UserSave
  BY <1>16 DEF UserSave, Failing, TrySave, Saving, run, host, history, TypeOK,
    Config
<1>17. CASE ClearPoint
  BY <1>17 DEF ClearPoint, run, users, host, bounds, history, TypeOK, Config
<1>18. CASE RestoreNormal
  BY <1>18 DEF RestoreNormal, Running, run, host, disk, history, TypeOK,
    Config
<1>19. CASE Crash
  BY <1>19 DEF Crash, host, disk, history, TypeOK, Config
<1>20. ASSUME NEW s \in Sites, SelectSite(s) PROVE LineInv'
  BY <1>20 DEF SelectSite, Running, run, host, disk, history, TypeOK, Config
<1>21. CASE RollBack \/ FirstDial \/ ShowResult \/ Answer \/ CancelButton \/
         RunCommand \/ Tick \/ File \/ Expire
  BY <1>21 DEF RollBack, FirstDial, Preferred, ShowResult, Answer,
    CancelButton, RunCommand, Running, Tick, File, Expire, run, users, host,
    disk, bounds, history, TypeOK, Config
<1>22. CASE (\E s \in Sites : Login(s)) \/ UNCHANGED vars
  BY <1>22 DEF Login, vars, run, users, host, disk, bounds, history, TypeOK,
    Config
<1>23. QED
  BY <1>1, <1>2, <1>3, <1>4, <1>5, <1>6, <1>7, <1>8, <1>9, <1>10, <1>11,
    <1>12, <1>13, <1>14, <1>15, <1>16, <1>17, <1>18, <1>19, <1>20, <1>21,
    <1>22 DEF Next, Select, User, Start

LEMMA LocksKept == IInv /\ [Next]_vars => LockInv'
<1> SUFFICES ASSUME IInv, [Next]_vars PROVE LockInv'
    OBVIOUS
<1> USE DEF IInv, LockInv
<1>1. CASE BeginSelection
  BY <1>1 DEF BeginSelection, users, host, disk, history
<1>2. CASE SavePoint
  BY <1>2 DEF SavePoint, Leave, Failing, users, host, history
<1>3. CASE ProbeCurrent
  BY <1>3 DEF ProbeCurrent, Ask, GoingBack, users, host, disk, bounds, history
<1>4. CASE HearContinue
  BY <1>4 DEF HearContinue, Heard, users, host, disk, bounds, history
<1>5. CASE KeepCurrent
  BY <1>5 DEF KeepCurrent, Leave, Heard, users, host, bounds, history
<1>6. CASE Try
  BY <1>6 DEF Try, users, host, disk, bounds, history
<1>7. CASE GiveUp
  BY <1>7 DEF GiveUp, GoingBack, users, host, disk, bounds, history
<1>8. CASE Trial
  BY <1>8 DEF Trial, Ask, GoingBack, users, host, disk, bounds, history
<1>9. CASE Decide
  BY <1>9 DEF Decide, GoingBack, Heard, users, host, disk, bounds, history
<1>10. CASE Adopt
  BY <1>10 DEF Adopt, GoingBack, Failing, Saving, users, host
<1>11. CASE Commit
  BY <1>11 DEF Commit, Leave, users, host, bounds
<1>12. CASE GoBack
  BY <1>12 DEF GoBack, Leave, Failing, TrySave, Saving, users, host
<1>13. CASE Forget
  BY <1>13 DEF Forget, Leave, users, host, bounds, history
<1>14. CASE UserLock
  BY <1>14 DEF UserLock, run, host, disk, bounds, history
<1>15. CASE UserDial
  BY <1>15 DEF UserDial, run, host, disk, bounds
<1>16. CASE UserSave
  BY <1>16 DEF UserSave, Failing, TrySave, Saving, run, host, history
<1>17. CASE RollBack
  BY <1>17 DEF RollBack, Failing, TrySave, Saving, run, users, host
<1>18. CASE ClearPoint
  BY <1>18 DEF ClearPoint, run, users, host, bounds, history
<1>19. CASE FirstDial
  BY <1>19 DEF FirstDial, Preferred, run, users, host, disk, bounds, history
<1>20. CASE RestoreNormal
  BY <1>20 DEF RestoreNormal, Running, run, host, disk, history
<1>21. CASE Crash
  BY <1>21 DEF Crash, host, disk, history
<1>22. ASSUME NEW s \in Sites, SelectSite(s) PROVE LockInv'
  BY <1>22 DEF SelectSite, Running, run, host, disk, history
<1>23. ASSUME NEW s \in Sites, Login(s) PROVE LockInv'
  BY <1>23 DEF Login, Failing, TrySave, Saving, run, users, host
<1>24. CASE ShowResult \/ Answer \/ CancelButton \/ RunCommand \/ Tick \/ File
         \/ Expire \/ UNCHANGED vars
  BY <1>24 DEF ShowResult, Answer, CancelButton, RunCommand, Running, Tick,
    File, Expire, vars, run, users, host, disk, bounds, history
<1>25. QED
  BY <1>1, <1>2, <1>3, <1>4, <1>5, <1>6, <1>7, <1>8, <1>9, <1>10, <1>11,
    <1>12, <1>13, <1>14, <1>15, <1>16, <1>17, <1>18, <1>19, <1>20, <1>21,
    <1>22, <1>23, <1>24 DEF Next, Select, User, Start

LEMMA RefusalKept == IInv /\ [Next]_vars => RefusedInv'
<1> SUFFICES ASSUME IInv, [Next]_vars PROVE RefusedInv'
    OBVIOUS
<1> USE DEF IInv, RefusedInv
<1>1. CASE BeginSelection
  BY <1>1 DEF BeginSelection, users, host, disk, history
<1>2. CASE SavePoint
  BY <1>2 DEF SavePoint, Leave, Failing, users, host, history
<1>3. CASE ProbeCurrent
  BY <1>3 DEF ProbeCurrent, Ask, GoingBack, users, host, disk, bounds, history
<1>4. CASE HearContinue
  BY <1>4 DEF HearContinue, Heard, users, host, disk, bounds, history
<1>5. CASE KeepCurrent
  BY <1>5 DEF KeepCurrent, Leave, Heard, users, host, bounds, history
<1>6. CASE Try
  BY <1>6 DEF Try, users, host, disk, bounds, history
<1>7. CASE GiveUp
  BY <1>7 DEF GiveUp, GoingBack, users, host, disk, bounds, history
<1>8. CASE Trial
  BY <1>8 DEF Trial, Ask, GoingBack, users, host, disk, bounds, history
<1>9. CASE Decide
  BY <1>9 DEF Decide, GoingBack, Heard, users, host, disk, bounds, history
<1>10. CASE Adopt
  BY <1>10 DEF Adopt, GoingBack, Failing, Saving, users, host
<1>11. CASE Commit
  BY <1>11 DEF Commit, Leave, users, host, bounds
<1>12. CASE GoBack
  BY <1>12 DEF GoBack, Leave, Failing, TrySave, Saving, users, host
<1>13. CASE Forget
  BY <1>13 DEF Forget, Leave, users, host, bounds, history
<1>14. CASE RunCommand
  <2> DEFINE v == IF Head(inbox).action = "cancel" THEN "restore"
                                                 ELSE Head(inbox).action
  <2>1. /\ pc' = pc
        /\ decisions' = IF Running /\ Len(decisions) < 2 THEN Append(decisions, v)
                                                         ELSE decisions
        /\ refused' => refused \/ /\ Running /\ v = "restore" /\ decisions = <<>>
                                  /\ pc \notin {"adopt", "commit"}
    BY <1>14 DEF RunCommand, Choose
  <2> HIDE DEF v
  <2>2. decisions \in Seq(Answers) /\ Len(<<>>) = 0
    BY DEF TypeOK
  <2>3. CASE decisions # <<>>
    <3>1. Head(Append(decisions, v)) = Head(decisions)
      BY <2>2, <2>3
    <3>2. Append(decisions, v) # <<>>
      BY <2>2
    <3>3. QED
      BY <2>1, <2>3, <3>1, <3>2
  <2>4. CASE decisions = <<>>
    <3>1. Append(decisions, v) = <<v>> /\ Head(<<v>>) = v /\ <<v>> # <<>>
      BY <2>4
    <3>2. CASE refused
      BY <2>1, <2>4, <3>2
    <3>3. CASE ~refused
      <4>1. refused' => decisions' = <<v>> /\ v = "restore"
                        /\ pc \notin {"idle", "adopt", "commit"}
        BY <2>1, <2>2, <2>4, <3>1, <3>3 DEF Running
      <4>2. QED
        BY <2>1, <3>1, <4>1 DEF TypeOK
    <3>4. QED
      BY <3>2, <3>3
  <2>5. QED
    BY <2>3, <2>4
<1>15. CASE Crash
  BY <1>15 DEF Crash, host, disk, history
<1>16. CASE UserLock \/ UserDial \/ UserSave \/ RollBack \/ ClearPoint \/
         FirstDial \/ ShowResult \/ Answer \/ CancelButton
  BY <1>16 DEF UserLock, UserDial, UserSave, RollBack, ClearPoint, FirstDial,
    Preferred, ShowResult, Answer, CancelButton, run, users, host, disk,
    bounds, history
<1>17. CASE Tick \/ File \/ Expire \/ RestoreNormal \/
         (\E s \in Sites : SelectSite(s)) \/ (\E s \in Sites : Login(s)) \/
         UNCHANGED vars
  BY <1>17 DEF Tick, File, Expire, Running, RestoreNormal, SelectSite, Login,
    vars, run, users, host, disk, bounds, history
<1>18. QED
  BY <1>1, <1>2, <1>3, <1>4, <1>5, <1>6, <1>7, <1>8, <1>9, <1>10, <1>11,
    <1>12, <1>13, <1>14, <1>15, <1>16, <1>17 DEF Next, Select, User, Start

LEMMA BackKept == IInv /\ [Next]_vars => BackInv'
<1> SUFFICES ASSUME IInv, [Next]_vars PROVE BackInv'
    OBVIOUS
<1> USE DEF IInv, BackInv, LockInv, Preferred
<1>1. CASE SavePoint
  BY <1>1 DEF SavePoint, Leave, Failing, users, host, history, TypeOK, Config,
    NoPoint
<1>2. CASE KeepCurrent
  BY <1>2 DEF KeepCurrent, Leave, Heard, users, host, bounds, history, TypeOK,
    Config, NoPoint
<1>3. CASE Adopt
  BY <1>3 DEF Adopt, GoingBack, Failing, Saving, users, host, TypeOK, Config,
    NoPoint
<1>4. CASE Commit
  BY <1>4 DEF Commit, Leave, users, host, bounds, TypeOK, Config, NoPoint
<1>5. CASE GoBack
  BY <1>5 DEF GoBack, Leave, Failing, TrySave, Saving, users, host, TypeOK,
    Config, NoPoint
<1>6. CASE Forget
  BY <1>6 DEF Forget, Leave, users, host, bounds, history, TypeOK, Config,
    NoPoint
<1>7. CASE UserSave
  BY <1>7 DEF UserSave, Failing, TrySave, Saving, run, host, history, TypeOK,
    Config, NoPoint
<1>8. CASE RollBack
  BY <1>8 DEF RollBack, Failing, TrySave, Saving, run, users, host, TypeOK,
    Config, NoPoint
<1>9. CASE ClearPoint
  BY <1>9 DEF ClearPoint, run, users, host, bounds, history, TypeOK, Config,
    NoPoint
<1>10. CASE FirstDial
  BY <1>10 DEF FirstDial, Preferred, run, users, host, disk, bounds, history,
    TypeOK, Config, NoPoint
<1>11. CASE Crash
  BY <1>11 DEF Crash, host, disk, history, TypeOK, Config, NoPoint
<1>12. ASSUME NEW s \in Sites, Login(s) PROVE BackInv'
  BY <1>12 DEF Login, Failing, TrySave, Saving, run, users, host, TypeOK,
    Config, NoPoint
<1>13. CASE BeginSelection \/ ProbeCurrent \/ HearContinue \/ Try \/ GiveUp \/
         Trial \/ Decide \/ UserLock \/ UserDial
  BY <1>13 DEF BeginSelection, ProbeCurrent, HearContinue, Heard, Try, GiveUp,
    Trial, Decide, UserLock, UserDial, run, users, host, disk, bounds,
    history, TypeOK, Config, NoPoint
<1>14. CASE ShowResult \/ Answer \/ CancelButton \/ RunCommand \/ Tick \/ File
         \/ Expire \/ RestoreNormal \/ (\E s \in Sites : SelectSite(s))
  BY <1>14 DEF ShowResult, Answer, CancelButton, RunCommand, Running, Tick,
    File, Expire, RestoreNormal, SelectSite, run, users, host, disk, bounds,
    history, TypeOK, Config, NoPoint
<1>15. CASE UNCHANGED vars
  BY <1>15 DEF vars, run, users, host, disk, bounds, history, TypeOK, Config,
    NoPoint
<1>16. QED
  BY <1>1, <1>2, <1>3, <1>4, <1>5, <1>6, <1>7, <1>8, <1>9, <1>10, <1>11,
    <1>12, <1>13, <1>14, <1>15 DEF Next, Select, User, Start

LEMMA WantedKept == IInv /\ [Next]_vars => WantedInv'
<1> SUFFICES ASSUME IInv, [Next]_vars PROVE WantedInv'
    OBVIOUS
<1> USE DEF IInv, WantedInv, Good, LockInv, LineInv, Preferred
<1>1. CASE BeginSelection
  BY <1>1 DEF BeginSelection, users, host, disk, history, TypeOK, Config,
    NoPoint, Nowhere
<1>2. CASE SavePoint
  BY <1>2 DEF SavePoint, Leave, Failing, users, host, history, TypeOK, Config,
    NoPoint, Nowhere
<1>3. CASE ProbeCurrent
  BY <1>3 DEF ProbeCurrent, Ask, GoingBack, users, host, disk, bounds,
    history, TypeOK, Config, NoPoint, Nowhere
<1>4. CASE HearContinue
  BY <1>4 DEF HearContinue, Heard, users, host, disk, bounds, history, TypeOK,
    Config, NoPoint, Nowhere
<1>5. CASE KeepCurrent
  BY <1>5 DEF KeepCurrent, Leave, Heard, users, host, bounds, history, TypeOK,
    Config, NoPoint, Nowhere
<1>6. CASE Try
  BY <1>6 DEF Try, users, host, disk, bounds, history, TypeOK, Config,
    NoPoint, Nowhere
<1>7. CASE GiveUp
  BY <1>7 DEF GiveUp, GoingBack, users, host, disk, bounds, history, TypeOK,
    Config, NoPoint, Nowhere
<1>8. CASE Trial
  BY <1>8 DEF Trial, Ask, GoingBack, users, host, disk, bounds, history,
    TypeOK, Config, NoPoint, Nowhere
<1>9. CASE Decide
  BY <1>9 DEF Decide, GoingBack, Heard, users, host, disk, bounds, history,
    TypeOK, Config, NoPoint, Nowhere
<1>10. CASE Adopt
  BY <1>10 DEF Adopt, GoingBack, Failing, Saving, users, host, TypeOK, Config,
    NoPoint, Nowhere
<1>11. CASE Commit
  <2>1. /\ pc = "commit" /\ pc' = "idle" /\ wanted' = wanted \cup {cand}
        /\ point' = NoPoint /\ UNCHANGED <<cfg, saved, link, site, up, user, target>>
        /\ UNCHANGED unrestored
    BY <1>11 DEF Commit, Leave, users
  <2>2. up = "on" /\ user # "save"
    BY <2>1, <1>11 DEF TypeOK
  <2>3. CASE unrestored
    BY <2>1, <2>3
  <2>4. CASE ~unrestored
    <3>1. Preferred(saved) = cand /\ link = cand /\ site = cand
      BY <2>1, <2>4
    <3>2. cfg = saved
      BY <2>1, <2>4
    <3>3. cand \in wanted' /\ wanted \subseteq wanted'
      BY <2>1
    <3>4. QED
      BY <2>1, <2>2, <2>4, <3>1, <3>2, <3>3
  <2>5. QED
    BY <2>3, <2>4
<1>12. CASE GoBack
  BY <1>12 DEF GoBack, Leave, Failing, TrySave, Saving, users, host, TypeOK,
    Config, NoPoint, Nowhere
<1>13. CASE Forget
  BY <1>13 DEF Forget, Leave, users, host, bounds, history, TypeOK, Config,
    NoPoint, Nowhere
<1>14. CASE UserLock
  BY <1>14 DEF UserLock, run, host, disk, bounds, history, TypeOK, Config,
    NoPoint, Nowhere
<1>15. CASE UserDial
  BY <1>15 DEF UserDial, run, host, disk, bounds, TypeOK, Config, NoPoint,
    Nowhere
<1>16. CASE UserSave
  BY <1>16 DEF UserSave, Failing, TrySave, Saving, run, host, history, TypeOK,
    Config, NoPoint, Nowhere
<1>17. CASE RollBack
  BY <1>17 DEF RollBack, Failing, TrySave, Saving, run, users, host, TypeOK,
    Config, NoPoint, Nowhere
<1>18. CASE ClearPoint
  BY <1>18 DEF ClearPoint, run, users, host, bounds, history, TypeOK, Config,
    NoPoint, Nowhere
<1>19. CASE FirstDial
  BY <1>19 DEF FirstDial, Preferred, run, users, host, disk, bounds, history,
    TypeOK, Config, NoPoint, Nowhere
<1>20. CASE RestoreNormal
  BY <1>20 DEF RestoreNormal, Running, run, host, disk, history, TypeOK,
    Config, NoPoint, Nowhere
<1>21. CASE Crash
  <2>1. /\ up' = "off" /\ cfg' = saved /\ saved' = saved /\ point' = point
        /\ pc' = "idle" /\ user' = "idle" /\ link' = Nowhere /\ site' = Nowhere
        /\ UNCHANGED <<wanted, unrestored>>
    BY <1>21 DEF Crash, disk, history
  <2>2. pc = "commit" => point # NoPoint
    <3>1. pc = "commit" => point.site \in Sites
      OBVIOUS
    <3>2. NoPoint.site \notin Sites
      BY SmartAssumption DEF NoPoint, Nowhere
    <3>3. QED
      BY <3>1, <3>2
  <2>3. QED
    BY <2>1, <2>2
<1>22. ASSUME NEW s \in Sites, SelectSite(s) PROVE WantedInv'
  <2>1. /\ pc = "idle" /\ up = "on" /\ UNCHANGED <<disk, run, history>>
        /\ UNCHANGED <<cfg, link, site, up>>
        /\ user' = "save" => link = s /\ target' = s
    BY <1>22 DEF SelectSite, Running
  <2>2. UNCHANGED <<saved, point, pc, orig, cand, wanted, unrestored>>
    BY <2>1 DEF disk, run, history
  <2>3. user' = "save" => unrestored \/ target' \in wanted
    <3>1. s # Nowhere
      BY SmartAssumption DEF Nowhere
    <3>2. QED
      BY <2>1, <3>1
  <2>4. QED
    BY <2>1, <2>2, <2>3
<1>23. ASSUME NEW s \in Sites, Login(s) PROVE WantedInv'
  BY <1>23 DEF Login, Failing, TrySave, Saving, run, users, host, TypeOK,
    Config, NoPoint, Nowhere
<1>24. CASE ShowResult \/ Answer \/ CancelButton \/ RunCommand \/ Tick \/ File
         \/ Expire \/ UNCHANGED vars
  BY <1>24 DEF ShowResult, Answer, CancelButton, RunCommand, Running, Tick,
    File, Expire, vars, run, users, host, disk, bounds, history, TypeOK,
    Config, NoPoint, Nowhere
<1>25. QED
  BY <1>1, <1>2, <1>3, <1>4, <1>5, <1>6, <1>7, <1>8, <1>9, <1>10, <1>11,
    <1>12, <1>13, <1>14, <1>15, <1>16, <1>17, <1>18, <1>19, <1>20, <1>21,
    <1>22, <1>23, <1>24 DEF Next, Select, User, Start
-----------------------------------------------------------------------------
(* The invariant and what follows from it. *)

LEMMA InvAtStart == Init => IInv
<1> SUFFICES ASSUME Init PROVE IInv
    OBVIOUS
<1> USE SmartAssumption, CommandAssumption DEF Init, ChannelInit
<1>1. ChannelTypeOK /\ OrderInv
  BY DEF ChannelTypeOK, OrderInv, Rising
<1>2. Home \in Sites /\ Abroad \in Sites
  OBVIOUS
<1>3. cfg \in Config /\ saved = cfg
  BY <1>2 DEF Config
<1>4. link \in Sites /\ site = link /\ wanted = {link}
  BY <1>3, ConfigTyped
<1>5. FileTypes /\ LineTypes
  BY <1>3, <1>4 DEF FileTypes, LineTypes, NoPoint, Lines, Nowhere
<1>6. PlaceTypes /\ FlagTypes /\ CountTypes
  <2>1. PlaceTypes
    BY DEF PlaceTypes
  <2>2. FlagTypes
    BY DEF FlagTypes
  <2>3. CountTypes
    BY DEF CountTypes
  <2>4. QED
    BY <2>1, <2>2, <2>3
<1>7. DecisionTypes
  BY DecisionsTyped DEF DecisionTypes
<1>8. TypeOK
  BY <1>1, <1>5, <1>6, <1>7, TypeParts DEF Types
<1>9. LineInv /\ LockInv /\ RefusedInv /\ BackInv
  BY DEF LineInv, LockInv, RefusedInv, BackInv
<1>10. WantedInv
  BY <1>4 DEF WantedInv, Good
<1>11. QED
  BY <1>1, <1>8, <1>9, <1>10 DEF IInv

LEMMA ForgetsOnly ==
  ASSUME IInv, [Next]_vars, up = "forget", up' = "dial"
  PROVE  UNCHANGED cfg
<1> USE DEF IInv, LockInv
<1>1. CASE Adopt
  BY <1>1 DEF Adopt, GoingBack, Failing, Saving, users, host
<1>2. CASE GoBack
  BY <1>2 DEF GoBack, Leave, Failing, TrySave, Saving, users, host
<1>3. CASE UserSave
  BY <1>3 DEF UserSave, Failing, TrySave, Saving, run, host, history
<1>4. CASE RollBack
  BY <1>4 DEF RollBack, Failing, TrySave, Saving, run, users, host
<1>5. CASE ClearPoint
  BY <1>5 DEF ClearPoint, run, users, host, bounds, history
<1>6. CASE FirstDial
  BY <1>6 DEF FirstDial, Preferred, run, users, host, disk, bounds, history
<1>7. CASE Crash
  BY <1>7 DEF Crash, host, disk, history
<1>8. ASSUME NEW s \in Sites, Login(s) PROVE UNCHANGED cfg
  BY <1>8 DEF Login, Failing, TrySave, Saving, run, users, host
<1>9. CASE BeginSelection \/ SavePoint \/ ProbeCurrent \/ HearContinue \/
         KeepCurrent \/ Try \/ GiveUp \/ Trial \/ Decide
  BY <1>9 DEF BeginSelection, SavePoint, ProbeCurrent, HearContinue, Heard,
    KeepCurrent, Try, GiveUp, Trial, Decide, users, host, disk, bounds,
    history
<1>10. CASE Commit \/ Forget \/ UserLock \/ UserDial \/ ShowResult \/ Answer
         \/ CancelButton \/ RunCommand \/ Tick
  BY <1>10 DEF Commit, Forget, UserLock, UserDial, ShowResult, Answer,
    CancelButton, RunCommand, Running, Tick, run, users, host, disk, bounds,
    history
<1>11. CASE File \/ Expire \/ RestoreNormal \/
         (\E s \in Sites : SelectSite(s)) \/ UNCHANGED vars
  BY <1>11 DEF File, Expire, Running, RestoreNormal, SelectSite, vars, run,
    users, host, disk, bounds, history
<1>12. QED
  BY <1>1, <1>2, <1>3, <1>4, <1>5, <1>6, <1>7, <1>8, <1>9, <1>10, <1>11 DEF
    Next, Select, User, Start

LEMMA RefusedStaysOut ==
  ASSUME IInv, [Next]_vars, refused, pc' # pc
  PROVE  pc' # "adopt"
<1> USE DEF IInv, RefusedInv
<1>1. CASE BeginSelection
  BY <1>1 DEF BeginSelection, users, host, disk, history
<1>2. CASE SavePoint
  BY <1>2 DEF SavePoint, Leave, Failing, users, host, history
<1>3. CASE ProbeCurrent
  BY <1>3 DEF ProbeCurrent, Ask, GoingBack, users, host, disk, bounds, history
<1>4. CASE HearContinue
  BY <1>4 DEF HearContinue, Heard, users, host, disk, bounds, history
<1>5. CASE KeepCurrent
  BY <1>5 DEF KeepCurrent, Leave, Heard, users, host, bounds, history
<1>6. CASE Try
  BY <1>6 DEF Try, users, host, disk, bounds, history
<1>7. CASE GiveUp
  BY <1>7 DEF GiveUp, GoingBack, users, host, disk, bounds, history
<1>8. CASE Trial
  BY <1>8 DEF Trial, Ask, GoingBack, users, host, disk, bounds, history
<1>9. CASE Decide
  BY <1>9 DEF Decide, GoingBack, Heard, users, host, disk, bounds, history
<1>10. CASE Adopt
  BY <1>10 DEF Adopt, GoingBack, Failing, Saving, users, host
<1>11. CASE Commit
  BY <1>11 DEF Commit, Leave, users, host, bounds
<1>12. CASE GoBack
  BY <1>12 DEF GoBack, Leave, Failing, TrySave, Saving, users, host
<1>13. CASE Forget
  BY <1>13 DEF Forget, Leave, users, host, bounds, history
<1>14. CASE Crash
  BY <1>14 DEF Crash, host, disk, history
<1>15. CASE UserLock \/ UserDial \/ UserSave \/ RollBack \/ ClearPoint \/
         FirstDial \/ ShowResult \/ Answer \/ CancelButton
  BY <1>15 DEF UserLock, UserDial, UserSave, RollBack, ClearPoint, FirstDial,
    Preferred, ShowResult, Answer, CancelButton, run, users, host, disk,
    bounds, history
<1>16. CASE RunCommand \/ Tick \/ File \/ Expire \/ RestoreNormal \/
         (\E s \in Sites : SelectSite(s)) \/ (\E s \in Sites : Login(s)) \/
         UNCHANGED vars
  BY <1>16 DEF RunCommand, Running, Tick, File, Expire, RestoreNormal,
    SelectSite, Login, vars, run, users, host, disk, bounds, history
<1>17. QED
  BY <1>1, <1>2, <1>3, <1>4, <1>5, <1>6, <1>7, <1>8, <1>9, <1>10, <1>11,
    <1>12, <1>13, <1>14, <1>15, <1>16 DEF Next, Select, User, Start

\* The strengthening is an invariant: whoever works holds the mutex and has
\* stored where to go back to, and a line that is only tried stays in its place.
THEOREM SmartInvariant == Spec => []IInv
<1>1. Init => IInv
  BY InvAtStart
<1>2. IInv /\ [Next]_vars => IInv'
  <2>1. IInv /\ [Next]_vars => OrderInv'
    BY ChannelKept DEF IInv, TypeOK
  <2>2. QED
    BY <2>1, TypesKept, LinesKept, LocksKept, RefusalKept, BackKept, WantedKept
       DEF IInv
<1>3. QED
  BY <1>1, <1>2, PTL DEF Spec

\* Every variable keeps its type: the channel of decisions never holds more than
\* two, and no line is dialed that is not one (switchToCodexMode, smart_runtime.go).
THEOREM TypeCorrect == Spec => []TypeOK
<1>1. IInv => TypeOK
  BY DEF IInv
<1>2. QED
  BY <1>1, SmartInvariant, PTL

\* No command runs twice and none overtakes an earlier one, for any number of
\* commands and of files that cannot be deleted (ConsumeCommands of store.go).
THEOREM CommandsOnce == Spec => []OnceAndInOrder
<1>1. IInv => OnceAndInOrder
  <2> SUFFICES ASSUME IInv, NEW i \in DOMAIN inbox
               PROVE  inbox[i].id > IF i = 1 THEN ran ELSE inbox[i - 1].id
      BY DEF OnceAndInOrder
  <2>1. inbox \in Seq(Commands) /\ ran \in Int
    BY CommandAssumption DEF IInv, TypeOK, ChannelTypeOK
  <2>2. i \in 1..Len(inbox) /\ inbox[i] \in Commands
    BY <2>1
  <2>3. CASE i = 1
    BY <2>1, <2>2, <2>3 DEF IInv, OrderInv, Commands
  <2>4. CASE i # 1
    <3>1. i - 1 \in DOMAIN inbox /\ i - 1 < i
      BY <2>1, <2>2, <2>4
    <3>2. inbox[i - 1].id < inbox[i].id
      BY <3>1 DEF IInv, OrderInv, Rising
    <3>3. inbox[i - 1] \in Commands
      BY <2>1, <3>1
    <3>4. QED
      BY <2>2, <2>4, <3>2, <3>3 DEF Commands
  <2>5. QED
    BY <2>3, <2>4
<1>2. QED
  BY <1>1, SmartInvariant, PTL

\* A line that was only tried survives neither in an idle program nor in its next
\* start, as long as every attempt to go back has succeeded: for any number of
\* lines, selections, crashes and failing writes.
THEOREM TriedLinesLeave == Spec => []OnlyWantedLines
<1>1. IInv => OnlyWantedLines
  <2> SUFFICES ASSUME IInv, ~unrestored
               PROVE  /\ NextLine \in wanted
                      /\ pc = "idle" /\ link # Nowhere => link \in wanted
      BY DEF OnlyWantedLines
  <2>1. NextLine \in wanted
    <3>1. CASE point # NoPoint
      BY <3>1 DEF NextLine, IInv, WantedInv
    <3>2. CASE point = NoPoint
      <4>1. NoPoint.site \notin Sites
        BY SmartAssumption DEF NoPoint, Nowhere
      <4>2. pc # "commit"
        BY <3>2, <4>1 DEF IInv, LockInv, LineInv
      <4>3. Preferred(saved) \in wanted
        BY <3>2, <4>2 DEF IInv, WantedInv, Good
      <4>4. QED
        BY <3>2, <4>3 DEF NextLine
    <3>3. QED
      BY <3>1, <3>2
  <2>2. pc = "idle" /\ link # Nowhere => link \in wanted
    BY DEF IInv, WantedInv
  <2>3. QED
    BY <2>1, <2>2
<1>2. QED
  BY <1>1, SmartInvariant, PTL

\* A start that finds a recovery point has its line and its mode before the point
\* is deleted (rollbackPendingSmartSwitch).
THEOREM RestartGoesBack == Spec => StartGoesBack
<1>1. IInv /\ [Next]_vars =>
        [point # NoPoint /\ up = "forget" /\ up' = "dial"
           => Preferred(cfg') = point.site /\ cfg'.mode = point.mode]_vars
  <2> SUFFICES ASSUME IInv, [Next]_vars,
                      point # NoPoint, up = "forget", up' = "dial"
               PROVE  Preferred(cfg') = point.site /\ cfg'.mode = point.mode
      OBVIOUS
  <2>1. UNCHANGED cfg
    BY ForgetsOnly
  <2>2. QED
    BY <2>1 DEF IInv, BackInv, Preferred
<1>2. QED
  BY <1>1, SmartInvariant, PTL DEF Spec, StartGoesBack

\* Once going back was the first answer to a selection, the selection does not
\* adopt a line.
THEOREM RefusalIsFinal == Spec => RefusalHolds
<1>1. IInv /\ [Next]_vars => [refused => pc' # "adopt"]_pc
  <2> SUFFICES ASSUME IInv, [Next]_vars, refused, pc' # pc
               PROVE  pc' # "adopt"
      OBVIOUS
  <2>1. QED
    BY RefusedStaysOut
<1>2. QED
  BY <1>1, SmartInvariant, PTL DEF Spec, RefusalHolds
=============================================================================
