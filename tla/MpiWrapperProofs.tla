--------------------------- MODULE MpiWrapperProofs ---------------------------
(***************************************************************************)
(* Theorems about MpiWrapper, for any number of ranks and of events in the *)
(* file, and any scripts that read the file once and the queue once: their *)
(* limits, the order of their commands, the commands that are refused and  *)
(* the jobs that fail are arbitrary.                                       *)
(***************************************************************************)
EXTENDS MpiWrapper, Integers, FiniteSetTheorems, SequenceTheorems, TLAPS

\* The rank runs the art job of the current command, or has run it.
Begun(r) == pc[r] \in {"art", "exited"}

\* The event is one a rank has taken from its range of the file.
Taken(e) == \E r \in Ranks : Begun(r) /\ Nskip(r, at) <= e /\ e < NextInFile(r)

\* A job that takes its events from the file ends at its limit, at the end of the
\* file or with a failure.
RangeDone(r) ==
  taken[r] = config.limit \/ NextInFile(r) >= nfile \/ Failed(at, r)

\* The places in the limits of the ranks, and those of them that are used up.
Room(k) == Ranks \X (0..(script.lines[k].limit - 1))
Places == {s \in Room(at) : Begun(s[1]) /\ s[2] < taken[s[1]]}

Handled == {e \in Numbers : processed[e] = 1}

\* The file has been read, it is being read, and the queue is being read.
Past(k) == k \in Lines /\ Ran(k) /\ ReadsFile(script.lines[k])
Now == Running /\ ReadsFile(config)
ProcNow == Running /\ Processing(config)

Untouched == queue = {} /\ lost = {} /\ \A e \in Numbers : processed[e] = 0

LoadInv ==
  /\ lost = {}
  /\ \A e \in Numbers : processed[e] = 0
  /\ \A e \in Numbers : e \in queue <=> Taken(e)
  /\ \A r \in Ranks : pc[r] = "exited" => RangeDone(r)

FileInv ==
  /\ queue = {} /\ lost = {}
  /\ \A e \in Numbers : processed[e] = IF Taken(e) THEN 1 ELSE 0
  /\ \A r \in Ranks : Begun(r) => taken[r] = 0 \/ NextInFile(r) <= nfile
  /\ \A r \in Ranks : pc[r] = "exited" => RangeDone(r)

Control ==
  /\ \A r \in Ranks : pc[r] = "art" => Running /\ Accepted(config)
  /\ stopped => at \in Lines

Before == Now \/ (\E k \in Lines : Past(k)) \/ Untouched

Reading == Now => (Loading(config) => LoadInv) /\ (FromFile(config) => FileInv)

After ==
  \A k \in Lines : Past(k) =>
    (\A e \in Numbers : Accounted(e, k)) /\ (FromFile(script.lines[k]) => queue = {})

Each == \A e \in Numbers : Once(e)

NothingLost == failed = {} => lost = {}

\* A processing command that comes after the loading command has run.
Processed(k, j) == k < j /\ Ran(j) /\ Processing(script.lines[j])

\* While the queue is read as many events have been processed as places are used up.
CountsNow ==
  ProcNow => /\ Cardinality(Places) = Cardinality(Handled)
             /\ \A r \in Ranks : pc[r] = "exited" => taken[r] = config.limit \/ queue = {}

CountsAfter(j) ==
  /\ Cardinality(Handled) <= NRanks * script.lines[j].limit
  /\ queue = {} \/ Cardinality(Handled) = NRanks * script.lines[j].limit

Counts(k) ==
  failed = {} /\ Past(k) /\ Loading(script.lines[k]) =>
    /\ CountsNow
    /\ \A j \in Lines : Processed(k, j) => CountsAfter(j)
    /\ ProcNow \/ (\E j \in Lines : Processed(k, j)) \/ Handled = {}

Counting == \A k \in Lines : Counts(k)

Events == Before /\ Reading /\ After /\ Each /\ NothingLost

IInv == TypeOK /\ Control /\ Events /\ Counting

-------------------------------------------------------------------------------
(* Arithmetic *)

\* The range of a rank ends where that of the next one starts.
LEMMA Ranges ==
  ASSUME NEW n \in Nat, NEW p \in Nat, NEW r \in Nat
  PROVE  /\ r * n \in Nat
         /\ p < r => p * n + n <= r * n
OBVIOUS

\* Every event has its place in the range of a rank.
LEMMA EveryEventHasAPlace ==
  ASSUME NEW n \in Nat, NEW m \in Nat, NEW e \in Nat, e < m * n
  PROVE  \E r \in 0..(m - 1) : r * n <= e /\ e < r * n + n
<1>0. n \in Nat \ {0}
  <2>1. n = 0 => m * n = 0
    OBVIOUS
  <2> QED BY <2>1
<1> DEFINE r == e \div n
<1>1. e % n \in Nat /\ e % n < n
  BY <1>0
<1>2. e = n * r + (e % n) /\ r \in Int
  BY <1>0
<1>3. r \in Nat
  BY <1>0, <1>1, <1>2
<1> HIDE DEF r
<1>4. n * r = r * n /\ r * n \in Nat
  BY <1>3
<1>5. r < m
  <2>1. m <= r => m * n <= r * n
    BY <1>3
  <2> QED BY <1>1, <1>2, <1>4, <2>1, <1>3
<1>6. r \in 0..(m - 1) /\ r * n <= e /\ e < r * n + n
  BY <1>1, <1>2, <1>3, <1>4, <1>5
<1> QED BY <1>6

-------------------------------------------------------------------------------
(* The commands of a script *)

\* The current command and those before it are lines of the script.
LEMMA LineTypes ==
  ASSUME TypeOK
  PROVE  /\ Len(script.lines) \in Nat /\ Lines = 1..Len(script.lines)
         /\ at \in Nat /\ at >= 1
         /\ \A k \in Lines : script.lines[k] \in CommandLines /\ script.lines[k].limit \in Nat
<1>1. script.lines \in Seq(CommandLines)
  BY ScriptsAssumption DEF TypeOK
<1>2. /\ Len(script.lines) \in Nat /\ Lines = 1..Len(script.lines)
      /\ \A k \in Lines : script.lines[k] \in CommandLines
  BY <1>1 DEF Lines
<1>3. \A c \in CommandLines : c.limit \in Nat
  BY DEF CommandLines
<1> QED BY <1>2, <1>3 DEF TypeOK

\* A command line that is accepted does one of three things.
LEMMA Kinds ==
  ASSUME NEW c \in CommandLines
  PROVE  /\ Accepted(c) <=> Loading(c) \/ Processing(c) \/ FromFile(c)
         /\ ~ (Loading(c) /\ Processing(c)) /\ ~ (Loading(c) /\ FromFile(c))
         /\ ~ (Processing(c) /\ FromFile(c))
BY DEF Accepted, Valid, Loading, Processing, FromFile, CommandLines

\* The file is read once and the queue is read once.
LEMMA OneOfAKind ==
  ASSUME TypeOK, NEW i \in Lines, NEW j \in Lines, i # j
  PROVE  /\ ~ (ReadsFile(script.lines[i]) /\ ReadsFile(script.lines[j]))
         /\ ~ (Processing(script.lines[i]) /\ Processing(script.lines[j]))
<1>1. script.lines[i] \in CommandLines /\ script.lines[j] \in CommandLines
  BY LineTypes
<1>2. Accepted(script.lines[i]) /\ Accepted(script.lines[j]) =>
        Processing(script.lines[i]) # Processing(script.lines[j])
  BY OnceAssumption DEF TypeOK, Lines
<1>3. ASSUME NEW c \in CommandLines
      PROVE  /\ ReadsFile(c) => Accepted(c) /\ ~ Processing(c)
             /\ Processing(c) => Accepted(c)
  BY Kinds DEF ReadsFile
<1> DEFINE c == script.lines[i]  d == script.lines[j]
<1>4. /\ ReadsFile(c) => Accepted(c) /\ ~ Processing(c)
      /\ ReadsFile(d) => Accepted(d) /\ ~ Processing(d)
      /\ Processing(c) => Accepted(c)
      /\ Processing(d) => Accepted(d)
  BY <1>1, <1>3
<1>5. Processing(c) \in BOOLEAN /\ Processing(d) \in BOOLEAN
  BY DEF Processing
<1>6. Accepted(c) /\ Accepted(d) => Processing(c) # Processing(d)
  BY <1>2
<1> HIDE DEF c, d
<1>7. ~ (ReadsFile(c) /\ ReadsFile(d)) /\ ~ (Processing(c) /\ Processing(d))
  BY <1>4, <1>5, <1>6
<1> QED BY <1>7 DEF c, d

\* What is done by the current command has not been done before.
LEMMA NothingBefore ==
  ASSUME TypeOK, Running, NEW k \in Lines, Ran(k)
  PROVE  /\ k # at /\ at \in Lines /\ k < at
         /\ ~ (ReadsFile(script.lines[k]) /\ ReadsFile(config))
         /\ ~ (Processing(script.lines[k]) /\ Processing(config))
<1>1. k < at /\ k \in Nat /\ at \in Nat /\ at \in Lines
  BY LineTypes DEF Ran, Running
<1> QED BY <1>1, OneOfAKind DEF config

\* What the current command is, while an art job of it runs.
LEMMA RunningJob ==
  ASSUME TypeOK, Control, NEW r \in Ranks, pc[r] = "art"
  PROVE  /\ Running /\ at \in Lines /\ config \in CommandLines /\ config.limit \in Nat
         /\ Accepted(config)
         /\ Loading(config) => Now /\ ~ ProcNow /\ ~ FromFile(config)
         /\ FromFile(config) => Now /\ ~ ProcNow /\ ~ Loading(config)
         /\ Processing(config) => ProcNow /\ ~ Now
         /\ Loading(config) \/ FromFile(config) \/ Processing(config)
         /\ Now => \A k \in Lines : ~ Past(k)
         /\ ProcNow => \A j \in Lines : ~ (Ran(j) /\ Processing(script.lines[j]))
<1>1. Running /\ Accepted(config) /\ at \in Lines
  BY DEF Control, Running
<1>2. config \in CommandLines /\ config.limit \in Nat
  BY <1>1, LineTypes DEF config
<1>3. Now => \A k \in Lines : ~ Past(k)
  BY <1>1, NothingBefore DEF Now, Past
<1>4. ProcNow => \A j \in Lines : ~ (Ran(j) /\ Processing(script.lines[j]))
  BY <1>1, NothingBefore DEF ProcNow
<1> QED BY <1>1, <1>2, <1>3, <1>4, Kinds DEF Now, ProcNow, ReadsFile

-------------------------------------------------------------------------------
(* The ranges of the ranks *)

\* What the type invariant says of a rank.
LEMMA RankTypes ==
  ASSUME TypeOK, at \in Lines, NEW r \in Ranks
  PROVE  /\ r \in Nat /\ r < NRanks /\ NRanks \in Nat \ {0}
         /\ config.limit \in Nat /\ nfile \in Nat /\ nfile <= MaxEvents /\ MaxEvents \in Nat
         /\ taken[r] \in Nat
         /\ Accepted(config) /\ Begun(r) => taken[r] <= config.limit
         /\ Nskip(r, at) \in Nat /\ NextInFile(r) \in Nat
         /\ NextInFile(r) = Nskip(r, at) + taken[r]
<1>1. /\ r \in Nat /\ r < NRanks /\ NRanks \in Nat \ {0}
      /\ nfile \in Nat /\ nfile <= MaxEvents /\ MaxEvents \in Nat
      /\ taken[r] \in Nat
      /\ Accepted(config) /\ Begun(r) => taken[r] <= config.limit
  BY SizesAssumption DEF TypeOK, Ranks, Begun
<1>2. config.limit \in Nat
  BY LineTypes DEF config
<1>3. Nskip(r, at) \in Nat
  BY <1>1, <1>2, Ranges DEF Nskip, config
<1> QED BY <1>1, <1>2, <1>3 DEF NextInFile

\* A taken event is one of those the command is about, when it is in the file.
LEMMA TakenIsInReach ==
  ASSUME TypeOK, at \in Lines, Accepted(config), NEW e \in Numbers, Taken(e)
  PROVE  e < NRanks * config.limit
<1>1. PICK r \in Ranks : Begun(r) /\ Nskip(r, at) <= e /\ e < NextInFile(r)
  BY DEF Taken
<1>2. r * config.limit + config.limit <= NRanks * config.limit
  BY <1>1, RankTypes, Ranges
<1>3. NextInFile(r) <= Nskip(r, at) + config.limit
  BY <1>1, RankTypes
<1>4. e \in Int /\ Nskip(r, at) \in Nat /\ NextInFile(r) \in Nat /\ config.limit \in Nat
  BY RankTypes DEF Numbers
<1>5. NRanks * config.limit \in Nat
  BY RankTypes, Ranges
<1> QED BY <1>1, <1>2, <1>3, <1>4, <1>5 DEF Nskip, config

\* When every job has ended, every event in the ranges of the ranks is taken or in
\* the range of a rank whose job failed.
LEMMA WantedIsTaken ==
  ASSUME TypeOK, at \in Lines, \A r \in Ranks : pc[r] = "exited" /\ RangeDone(r),
         NEW e \in Wanted(at)
  PROVE  Taken(e) \/ \E r \in Ranks : Failed(at, r) /\ e \in RangeOf(r, at)
<1>1. e \in Nat /\ e < nfile /\ e < NRanks * config.limit
  BY DEF Wanted, Numbers, config
<1>2. config.limit \in Nat /\ NRanks \in Nat
  BY SizesAssumption, LineTypes DEF config
<1>3. PICK r \in Ranks : Nskip(r, at) <= e /\ e < Nskip(r, at) + config.limit
  BY <1>1, <1>2, EveryEventHasAPlace DEF Ranks, Nskip, config
<1>4. Failed(at, r) => e \in RangeOf(r, at)
  BY <1>3 DEF RangeOf, config
<1>5. ~ Failed(at, r) => e < NextInFile(r)
  BY <1>1, <1>3, RankTypes DEF RangeDone
<1> QED BY <1>3, <1>4, <1>5 DEF Taken, Begun

\* The event a rank takes next from the file is not one that has been taken.
LEMMA NextIsNotTaken ==
  ASSUME TypeOK, at \in Lines, Accepted(config), NEW r \in Ranks, taken[r] < config.limit
  PROVE  ~ Taken(NextInFile(r))
<1> SUFFICES ASSUME NEW p \in Ranks, Begun(p), Nskip(p, at) <= NextInFile(r),
                    NextInFile(r) < NextInFile(p)
             PROVE  FALSE
  BY DEF Taken
<1>1. CASE p = r
  BY <1>1, RankTypes
<1>2. CASE p < r
  <2>1. Nskip(p, at) + config.limit <= Nskip(r, at)
    BY <1>2, RankTypes, Ranges DEF Nskip, config
  <2> QED BY <2>1, RankTypes
<1>3. CASE r < p
  <2>1. Nskip(r, at) + config.limit <= Nskip(p, at)
    BY <1>3, RankTypes, Ranges DEF Nskip, config
  <2> QED BY <2>1, RankTypes
<1>4. p \in Nat /\ r \in Nat
  BY RankTypes
<1>5. p = r \/ p < r \/ r < p
  BY <1>4
<1> QED BY <1>1, <1>2, <1>3, <1>5

\* The places and the events are finitely many.
LEMMA FinitePlaces ==
  ASSUME TypeOK, NEW k \in Lines
  PROVE  /\ IsFiniteSet(Room(k)) /\ Cardinality(Room(k)) = NRanks * script.lines[k].limit
         /\ k = at => IsFiniteSet(Places)
         /\ IsFiniteSet(Handled) /\ IsFiniteSet(Wanted(k)) /\ IsFiniteSet(queue)
<1>1. NRanks \in Nat \ {0} /\ script.lines[k].limit \in Nat /\ MaxEvents \in Nat
  BY SizesAssumption, LineTypes
<1> DEFINE n == script.lines[k].limit
<1> HIDE DEF n
<1>2. /\ IsFiniteSet(Ranks) /\ Cardinality(Ranks) = NRanks
      /\ IsFiniteSet(0..(n - 1)) /\ Cardinality(0..(n - 1)) = n
      /\ IsFiniteSet(Numbers)
  <2>1. ASSUME NEW m \in Nat
        PROVE  IsFiniteSet(0..(m - 1)) /\ Cardinality(0..(m - 1)) = m
    <3>1. 0 \in Int /\ m - 1 \in Int
      OBVIOUS
    <3>2. IsFiniteSet(0..(m - 1)) /\ Cardinality(0..(m - 1)) = IF 0 > m - 1 THEN 0 ELSE (m - 1) - 0 + 1
      BY <3>1, FS_Interval
    <3> QED BY <3>2
  <2>2. n \in Nat
    BY <1>1 DEF n
  <2> QED BY <1>1, <2>1, <2>2 DEF Ranks, Numbers
<1>3. IsFiniteSet(Room(k)) /\ Cardinality(Room(k)) = NRanks * n
  BY <1>2, FS_Product DEF Room, n
<1>4. queue \subseteq Numbers
  BY SizesAssumption DEF TypeOK, Numbers
<1> QED BY <1>2, <1>3, <1>4, FS_Subset DEF Places, Handled, Wanted, n
-------------------------------------------------------------------------------
(* Types *)

\* One more run of an event is counted.
LEMMA OneMoreRun ==
  ASSUME TypeOK, NEW e, processed' = [processed EXCEPT ![e] = @ + 1]
  PROVE  processed' \in [Numbers -> Nat]
<1>1. processed \in [Numbers -> Nat]
  BY DEF TypeOK
<1>2. e \in Numbers => processed[e] + 1 \in Nat
  BY <1>1
<1> QED BY <1>1, <1>2

\* The part of the type invariant about how far the jobs are.
TakenOK ==
  /\ taken \in [Ranks -> Nat]
  /\ at \in Lines /\ Accepted(config) =>
       \A r \in Ranks : pc[r] # "main" => taken[r] <= config.limit

\* A rank that is not at its limit takes one event more.
LEMMA OneMore ==
  ASSUME TypeOK, NEW r \in Ranks, Takes(r)
  PROVE  /\ TakenOK'
         /\ UNCHANGED <<script, at, stopped, nfile, pc, status>>
         /\ taken'[r] = taken[r] + 1 /\ taken[r] \in Nat
         /\ \A p \in Ranks : p # r => taken'[p] = taken[p]
<1>1. /\ taken \in [Ranks -> Nat] /\ pc[r] = "art" /\ taken[r] < config.limit
      /\ taken' = [taken EXCEPT ![r] = @ + 1]
      /\ UNCHANGED <<script, at, stopped, nfile, pc, status>>
      /\ config' = config /\ Lines' = Lines
  BY DEF TypeOK, Takes, config, Lines
<1>2. /\ taken'[r] = taken[r] + 1 /\ taken[r] \in Nat
      /\ \A p \in Ranks : p # r => taken'[p] = taken[p]
      /\ taken' \in [Ranks -> Nat]
  BY <1>1
<1>3. ASSUME at' \in Lines', Accepted(config'), NEW p \in Ranks, pc'[p] # "main"
      PROVE  taken'[p] <= config'.limit
  <2>1. config.limit \in Nat
    BY <1>1, <1>3, LineTypes DEF config
  <2>2. taken[p] <= config.limit
    BY <1>1, <1>3 DEF TypeOK
  <2> QED BY <1>1, <1>2, <2>1, <2>2
<1> QED BY <1>1, <1>2, <1>3 DEF TakenOK, Ranks

\* Every step leaves the types as they are.
LEMMA TypesStep ==
  ASSUME TypeOK, Control, [Next]_vars
  PROVE  TypeOK'
<1>0. /\ Lines = 1..Len(script.lines) /\ Len(script.lines) \in Nat
      /\ NRanks \in Nat \ {0} /\ MaxEvents \in Nat /\ nfile \in Nat
  BY SizesAssumption, LineTypes DEF TypeOK
<1>1. ASSUME NEW r \in Ranks, Reject(r) PROVE TypeOK'
  <2>1. /\ ~ Accepted(config) /\ pc' = [pc EXCEPT ![r] = "exited"]
        /\ status' = [status EXCEPT ![r] = 1] /\ config' = config /\ Lines' = Lines
        /\ UNCHANGED <<script, at, stopped, nfile, taken, queue, processed, lost, failed>>
    BY <1>1 DEF Reject, config, Lines
  <2> QED BY <2>1 DEF TypeOK
<1>2. ASSUME NEW r \in Ranks, Accept(r) PROVE TypeOK'
  <2>1. /\ pc' = [pc EXCEPT ![r] = "art"] /\ taken' = [taken EXCEPT ![r] = 0]
        /\ config' = config /\ Lines' = Lines /\ at' = at
        /\ pc \in [Ranks -> {"main", "art", "exited"}] /\ taken \in [Ranks -> Nat]
    BY <1>2 DEF Accept, config, Lines, TypeOK
  <2>2. ASSUME at' \in Lines', Accepted(config'), NEW p \in Ranks, pc'[p] # "main"
        PROVE  taken'[p] <= config'.limit
    <3>1. config.limit \in Nat
      BY <2>1, <2>2, LineTypes DEF config
    <3>2. CASE p = r
      BY <2>1, <3>1, <3>2
    <3>3. CASE p # r
      BY <2>1, <2>2, <3>3 DEF TypeOK
    <3> QED BY <3>2, <3>3
  <2> QED BY <1>2, <2>1, <2>2 DEF Accept, TypeOK, Ranks
<1>3. ASSUME NEW r \in Ranks, LoadEvent(r) PROVE TypeOK'
  <2>1. Takes(r) /\ NextInFile(r) < nfile /\ queue' = queue \cup {NextInFile(r)}
        /\ pc[r] = "art" /\ UNCHANGED <<processed, lost, failed>>
    BY <1>3 DEF LoadEvent, Takes
  <2>2. at \in Lines
    BY <2>1 DEF Control, Running
  <2>3. NextInFile(r) \in Nat
    BY <2>2, RankTypes
  <2>4. NextInFile(r) \in 0..(nfile - 1)
    BY <1>0, <2>1, <2>3
  <2>5. TakenOK' /\ UNCHANGED <<script, at, stopped, nfile, pc, status>>
    BY <2>1, OneMore
  <2> QED BY <2>1, <2>4, <2>5 DEF TypeOK, TakenOK, Lines
<1>4. ASSUME NEW r \in Ranks, ProcessEvent(r) PROVE TypeOK'
  <2>1. PICK e \in queue : /\ queue' = queue \ {e}
                           /\ processed' = [processed EXCEPT ![e] = @ + 1]
    BY <1>4 DEF ProcessEvent
  <2>2. processed' \in [Numbers -> Nat]
    BY <2>1, OneMoreRun
  <2>3. TakenOK' /\ UNCHANGED <<script, at, stopped, nfile, pc, status>>
    BY <1>4, OneMore DEF ProcessEvent
  <2> QED BY <1>4, <2>1, <2>2, <2>3 DEF ProcessEvent, TypeOK, TakenOK, Numbers, Lines
<1>5. ASSUME NEW r \in Ranks, ProcessFromFile(r) PROVE TypeOK'
  <2>1. processed' \in [Numbers -> Nat]
    BY <1>5, OneMoreRun DEF ProcessFromFile
  <2>2. TakenOK' /\ UNCHANGED <<script, at, stopped, nfile, pc, status>>
    BY <1>5, OneMore DEF ProcessFromFile
  <2> QED BY <1>5, <2>1, <2>2 DEF ProcessFromFile, TypeOK, TakenOK, Numbers, Lines
<1>6. ASSUME NEW r \in Ranks, ArtEnds(r) PROVE TypeOK'
  <2>1. /\ pc' = [pc EXCEPT ![r] = "exited"] /\ status' = [status EXCEPT ![r] = 0]
        /\ pc[r] = "art"
        /\ UNCHANGED <<script, at, stopped, nfile, taken, queue, processed, lost, failed>>
    BY <1>6 DEF ArtEnds
  <2> QED BY <2>1 DEF TypeOK, config, Lines
<1>7. ASSUME NEW r \in Ranks, ArtFails(r) PROVE TypeOK'
  <2>1. /\ pc' = [pc EXCEPT ![r] = "exited"] /\ pc[r] = "art"
        /\ \E wait \in WaitStatuses :
             /\ status' = [status EXCEPT ![r] = ReturnedStatus(wait)]
             /\ failed' = failed \cup {<<at, r, wait>>}
        /\ UNCHANGED <<script, at, stopped, nfile, taken, processed>>
    BY <1>7 DEF ArtFails
  <2>2. \A wait \in WaitStatuses : ReturnedStatus(wait) \in 0..255
    <3>1. \A wait \in WaitStatuses : wait % 256 \in {0, 11}
      BY 256 % 256 = 0, 11 % 256 = 11 DEF WaitStatuses, ExitCode1, Signal11
    <3>2. \A wait \in WaitStatuses : ReturnedStatus(wait) \in {0, 11}
      BY <3>1, Zenon DEF ReturnedStatus
    <3> QED BY <3>2
  <2>3. status' \in [Ranks -> 0..255]
    <3>1. PICK wait \in WaitStatuses : status' = [status EXCEPT ![r] = ReturnedStatus(wait)]
      BY <2>1
    <3>2. ReturnedStatus(wait) \in 0..255 /\ status \in [Ranks -> 0..255]
      BY <2>2 DEF TypeOK
    <3> QED BY <3>1, <3>2
  <2>4. failed' \subseteq Lines' \X Ranks \X WaitStatuses
    BY <2>1 DEF TypeOK, Control, Running, Lines
  <2>5. queue' \subseteq 0..(nfile' - 1) /\ lost' \subseteq 0..(nfile' - 1)
    <3>1. \/ \E e \in queue : queue' = queue \ {e} /\ lost' = lost \cup {e}
          \/ UNCHANGED <<queue, lost>>
      BY <1>7 DEF ArtFails
    <3> QED BY <2>1, <3>1 DEF TypeOK
  <2> QED BY <2>1, <2>3, <2>4, <2>5 DEF TypeOK, config, Lines
<1>8. ASSUME NextCommand PROVE TypeOK'
  <2>1. /\ at \in Lines /\ script' = script /\ Lines' = Lines
        /\ UNCHANGED <<nfile, status, taken, queue, processed, lost, failed>>
        /\ \/ stopped' = TRUE /\ UNCHANGED <<at, pc>>
           \/ at' = at + 1 /\ pc' = [r \in Ranks |-> "main"] /\ UNCHANGED stopped
    BY <1>8 DEF NextCommand, Running, Lines
  <2>2. at' \in 1..(Len(script.lines) + 1)
    BY <1>0, <2>1
  <2>3. CASE stopped' = TRUE /\ UNCHANGED <<at, pc>>
    BY <2>1, <2>2, <2>3 DEF TypeOK, config, Lines
  <2>4. CASE at' = at + 1 /\ pc' = [r \in Ranks |-> "main"] /\ UNCHANGED stopped
    BY <2>1, <2>2, <2>4 DEF TypeOK, Ranks
  <2> QED BY <2>1, <2>3, <2>4
<1>9. ASSUME UNCHANGED vars PROVE TypeOK'
  BY <1>9 DEF vars, TypeOK, config, Lines
<1> QED BY <1>1, <1>2, <1>3, <1>4, <1>5, <1>6, <1>7, <1>8, <1>9 DEF Next, RankStep, Terminated

-------------------------------------------------------------------------------
(* Control *)

\* No step of a rank is one of the script.
LEMMA RankFrame ==
  ASSUME NEW r \in Ranks, RankStep(r)
  PROVE  UNCHANGED <<script, at, stopped, nfile>>
BY DEF RankStep, Reject, Accept, LoadEvent, ProcessEvent, ProcessFromFile, ArtEnds, ArtFails, Takes

\* What only depends on the script and the file stays while they do.
LEMMA ScriptFrame ==
  ASSUME UNCHANGED <<script, at, stopped, nfile>>
  PROVE  /\ config' = config /\ Lines' = Lines /\ Running' = Running
         /\ Now' = Now /\ ProcNow' = ProcNow
         /\ \A k : Ran(k)' = Ran(k) /\ Past(k)' = Past(k) /\ Wanted(k)' = Wanted(k)
         /\ \A k : Room(k)' = Room(k)
         /\ \A k, j : Processed(k, j)' = Processed(k, j)
         /\ \A r, k : Nskip(r, k)' = Nskip(r, k) /\ RangeOf(r, k)' = RangeOf(r, k)
<1>1. config' = config /\ Lines' = Lines /\ Running' = Running
  BY DEF config, Lines, Running
<1>2. \A k : Ran(k)' = Ran(k) /\ Wanted(k)' = Wanted(k) /\ Room(k)' = Room(k)
  BY <1>1 DEF Ran, Wanted, Numbers, Ranks, Room
<1>3. \A r, k : Nskip(r, k)' = Nskip(r, k)
  BY DEF Nskip
<1> QED BY <1>1, <1>2, <1>3 DEF Now, ProcNow, Past, Processed, RangeOf

\* The jobs that run are those of the current command.
LEMMA ControlStep ==
  ASSUME TypeOK, Control, [Next]_vars
  PROVE  Control'
<1>1. ASSUME NEW r \in Ranks, RankStep(r)
      PROVE  Control'
  <2>1. \A p \in Ranks : pc'[p] = "art" => pc[p] = "art" \/ Accept(r)
    BY <1>1 DEF TypeOK, RankStep, Reject, Accept, LoadEvent, ProcessEvent, ProcessFromFile,
                ArtEnds, ArtFails, Takes
  <2>2. Accept(r) => Running /\ Accepted(config)
    BY DEF Accept
  <2> QED BY <1>1, <2>1, <2>2, RankFrame, ScriptFrame DEF Control, Ranks
<1>2. CASE NextCommand
  <2>1. at \in Lines /\ Lines' = Lines /\ \A r \in Ranks : pc[r] = "exited"
    BY <1>2 DEF NextCommand, Running, Lines
  <2>2. CASE stopped' = TRUE /\ UNCHANGED <<at, pc>>
    BY <2>1, <2>2 DEF Control, Ranks
  <2>3. CASE at' = at + 1 /\ pc' = [r \in Ranks |-> "main"] /\ UNCHANGED stopped
    <3>1. ~ stopped'
      BY <1>2, <2>3 DEF NextCommand, Running
    <3> QED BY <2>3, <3>1 DEF Control, Ranks
  <2> QED BY <1>2, <2>2, <2>3 DEF NextCommand
<1>3. CASE UNCHANGED vars
  <2>1. UNCHANGED <<script, at, stopped, nfile>> /\ pc' = pc
    BY <1>3 DEF vars
  <2> QED BY <2>1, ScriptFrame DEF Control, Ranks
<1> QED BY <1>1, <1>2, <1>3 DEF Next, Terminated
-------------------------------------------------------------------------------
(* The steps of a rank that move no event *)

\* What is said of the events stays while they do.
LEMMA EventsFrame ==
  ASSUME UNCHANGED <<script, at, stopped, nfile, queue, processed, lost, failed>>
  PROVE  /\ Handled' = Handled /\ Untouched' = Untouched
         /\ Before => Before'
         /\ After => After'
         /\ Each => Each'
         /\ NothingLost => NothingLost'
         /\ \A j : CountsAfter(j)' = CountsAfter(j)
<1>1. /\ Lines' = Lines /\ Now' = Now
      /\ \A k : Past(k)' = Past(k) /\ Wanted(k)' = Wanted(k)
      /\ \A r, k : RangeOf(r, k)' = RangeOf(r, k)
  BY ScriptFrame
<1>2. \A e, k : Accounted(e, k)' = Accounted(e, k)
  BY <1>1 DEF Accounted, Failed, Ranks
<1>3. \A e : Once(e)' = Once(e)
  BY DEF Once
<1>4. Handled' = Handled /\ Untouched' = Untouched
  BY DEF Handled, Untouched, Numbers
<1>5. After => After'
  BY <1>1, <1>2 DEF After, Numbers
<1>6. \A j : CountsAfter(j)' = CountsAfter(j)
  BY <1>4 DEF CountsAfter
<1> QED BY <1>1, <1>3, <1>4, <1>5, <1>6 DEF Before, Each, NothingLost, Numbers

\* It is enough to look at the events and the places of the jobs that run.
LEMMA QuietStep ==
  ASSUME Events, Counting, Reading', CountsNow => CountsNow',
         UNCHANGED <<script, at, stopped, nfile, queue, processed, lost, failed>>
  PROVE  Events' /\ Counting'
<1>1. Events'
  BY EventsFrame DEF Events
<1>2. ASSUME NEW k \in Lines', Counts(k)
      PROVE  Counts(k)'
  <2> SUFFICES ASSUME failed = {} /\ Past(k) /\ Loading(script.lines[k])
               PROVE  /\ CountsNow'
                      /\ \A j \in Lines : Processed(k, j) => CountsAfter(j)
                      /\ ProcNow \/ (\E j \in Lines : Processed(k, j)) \/ Handled = {}
    BY ScriptFrame, EventsFrame DEF Counts
  <2> QED BY <1>2 DEF Counts
<1>3. Lines' = Lines
  BY ScriptFrame
<1> QED BY <1>1, <1>2, <1>3 DEF Counting

\* A rank that refuses its command line changes nothing.
LEMMA RejectStep ==
  ASSUME TypeOK, Control, Events, Counting, NEW r \in Ranks, Reject(r)
  PROVE  Events' /\ Counting'
<1>1. /\ UNCHANGED <<script, at, stopped, nfile, queue, processed, lost, failed>>
      /\ ~ Accepted(config) /\ Running
  BY DEF Reject
<1>2. ~ Now /\ ~ ProcNow
  <2>1. config \in CommandLines
    BY <1>1, LineTypes DEF Running, config
  <2> QED BY <1>1, <2>1, Kinds DEF Now, ProcNow, ReadsFile
<1>3. Reading' /\ CountsNow'
  BY <1>1, <1>2, ScriptFrame DEF Reading, CountsNow
<1> QED BY <1>1, <1>3, QuietStep

\* A rank that begins has taken nothing.
LEMMA AcceptStep ==
  ASSUME TypeOK, Control, Events, Counting, NEW r \in Ranks, Accept(r)
  PROVE  Events' /\ Counting'
<1>1. /\ UNCHANGED <<script, at, stopped, nfile, queue, processed, lost, failed>>
      /\ Accepted(config) /\ at \in Lines
      /\ pc[r] = "main" /\ pc' = [pc EXCEPT ![r] = "art"] /\ taken' = [taken EXCEPT ![r] = 0]
      /\ pc \in [Ranks -> {"main", "art", "exited"}] /\ taken \in [Ranks -> Nat]
  BY DEF Accept, Running, TypeOK
<1>2. /\ ~ Begun(r) /\ Begun(r)' /\ taken'[r] = 0 /\ pc'[r] = "art"
      /\ \A p \in Ranks \ {r} :
           Begun(p)' = Begun(p) /\ taken'[p] = taken[p] /\ pc'[p] = pc[p]
  BY <1>1 DEF Begun
<1>3. /\ config' = config /\ Now' = Now /\ ProcNow' = ProcNow /\ Room(at)' = Room(at)
      /\ \A p \in Ranks : Nskip(p, at)' = Nskip(p, at)
  BY <1>1, ScriptFrame
<1>4. /\ NextInFile(r)' = Nskip(r, at)
      /\ \A p \in Ranks \ {r} : NextInFile(p)' = NextInFile(p) /\ RangeDone(p)' = RangeDone(p)
  <2>1. Nskip(r, at) \in Nat
    BY <1>1, RankTypes
  <2>2. NextInFile(r)' = Nskip(r, at) + 0
    BY <1>2, <1>3 DEF NextInFile
  <2>3. \A p \in Ranks \ {r} : NextInFile(p)' = NextInFile(p)
    BY <1>2, <1>3 DEF NextInFile
  <2> QED BY <1>1, <1>2, <1>3, <2>1, <2>2, <2>3 DEF RangeDone, Failed
<1>5. \A e \in Numbers : Taken(e)' <=> Taken(e)
  <2> SUFFICES ASSUME NEW e \in Numbers PROVE Taken(e)' <=> Taken(e)
    OBVIOUS
  <2>1. e \in Int /\ Nskip(r, at) \in Nat
    BY <1>1, RankTypes DEF Numbers
  <2>2. ~ (Nskip(r, at)' <= e /\ e < NextInFile(r)')
    BY <1>3, <1>4, <2>1
  <2> QED BY <1>2, <1>3, <1>4, <2>2 DEF Taken, Ranks
<1>6. Places' = Places
  <2>1. \A n \in 0..(config.limit - 1) : ~ (n < 0)
    OBVIOUS
  <2>2. \A s \in Room(at) : s[1] \in Ranks /\ s[2] \in 0..(config.limit - 1)
    BY DEF Room, config
  <2> QED BY <1>2, <1>3, <2>1, <2>2 DEF Places
<1>7. LoadInv => LoadInv'
  BY <1>1, <1>2, <1>4, <1>5 DEF LoadInv, Ranks, Numbers
<1>8. FileInv => FileInv'
  <2> SUFFICES ASSUME FileInv PROVE FileInv'
    OBVIOUS
  <2>1. queue' = {} /\ lost' = {} /\ \A e \in Numbers : processed'[e] = IF Taken(e)' THEN 1 ELSE 0
    BY <1>1, <1>5 DEF FileInv
  <2>2. \A p \in Ranks : Begun(p)' => taken'[p] = 0 \/ NextInFile(p)' <= nfile'
    BY <1>1, <1>2, <1>4 DEF FileInv
  <2>3. \A p \in Ranks : pc'[p] = "exited" => RangeDone(p)'
    BY <1>2, <1>4 DEF FileInv
  <2> QED BY <2>1, <2>2, <2>3 DEF FileInv, Ranks, Numbers
<1>9. Reading'
  BY <1>3, <1>7, <1>8 DEF Reading, Events
<1>10. CountsNow => CountsNow'
  <2> SUFFICES ASSUME CountsNow, ProcNow
               PROVE  /\ Cardinality(Places) = Cardinality(Handled)
                      /\ \A p \in Ranks : pc'[p] = "exited" => taken'[p] = config.limit \/ queue = {}
    BY <1>1, <1>3, <1>6, EventsFrame DEF CountsNow, Ranks
  <2> QED BY <1>2 DEF CountsNow
<1> QED BY <1>1, <1>9, <1>10, QuietStep

\* A job ends at its limit, at the end of its file or with the queue empty.
LEMMA EndStep ==
  ASSUME TypeOK, Control, Events, Counting, NEW r \in Ranks, ArtEnds(r)
  PROVE  Events' /\ Counting'
<1>1. /\ pc[r] = "art" /\ pc' = [pc EXCEPT ![r] = "exited"]
      /\ \/ taken[r] = config.limit
         \/ IF Processing(config) THEN queue = {} ELSE NextInFile(r) >= nfile
      /\ UNCHANGED <<script, at, stopped, nfile, taken, queue, processed, lost, failed>>
  BY DEF ArtEnds
<1>2. /\ config' = config /\ Now' = Now /\ ProcNow' = ProcNow /\ Room(at)' = Room(at)
      /\ \A p \in Ranks : Nskip(p, at)' = Nskip(p, at)
  BY <1>1, ScriptFrame
<1>3. \A p \in Ranks : /\ Begun(p)' = Begun(p) /\ (p # r => pc'[p] = pc[p])
                       /\ NextInFile(p)' = NextInFile(p) /\ RangeDone(p)' = RangeDone(p)
  <2>1. \A p \in Ranks : /\ Begun(p)' = Begun(p) /\ (p # r => pc'[p] = pc[p])
                         /\ NextInFile(p)' = NextInFile(p)
    BY <1>1, <1>2 DEF Begun, NextInFile, TypeOK
  <2>2. \A p \in Ranks : Failed(at, p)' = Failed(at, p)
    BY <1>1 DEF Failed
  <2> QED BY <1>1, <1>2, <2>1, <2>2 DEF RangeDone
<1>4. (\A e \in Numbers : Taken(e)' <=> Taken(e)) /\ Places' = Places
  <2>1. \A e \in Numbers : Taken(e)' <=> Taken(e)
    BY <1>1, <1>2, <1>3 DEF Taken, Ranks
  <2>2. \A s \in Room(at) : s[1] \in Ranks
    BY DEF Room
  <2> QED BY <1>1, <1>2, <1>3, <2>1, <2>2 DEF Places
<1>5. Reading'
  <2>1. ASSUME Now PROVE RangeDone(r)
    BY <1>1, <2>1, RunningJob DEF RangeDone
  <2>2. ASSUME Now, LoadInv PROVE LoadInv'
    BY <1>1, <1>3, <1>4, <2>1, <2>2 DEF LoadInv, Ranks, Numbers
  <2>3. ASSUME Now, FileInv PROVE FileInv'
    BY <1>1, <1>3, <1>4, <2>1, <2>3 DEF FileInv, Ranks, Numbers
  <2> QED BY <1>2, <2>2, <2>3 DEF Events, Reading
<1>6. CountsNow => CountsNow'
  <2> SUFFICES ASSUME CountsNow, ProcNow
               PROVE  /\ Cardinality(Places) = Cardinality(Handled)
                      /\ \A p \in Ranks : pc'[p] = "exited" => taken[p] = config.limit \/ queue = {}
    BY <1>1, <1>2, <1>4, EventsFrame DEF CountsNow, Ranks
  <2>1. taken[r] = config.limit \/ queue = {}
    BY <1>1 DEF ProcNow
  <2> QED BY <1>3, <2>1 DEF CountsNow
<1> QED BY <1>1, <1>5, <1>6, QuietStep
-------------------------------------------------------------------------------
(* The steps of a rank that take an event *)

\* A rank that takes an event leaves the others, and the end of their jobs, alone.
LEMMA OthersStay ==
  ASSUME TypeOK, NEW r \in Ranks, Takes(r), UNCHANGED failed, NEW p \in Ranks, p # r
  PROVE  /\ taken'[p] = taken[p] /\ Begun(p)' = Begun(p)
         /\ NextInFile(p)' = NextInFile(p) /\ RangeDone(p)' = RangeDone(p)
<1>1. taken'[p] = taken[p] /\ UNCHANGED <<script, at, stopped, nfile, pc, status>>
  BY OneMore
<1>2. config' = config /\ Nskip(p, at)' = Nskip(p, at)
  BY <1>1, ScriptFrame
<1>3. NextInFile(p)' = NextInFile(p)
  BY <1>1, <1>2 DEF NextInFile
<1> QED BY <1>1, <1>2, <1>3 DEF RangeDone, Failed, Begun

\* A rank that takes the next event of its range adds it to those taken.
LEMMA TakesNext ==
  ASSUME TypeOK, at \in Lines, NEW r \in Ranks, Takes(r), NEW e \in Numbers
  PROVE  Taken(e)' <=> Taken(e) \/ e = NextInFile(r)
<1>1. /\ \A p \in Ranks : Begun(p)' = Begun(p) /\ Nskip(p, at)' = Nskip(p, at)
      /\ \A p \in Ranks : p # r => taken'[p] = taken[p]
      /\ taken'[r] = taken[r] + 1 /\ taken[r] \in Nat /\ at' = at
  <2>1. UNCHANGED <<script, at, stopped, nfile, pc, status>>
    BY OneMore
  <2> QED BY <2>1, OneMore, ScriptFrame DEF Begun
<1>2. \A p \in Ranks : p # r => NextInFile(p)' = NextInFile(p)
  BY <1>1 DEF NextInFile
<1>3. NextInFile(r)' = NextInFile(r) + 1
  <2>1. Nskip(r, at) \in Nat
    BY RankTypes
  <2>2. NextInFile(r)' = Nskip(r, at) + taken[r]'
    BY <1>1 DEF NextInFile
  <2> QED BY <1>1, <2>1, <2>2 DEF NextInFile
<1>4. /\ e \in Int /\ Begun(r) /\ Nskip(r, at) <= NextInFile(r)
      /\ Nskip(r, at) \in Nat /\ NextInFile(r) \in Nat
  BY RankTypes DEF Numbers, Begun, Takes
<1>5. Taken(e)' => Taken(e) \/ e = NextInFile(r)
  <2> SUFFICES ASSUME NEW p \in Ranks, Begun(p)', Nskip(p, at)' <= e, e < NextInFile(p)',
                      e # NextInFile(r)
               PROVE  Taken(e)
    BY DEF Taken, Ranks
  <2>1. e < NextInFile(p)
    BY <1>2, <1>3, <1>4
  <2> QED BY <1>1, <2>1 DEF Taken
<1>6. Taken(e) => Taken(e)'
  <2> SUFFICES ASSUME NEW p \in Ranks, Begun(p), Nskip(p, at) <= e, e < NextInFile(p)
               PROVE  Taken(e)'
    BY DEF Taken
  <2>1. e < NextInFile(p)'
    BY <1>2, <1>3, <1>4
  <2> QED BY <1>1, <2>1 DEF Taken, Ranks
<1>7. e = NextInFile(r) => Taken(e)'
  BY <1>1, <1>3, <1>4 DEF Taken, Ranks
<1> QED BY <1>5, <1>6, <1>7

\* While the file is read nothing has been read before.
LEMMA FirstReading ==
  ASSUME TypeOK, Control, NEW r \in Ranks, Takes(r), ReadsFile(config), Reading',
         Each', NothingLost'
  PROVE  Events' /\ Counting'
<1>1. UNCHANGED <<script, at, stopped, nfile>> /\ pc[r] = "art"
  BY DEF Takes
<1>2. Now /\ \A k \in Lines : ~ Past(k)
  BY <1>1, RunningJob DEF ReadsFile
<1>3. Now' /\ Lines' = Lines /\ \A k \in Lines : ~ Past(k)'
  BY <1>1, <1>2, ScriptFrame
<1> QED BY <1>3 DEF Events, Counting, Counts, Before, After

\* An event loaded is an event on the queue.
LEMMA LoadStep ==
  ASSUME TypeOK, Control, Events, NEW r \in Ranks, LoadEvent(r)
  PROVE  Events' /\ Counting'
<1>1. /\ Takes(r) /\ pc[r] = "art" /\ taken[r] < config.limit
      /\ Loading(config) /\ NextInFile(r) < nfile
      /\ queue' = queue \cup {NextInFile(r)} /\ UNCHANGED <<processed, lost, failed, pc>>
  BY DEF LoadEvent, Takes
<1>2. at \in Lines /\ Accepted(config) /\ Now /\ ~ FromFile(config) /\ LoadInv
  BY <1>1, RunningJob DEF Events, Reading
<1>3. \A e \in Numbers : e \in queue' <=> Taken(e)'
  BY <1>1, <1>2, TakesNext DEF LoadInv
<1>4. \A p \in Ranks : pc'[p] = "exited" => RangeDone(p)'
  <2> SUFFICES ASSUME NEW p \in Ranks, pc[p] = "exited" PROVE RangeDone(p)'
    BY <1>1
  <2>1. p # r
    BY <1>1
  <2> QED BY <1>1, <1>2, <2>1, OthersStay DEF LoadInv
<1>5. LoadInv'
  BY <1>1, <1>2, <1>3, <1>4 DEF LoadInv, Ranks, Numbers
<1>6. Reading'
  <2>1. config' = config
    BY <1>1 DEF Takes, config
  <2> QED BY <1>2, <1>5, <2>1 DEF Reading
<1>7. Each' /\ NothingLost'
  BY <1>5 DEF LoadInv, Each, Once, NothingLost, Numbers
<1> QED BY <1>1, <1>6, <1>7, FirstReading DEF ReadsFile

\* An event of the file is processed by the one rank in whose range it is.
LEMMA FileStep ==
  ASSUME TypeOK, Control, Events, NEW r \in Ranks, ProcessFromFile(r)
  PROVE  Events' /\ Counting'
<1>1. /\ Takes(r) /\ pc[r] = "art" /\ taken[r] < config.limit
      /\ FromFile(config) /\ NextInFile(r) < nfile
      /\ processed' = [processed EXCEPT ![NextInFile(r)] = @ + 1]
      /\ UNCHANGED <<queue, lost, failed, pc, script, at, stopped, nfile>>
  BY DEF ProcessFromFile, Takes
<1>2. at \in Lines /\ Accepted(config) /\ Now /\ ~ Loading(config) /\ FileInv
  BY <1>1, RunningJob DEF Events, Reading
<1>3. NextInFile(r) \in Numbers /\ ~ Taken(NextInFile(r))
  <2>1. NextInFile(r) \in Nat /\ nfile \in Nat /\ nfile <= MaxEvents /\ MaxEvents \in Nat
    BY <1>2, RankTypes
  <2>2. NextInFile(r) \in 0..(MaxEvents - 1)
    BY <1>1, <2>1
  <2> QED BY <1>1, <1>2, <2>2, NextIsNotTaken DEF Numbers
<1>4. \A e \in Numbers : processed'[e] = IF Taken(e)' THEN 1 ELSE 0
  <2> SUFFICES ASSUME NEW e \in Numbers
               PROVE  processed'[e] = IF Taken(e)' THEN 1 ELSE 0
    OBVIOUS
  <2>1. Taken(e)' <=> Taken(e) \/ e = NextInFile(r)
    BY <1>1, <1>2, TakesNext
  <2>2. processed[e] = IF Taken(e) THEN 1 ELSE 0
    BY <1>2 DEF FileInv
  <2>3. processed'[e] = IF e = NextInFile(r) THEN processed[e] + 1 ELSE processed[e]
    BY <1>1 DEF TypeOK
  <2>4. CASE e = NextInFile(r)
    BY <1>3, <2>1, <2>2, <2>3, <2>4
  <2>5. CASE e # NextInFile(r)
    BY <2>1, <2>2, <2>3, <2>5
  <2> QED BY <2>4, <2>5
<1>5. \A p \in Ranks : Begun(p)' => taken'[p] = 0 \/ NextInFile(p)' <= nfile'
  <2> SUFFICES ASSUME NEW p \in Ranks, Begun(p)'
               PROVE  taken'[p] = 0 \/ NextInFile(p)' <= nfile
    BY <1>1
  <2>1. CASE p = r
    <3>1. taken'[r] = taken[r] + 1 /\ taken[r] \in Nat /\ Nskip(r, at)' = Nskip(r, at)
      BY <1>1, OneMore, ScriptFrame
    <3>2. Nskip(r, at) \in Nat /\ nfile \in Nat /\ NextInFile(r) \in Nat
      BY <1>2, RankTypes
    <3>3. NextInFile(r)' = NextInFile(r) + 1
      BY <3>1, <3>2 DEF NextInFile
    <3> QED BY <1>1, <2>1, <3>2, <3>3
  <2>2. CASE p # r
    BY <1>1, <1>2, <2>2, OthersStay DEF FileInv
  <2> QED BY <2>1, <2>2
<1>6. \A p \in Ranks : pc'[p] = "exited" => RangeDone(p)'
  <2> SUFFICES ASSUME NEW p \in Ranks, pc[p] = "exited" PROVE RangeDone(p)'
    BY <1>1
  <2>1. p # r
    BY <1>1
  <2> QED BY <1>1, <1>2, <2>1, OthersStay DEF FileInv
<1>7. queue' = {} /\ lost' = {}
  BY <1>1, <1>2 DEF FileInv
<1>8. FileInv'
  BY <1>4, <1>5, <1>6, <1>7 DEF FileInv, Ranks, Numbers
<1>9. Reading'
  <2>1. config' = config
    BY <1>1 DEF config
  <2> QED BY <1>2, <1>8, <2>1 DEF Reading
<1>10. Each' /\ NothingLost'
  BY <1>8 DEF FileInv, Each, Once, NothingLost, Numbers
<1> QED BY <1>1, <1>9, <1>10, FirstReading DEF ReadsFile

\* What a job that reads the queue may rely on.
LEMMA QueueIsAccountedFor ==
  ASSUME TypeOK, Control, Events, NEW r \in Ranks, pc[r] = "art", Processing(config),
         NEW e \in queue
  PROVE  /\ e \in Numbers /\ processed[e] = 0 /\ e \notin lost
         /\ ProcNow /\ ~ Now /\ at \in Lines /\ \E k \in Lines : Past(k)
         /\ \A k \in Lines : Past(k) => e \in Wanted(k) /\ ~ FromFile(script.lines[k])
<1>1. e \in Numbers
  BY SizesAssumption DEF TypeOK, Numbers
<1>2. processed[e] = 0 /\ e \notin lost
  BY <1>1 DEF Events, Each, Once
<1>3. ProcNow /\ ~ Now /\ at \in Lines
  BY RunningJob
<1>4. \E k \in Lines : Past(k)
  BY <1>3 DEF Events, Before, Untouched
<1>5. \A k \in Lines : Past(k) => e \in Wanted(k) /\ ~ FromFile(script.lines[k])
  BY <1>1 DEF Events, After, Accounted
<1> QED BY <1>1, <1>2, <1>3, <1>4, <1>5

\* An event taken from the queue is processed or lost.
LEMMA QueueStep ==
  ASSUME TypeOK, Control, Events, NEW r \in Ranks, pc[r] = "art", Processing(config),
         NEW e \in queue, queue' = queue \ {e}, failed \subseteq failed',
         UNCHANGED <<script, at, stopped, nfile>>,
         \/ processed' = [processed EXCEPT ![e] = @ + 1] /\ UNCHANGED <<lost, failed>>
         \/ lost' = lost \cup {e} /\ UNCHANGED processed /\ failed' # {}
  PROVE  Events'
<1>1. /\ e \in Numbers /\ processed[e] = 0 /\ e \notin lost
      /\ ProcNow /\ ~ Now /\ \E k \in Lines : Past(k)
      /\ \A k \in Lines : Past(k) => e \in Wanted(k) /\ ~ FromFile(script.lines[k])
  BY QueueIsAccountedFor
<1>2. /\ Lines' = Lines /\ Now' = Now /\ \A k : Past(k)' = Past(k) /\ Wanted(k)' = Wanted(k)
      /\ \A p, k : RangeOf(p, k)' = RangeOf(p, k)
  BY ScriptFrame
<1>3. /\ \/ processed'[e] = 1 /\ lost' = lost
         \/ processed'[e] = 0 /\ lost' = lost \cup {e}
      /\ \A d \in Numbers : d # e => processed'[d] = processed[d]
  BY <1>1 DEF TypeOK
<1>4. Each'
  <2> SUFFICES ASSUME NEW d \in Numbers, Once(d) PROVE Once(d)'
    BY DEF Events, Each, Numbers
  <2> QED BY <1>1, <1>3 DEF Once
<1>5. After'
  <2> SUFFICES ASSUME NEW k \in Lines, Past(k), NEW d \in Numbers, Accounted(d, k)
               PROVE  Accounted(d, k)'
    BY <1>1, <1>2 DEF Events, After, Numbers
  <2>1. CASE d = e
    BY <1>1, <1>2, <1>3, <2>1 DEF Accounted, Failed
  <2>2. CASE d # e
    BY <1>2, <1>3, <2>2 DEF Accounted, Failed, Ranks
  <2> QED BY <2>1, <2>2
<1>6. Before' /\ Reading'
  BY <1>1, <1>2 DEF Before, Reading
<1>7. NothingLost'
  BY DEF NothingLost, Events
<1> QED BY <1>4, <1>5, <1>6, <1>7 DEF Events

\* An event of the queue processed is one place of the limit of a rank used up.
LEMMA CountStep ==
  ASSUME TypeOK, NEW r \in Ranks, Takes(r), ProcNow, NEW e \in queue, processed[e] = 0,
         queue' = queue \ {e}, processed' = [processed EXCEPT ![e] = @ + 1],
         UNCHANGED failed, CountsNow
  PROVE  CountsNow'
<1>1. /\ pc[r] = "art" /\ taken[r] < config.limit
      /\ UNCHANGED <<script, at, stopped, nfile, pc>>
      /\ taken'[r] = taken[r] + 1 /\ taken[r] \in Nat
      /\ \A p \in Ranks : p # r => taken'[p] = taken[p]
  BY OneMore DEF Takes
<1>2. config' = config /\ Room(at)' = Room(at) /\ at \in Lines /\ config.limit \in Nat
  BY <1>1, ScriptFrame, LineTypes DEF ProcNow, Running, config
<1>3. Handled' = Handled \cup {e} /\ e \notin Handled
  <2>1. e \in Numbers
    BY SizesAssumption DEF TypeOK, Numbers
  <2>2. processed'[e] = 1 /\ \A d \in Numbers \ {e} : processed'[d] = processed[d]
    BY <2>1 DEF TypeOK
  <2>3. Handled' = {d \in Numbers : processed'[d] = 1}
    BY DEF Handled, Numbers
  <2> QED BY <2>1, <2>2, <2>3 DEF Handled
<1>4. Places' = Places \cup {<<r, taken[r]>>} /\ <<r, taken[r]>> \notin Places
  <2>1. taken[r] \in 0..(config.limit - 1) /\ Begun(r)
    BY <1>1, <1>2 DEF Begun
  <2>2. Places' = {s \in Room(at) : Begun(s[1]) /\ s[2] < taken'[s[1]]}
    BY <1>1, <1>2 DEF Places, Begun
  <2>3. ASSUME NEW p \in Ranks, NEW n \in 0..(config.limit - 1)
        PROVE  (Begun(p) /\ n < taken'[p]) <=>
                 (Begun(p) /\ n < taken[p]) \/ (p = r /\ n = taken[r])
    <3>1. CASE p = r
      BY <1>1, <2>1, <3>1
    <3>2. CASE p # r
      BY <1>1, <3>2
    <3> QED BY <3>1, <3>2
  <2>4. <<r, taken[r]>> \notin Places
    BY <1>1 DEF Places
  <2>5. Room(at) = Ranks \X (0..(config.limit - 1))
    BY DEF Room, config
  <2>6. Places' = Places \cup {<<r, taken[r]>>}
    BY <2>1, <2>2, <2>3, <2>5 DEF Places
  <2> QED BY <2>4, <2>6
<1>5. IsFiniteSet(Places) /\ IsFiniteSet(Handled)
  BY <1>2, FinitePlaces
<1>6. Cardinality(Places') = Cardinality(Handled')
  <2>1. /\ Cardinality(Places \cup {<<r, taken[r]>>}) = Cardinality(Places) + 1
        /\ Cardinality(Handled \cup {e}) = Cardinality(Handled) + 1
    BY <1>3, <1>4, <1>5, FS_AddElement
  <2> QED BY <1>3, <1>4, <2>1 DEF CountsNow
<1>7. \A p \in Ranks : pc'[p] = "exited" => taken'[p] = config.limit
  <2> SUFFICES ASSUME NEW p \in Ranks, pc[p] = "exited" PROVE taken'[p] = config.limit
    BY <1>1
  <2> QED BY <1>1 DEF CountsNow
<1> QED BY <1>2, <1>6, <1>7 DEF CountsNow, Ranks

LEMMA ProcessStep ==
  ASSUME TypeOK, Control, Events, Counting, NEW r \in Ranks, ProcessEvent(r)
  PROVE  Events' /\ Counting'
<1>1. PICK e \in queue : queue' = queue \ {e} /\ processed' = [processed EXCEPT ![e] = @ + 1]
  BY DEF ProcessEvent
<1>2. /\ Takes(r) /\ pc[r] = "art" /\ Processing(config)
      /\ UNCHANGED <<script, at, stopped, nfile, lost, failed>>
  BY DEF ProcessEvent, Takes
<1>3. Events'
  BY <1>1, <1>2, QueueStep
<1>4. /\ ProcNow /\ processed[e] = 0
      /\ \A j \in Lines : ~ (Ran(j) /\ Processing(script.lines[j]))
  BY <1>2, RunningJob, QueueIsAccountedFor
<1>5. /\ ProcNow' /\ Lines' = Lines /\ script' = script
      /\ \A k, j : Processed(k, j)' = Processed(k, j) /\ Past(k)' = Past(k)
  BY <1>2, <1>4, ScriptFrame
<1>6. \A k, j \in Lines : ~ Processed(k, j)'
  BY <1>4, <1>5 DEF Processed
<1>7. CountsNow => CountsNow'
  BY <1>1, <1>2, <1>4, CountStep
<1>8. \A k \in Lines : Counts(k)'
  BY <1>2, <1>5, <1>6, <1>7 DEF Counting, Counts
<1> QED BY <1>3, <1>5, <1>8 DEF Counting

\* A job that fails may lose an event; if it reads the file its range is not done.
LEMMA FailStep ==
  ASSUME TypeOK, Control, Events, NEW r \in Ranks, ArtFails(r)
  PROVE  Events' /\ Counting'
<1>1. /\ pc[r] = "art" /\ pc' = [pc EXCEPT ![r] = "exited"]
      /\ \E wait \in WaitStatuses : failed' = failed \cup {<<at, r, wait>>}
      /\ UNCHANGED <<script, at, stopped, nfile, taken, processed>>
      /\ \/ Processing(config) /\ \E e \in queue : queue' = queue \ {e} /\ lost' = lost \cup {e}
         \/ UNCHANGED <<queue, lost>>
  BY DEF ArtFails
<1>2. Counting'
  BY <1>1 DEF Counting, Counts
<1>3. CASE Processing(config) /\ \E e \in queue : queue' = queue \ {e} /\ lost' = lost \cup {e}
  BY <1>1, <1>2, <1>3, QueueStep
<1>4. CASE UNCHANGED <<queue, lost>>
  <2>1. /\ config' = config /\ Lines' = Lines /\ Now' = Now
        /\ \A k : Past(k)' = Past(k) /\ Wanted(k)' = Wanted(k)
        /\ \A p, k : RangeOf(p, k)' = RangeOf(p, k) /\ Nskip(p, k)' = Nskip(p, k)
    BY <1>1, ScriptFrame
  <2>2. Before' /\ Each' /\ NothingLost'
    BY <1>1, <1>4, <2>1 DEF Events, Before, Each, Once, NothingLost, Untouched, Numbers
  <2>3. After'
    <3> SUFFICES ASSUME NEW k \in Lines, Past(k), NEW d \in Numbers, Accounted(d, k)
                 PROVE  Accounted(d, k)'
      BY <1>1, <1>4, <2>1 DEF Events, After, Numbers
    <3> QED BY <1>1, <1>4, <2>1 DEF Accounted, Failed, Ranks
  <2>4. /\ \A p \in Ranks : /\ Begun(p)' = Begun(p) /\ NextInFile(p)' = NextInFile(p)
                            /\ (p # r => pc'[p] = pc[p])
                            /\ (RangeDone(p) => RangeDone(p)')
        /\ RangeDone(r)'
    <3>1. \A p \in Ranks : /\ Begun(p)' = Begun(p) /\ NextInFile(p)' = NextInFile(p)
                           /\ (p # r => pc'[p] = pc[p])
      BY <1>1, <2>1 DEF Begun, NextInFile, TypeOK
    <3>2. Failed(at, r)' /\ \A p \in Ranks : Failed(at, p) => Failed(at, p)'
      BY <1>1 DEF Failed
    <3> QED BY <1>1, <2>1, <3>1, <3>2 DEF RangeDone
  <2>5. \A e \in Numbers : Taken(e)' <=> Taken(e)
    BY <1>1, <2>1, <2>4 DEF Taken, Ranks
  <2>6. \A p \in Ranks : pc'[p] = "exited" => pc[p] = "exited" \/ p = r
    BY <2>4
  <2>7. LoadInv => LoadInv'
    BY <1>1, <1>4, <2>4, <2>5, <2>6 DEF LoadInv, Ranks, Numbers
  <2>8. FileInv => FileInv'
    BY <1>1, <1>4, <2>4, <2>5, <2>6 DEF FileInv, Ranks, Numbers
  <2>9. Reading'
    BY <2>1, <2>7, <2>8 DEF Events, Reading
  <2> QED BY <1>2, <2>2, <2>3, <2>9 DEF Events
<1> QED BY <1>1, <1>3, <1>4

-------------------------------------------------------------------------------
(* The end of a command *)

\* What has been done is what had been done before and the command that ended.
LEMMA NextRan ==
  ASSUME TypeOK, NextCommand
  PROVE  /\ at \in Lines /\ Lines' = Lines /\ script' = script /\ Running
         /\ UNCHANGED <<nfile, taken, queue, processed, lost, failed>>
         /\ \A k \in Lines : Ran(k)' <=> Ran(k) \/ k = at
         /\ \A k \in Lines : Ran(k) <=> k < at
         /\ Running' => at' = at + 1 /\ \A r \in Ranks : pc'[r] = "main"
         /\ \A k : Wanted(k)' = Wanted(k)
         /\ \A r, k : RangeOf(r, k)' = RangeOf(r, k)
         /\ \A e, k : Accounted(e, k)' = Accounted(e, k)
<1>1. /\ at \in Lines /\ ~ stopped /\ Lines' = Lines /\ script' = script /\ Running
      /\ UNCHANGED <<nfile, taken, queue, processed, lost, failed>>
      /\ \/ stopped' = TRUE /\ UNCHANGED <<at, pc>>
         \/ at' = at + 1 /\ pc' = [r \in Ranks |-> "main"] /\ UNCHANGED stopped
  BY DEF NextCommand, Running, Lines
<1>2. at \in Nat /\ \A k \in Lines : k \in Nat
  BY LineTypes
<1>3. \A k \in Lines : Ran(k)' <=> Ran(k) \/ k = at
  BY <1>1, <1>2 DEF Ran
<1>4. \A k \in Lines : Ran(k) <=> k < at
  BY <1>1, <1>2 DEF Ran
<1>5. Running' => at' = at + 1 /\ \A r \in Ranks : pc'[r] = "main"
  BY <1>1 DEF Running
<1>6. \A k : Wanted(k)' = Wanted(k)
  BY <1>1 DEF Wanted, Numbers
<1>7. \A r, k : RangeOf(r, k)' = RangeOf(r, k)
  BY <1>1, <1>6 DEF RangeOf, Nskip
<1>8. \A e, k : Accounted(e, k)' = Accounted(e, k)
  BY <1>1, <1>6, <1>7 DEF Accounted, Failed, Ranks
<1> QED BY <1>1, <1>3, <1>4, <1>5, <1>6, <1>7, <1>8

\* When all the jobs that load the file have ended its events are on the queue, except
\* for those in the range of a job that failed.
LEMMA LoadingEnds ==
  ASSUME TypeOK, at \in Lines, Accepted(config), LoadInv,
         \A r \in Ranks : pc[r] = "exited", NEW e \in Numbers
  PROVE  Accounted(e, at)
<1>1. \A r \in Ranks : RangeDone(r)
  BY DEF LoadInv
<1>2. CASE e \in Wanted(at)
  BY <1>1, <1>2, WantedIsTaken DEF LoadInv, Accounted
<1>3. CASE e \notin Wanted(at)
  <2>1. e \notin queue
    <3>1. nfile \in Nat /\ queue \subseteq 0..(nfile - 1)
      BY SizesAssumption DEF TypeOK
    <3>2. e \in queue => e < nfile /\ Taken(e)
      BY <3>1 DEF LoadInv
    <3>3. Taken(e) => e < NRanks * config.limit
      BY TakenIsInReach
    <3> QED BY <1>3, <3>2, <3>3 DEF Wanted, config
  <2> QED BY <1>3, <2>1 DEF LoadInv, Accounted
<1> QED BY <1>2, <1>3

\* When all the jobs that read the file have ended its events have been processed,
\* except for those in the range of a job that failed.
LEMMA ReadingEnds ==
  ASSUME TypeOK, at \in Lines, Accepted(config), FileInv,
         \A r \in Ranks : pc[r] = "exited", NEW e \in Numbers
  PROVE  Accounted(e, at)
<1>1. \A r \in Ranks : RangeDone(r)
  BY DEF FileInv
<1>2. CASE e \in Wanted(at)
  BY <1>1, <1>2, WantedIsTaken DEF FileInv, Accounted
<1>3. CASE e \notin Wanted(at)
  <2>1. ASSUME Taken(e) PROVE FALSE
    <3>1. PICK r \in Ranks : Begun(r) /\ Nskip(r, at) <= e /\ e < NextInFile(r)
      BY <2>1 DEF Taken
    <3>2. taken[r] # 0
      BY <3>1, RankTypes DEF Numbers
    <3>3. NextInFile(r) <= nfile
      BY <3>1, <3>2 DEF FileInv
    <3>4. e < nfile
      BY <3>1, <3>3, RankTypes DEF Numbers
    <3> QED BY <1>3, <2>1, <3>4, TakenIsInReach DEF Wanted, config
  <2> QED BY <1>3, <2>1 DEF FileInv, Accounted
<1> QED BY <1>2, <1>3

\* The next command finds what the last one was to leave.
LEMMA CommandEvents ==
  ASSUME TypeOK, Control, Events, NextCommand
  PROVE  Events'
<1>1. /\ at \in Lines /\ Lines' = Lines /\ script' = script /\ Running
      /\ UNCHANGED <<nfile, taken, queue, processed, lost, failed>>
      /\ \A k \in Lines : Ran(k)' <=> Ran(k) \/ k = at
      /\ Running' => at' = at + 1 /\ \A r \in Ranks : pc'[r] = "main"
      /\ \A e, k : Accounted(e, k)' = Accounted(e, k)
      /\ \A r \in Ranks : pc[r] = "exited"
  BY NextRan DEF NextCommand
<1>2. \A k \in Lines : Past(k)' <=> Past(k) \/ (Now /\ k = at)
  BY <1>1 DEF Past, Now, config
<1>3. Each' /\ NothingLost'
  BY <1>1 DEF Events, Each, Once, NothingLost, Numbers
<1>4. Before'
  BY <1>1, <1>2 DEF Events, Before, Untouched, Numbers
<1>5. After'
  <2> SUFFICES ASSUME NEW k \in Lines, Past(k)'
               PROVE  /\ \A e \in Numbers : Accounted(e, k)
                      /\ FromFile(script.lines[k]) => queue = {}
    BY <1>1 DEF After, Numbers
  <2>1. CASE Past(k)
    BY <2>1 DEF Events, After
  <2>2. CASE Now /\ k = at
    <3>1. /\ Accepted(config)
          /\ Loading(config) \/ FromFile(config)
          /\ ~ (Loading(config) /\ FromFile(config))
      BY <1>1, <2>2, LineTypes, Kinds DEF Now, ReadsFile, config
    <3>2. CASE Loading(config)
      <4>1. LoadInv
        BY <2>2, <3>2 DEF Events, Reading
      <4> QED BY <1>1, <2>2, <3>1, <3>2, <4>1, LoadingEnds DEF config
    <3>3. CASE FromFile(config)
      <4>1. FileInv
        BY <2>2, <3>3 DEF Events, Reading
      <4> QED BY <1>1, <2>2, <3>1, <3>3, <4>1, ReadingEnds DEF FileInv
    <3> QED BY <3>1, <3>2, <3>3
  <2> QED BY <1>2, <2>1, <2>2
<1>6. Reading'
  <2> SUFFICES ASSUME Now' PROVE LoadInv' /\ FileInv'
    BY DEF Reading
  <2>1. Running' /\ at' \in Lines /\ at' # at /\ ReadsFile(script.lines[at'])
        /\ at' = at + 1 /\ \A r \in Ranks : pc'[r] = "main"
    BY <1>1, <2>1, LineTypes DEF Now, Running, config
  <2>2. ~ Now
    BY <1>1, <2>1, OneOfAKind DEF Now, config
  <2>3. ASSUME NEW k \in Lines PROVE ~ Past(k)
    <3>1. Ran(k) => k # at'
      BY <1>1, <2>1, NextRan, LineTypes
    <3> QED BY <2>1, <3>1, OneOfAKind DEF Past
  <2>4. Untouched'
    BY <1>1, <2>2, <2>3 DEF Events, Before, Untouched, Numbers
  <2>5. \A r \in Ranks : ~ Begun(r)' /\ pc'[r] # "exited"
    BY <2>1 DEF Begun
  <2>6. \A e \in Numbers : ~ Taken(e)'
    BY <2>5 DEF Taken, Ranks
  <2> QED BY <2>4, <2>5, <2>6 DEF Untouched, LoadInv, FileInv, Ranks, Numbers
<1> QED BY <1>3, <1>4, <1>5, <1>6 DEF Events

\* When the job of every rank has ended, as many events have been processed as there
\* are places, or all of them.
LEMMA QueueEnds ==
  ASSUME TypeOK, ProcNow, CountsNow, \A r \in Ranks : pc[r] = "exited"
  PROVE  CountsAfter(at)
<1>1. at \in Lines /\ config = script.lines[at]
  BY DEF ProcNow, Running, config
<1>2. IsFiniteSet(Room(at)) /\ Cardinality(Room(at)) = NRanks * config.limit
  BY <1>1, FinitePlaces
<1>3. Cardinality(Places) = Cardinality(Handled) /\ Places \subseteq Room(at)
  BY DEF CountsNow, Places
<1>4. Cardinality(Handled) <= NRanks * config.limit
  BY <1>2, <1>3, FS_Subset
<1>5. ASSUME queue # {} PROVE Places = Room(at)
  <2>1. \A r \in Ranks : taken[r] = config.limit /\ Begun(r)
    BY <1>5 DEF CountsNow, Begun
  <2>2. \A s \in Room(at) : s[1] \in Ranks /\ s[2] < config.limit
    BY <1>1, LineTypes DEF Room
  <2> QED BY <2>1, <2>2 DEF Places
<1> QED BY <1>1, <1>2, <1>3, <1>4, <1>5 DEF CountsAfter

LEMMA CommandCounts ==
  ASSUME TypeOK, Control, Events, Counting, NextCommand
  PROVE  Counting'
<1>1. /\ at \in Lines /\ Lines' = Lines /\ script' = script /\ Running
      /\ UNCHANGED <<nfile, taken, queue, processed, lost, failed>>
      /\ \A k \in Lines : Ran(k)' <=> Ran(k) \/ k = at
      /\ \A k \in Lines : Ran(k) <=> k < at
      /\ Running' => at' = at + 1 /\ \A r \in Ranks : pc'[r] = "main"
      /\ \A r \in Ranks : pc[r] = "exited"
      /\ at \in Nat /\ \A k \in Lines : k \in Nat
  <2>1. at \in Nat /\ \A k \in Lines : k \in Nat
    BY LineTypes
  <2>2. \A r \in Ranks : pc[r] = "exited"
    BY DEF NextCommand
  <2> QED BY <2>1, <2>2, NextRan
<1>2. \A k \in Lines : Past(k)' <=> Past(k) \/ (Now /\ k = at)
  BY <1>1 DEF Past, Now, config
<1>3. Handled' = Handled /\ \A j : CountsAfter(j)' = CountsAfter(j)
  BY <1>1 DEF Handled, CountsAfter, Numbers
<1>4. Processing(config) <=> ProcNow
  BY <1>1 DEF ProcNow
<1>5. \A k, j \in Lines : Processed(k, j)' <=> Processed(k, j) \/ (k < at /\ j = at /\ ProcNow)
  BY <1>1, <1>4 DEF Processed, config
\* The queue is read by one command only.
<1>6. ASSUME ProcNow'
      PROVE  ~ ProcNow /\ \A j \in Lines : ~ (Ran(j) /\ Processing(script.lines[j]))
  <2>1. at' = at + 1 /\ at' \in Lines /\ at' # at /\ Processing(script.lines[at'])
    BY <1>1, <1>6 DEF ProcNow, Running, config
  <2>2. ~ ProcNow
    BY <1>1, <2>1, OneOfAKind DEF ProcNow, config
  <2>3. ASSUME NEW j \in Lines, Ran(j) PROVE ~ Processing(script.lines[j])
    <3>1. j # at'
      BY <1>1, <2>1, <2>3
    <3> QED BY <2>1, <3>1, OneOfAKind
  <2> QED BY <2>2, <2>3
<1>7. Handled = {} => CountsNow'
  <2> SUFFICES ASSUME Handled = {}, ProcNow'
               PROVE  /\ Cardinality(Places') = Cardinality(Handled')
                      /\ \A r \in Ranks : pc'[r] # "exited"
    BY DEF CountsNow, Ranks
  <2>1. \A r \in Ranks : ~ Begun(r)' /\ pc'[r] # "exited"
    BY <1>1 DEF Begun, ProcNow
  <2>2. Places' = {}
    BY <2>1 DEF Places, Room, Ranks
  <2> QED BY <1>3, <2>1, <2>2
<1>8. ASSUME NEW k \in Lines, failed = {}, Past(k)', Loading(script.lines[k])
      PROVE  /\ CountsNow'
             /\ \A j \in Lines : Processed(k, j)' => CountsAfter(j)
             /\ ProcNow' \/ (\E j \in Lines : Processed(k, j)') \/ Handled = {}
  <2>1. CASE Past(k)
    <3>1. k < at /\ Counts(k)
      BY <1>1, <2>1 DEF Past, Counting
    <3>2. /\ CountsNow
          /\ \A j \in Lines : Processed(k, j) => CountsAfter(j)
          /\ ProcNow \/ (\E j \in Lines : Processed(k, j)) \/ Handled = {}
      BY <1>8, <2>1, <3>1 DEF Counts
    <3>3. CASE ProcNow
      <4>1. PICK i \in Lines : i = at
        BY <1>1
      <4>2. CountsAfter(i)
        BY <1>1, <3>2, <3>3, <4>1, QueueEnds
      <4>3. Processed(k, i)'
        BY <1>5, <3>1, <3>3, <4>1
      <4>4. ~ ProcNow'
        BY <1>6, <3>3
      <4>5. \A j \in Lines : Processed(k, j)' => CountsAfter(j)
        BY <1>5, <3>2, <4>1, <4>2
      <4> QED BY <4>3, <4>4, <4>5 DEF CountsNow
    <3>4. CASE ~ ProcNow /\ \E j \in Lines : Processed(k, j)
      <4>1. ~ ProcNow'
        BY <1>6, <3>4 DEF Processed
      <4> QED BY <1>5, <3>2, <3>4, <4>1 DEF CountsNow
    <3>5. CASE ~ ProcNow /\ Handled = {}
      BY <1>5, <1>7, <3>2, <3>5
    <3> QED BY <3>2, <3>3, <3>4, <3>5
  <2>2. CASE Now /\ k = at
    <3>1. LoadInv
      BY <1>8, <2>2 DEF Events, Reading, config
    <3>2. Handled = {}
      BY <3>1 DEF LoadInv, Handled
    <3>3. \A j \in Lines : ~ Processed(k, j)'
      <4> SUFFICES ASSUME NEW j \in Lines, Processed(k, j)'
                   PROVE  FALSE
        OBVIOUS
      <4>1. k < j /\ Ran(j)'
        BY DEF Processed
      <4>2. Ran(j) \/ j = at
        BY <1>1, <4>1
      <4>3. Ran(j) => j < at
        BY <1>1
      <4>4. k = at /\ k \in Nat /\ j \in Nat
        BY <1>1, <2>2
      <4>5. ~ (k < j /\ (j < at \/ j = at))
        BY <4>4
      <4> QED BY <4>1, <4>2, <4>3, <4>5
    <3> QED BY <1>7, <3>2, <3>3
  <2> QED BY <1>2, <1>8, <2>1, <2>2
<1>9. \A k \in Lines : Counts(k)'
  BY <1>1, <1>3, <1>8 DEF Counts
<1> QED BY <1>1, <1>9 DEF Counting

-------------------------------------------------------------------------------
(* Theorems *)

\* A script starts with nothing done.
LEMMA Starts == Init => IInv
<1> SUFFICES ASSUME Init PROVE IInv
  OBVIOUS
<1>1. script \in Scripts /\ script.lines \in Seq(CommandLines)
  BY ScriptsAssumption DEF Init
<1>2. at = 1 /\ at \in 1..(Len(script.lines) + 1) /\ ~ stopped /\ stopped \in BOOLEAN
  <2>1. Len(script.lines) \in Nat
    BY <1>1
  <2>2. 1 \in 1..(Len(script.lines) + 1)
    BY <2>1
  <2> QED BY <2>2 DEF Init
<1>3. \A r \in Ranks : ~ Begun(r) /\ pc[r] = "main"
  BY DEF Init, Begun
<1>4. TypeOK
  BY <1>1, <1>2, <1>3, SizesAssumption DEF Init, TypeOK
<1>5. \A k \in Lines : ~ Ran(k)
  BY <1>2, <1>4, LineTypes DEF Ran
<1>6. \A e \in Numbers : ~ Taken(e)
  BY <1>3 DEF Taken
<1>7. Untouched /\ LoadInv /\ FileInv
  BY <1>3, <1>6 DEF Init, Untouched, LoadInv, FileInv
<1>8. Control
  BY <1>2, <1>3 DEF Control
<1>9. Events
  BY <1>5, <1>7 DEF Events, Before, Reading, After, Past, Each, Once, NothingLost, Untouched
<1>10. Counting
  BY <1>5 DEF Counting, Counts, Past
<1> QED BY <1>4, <1>8, <1>9, <1>10 DEF IInv

\* Every step keeps account of the events and of the places.
LEMMA Steps == IInv /\ [Next]_vars => IInv'
<1> SUFFICES ASSUME IInv, [Next]_vars PROVE IInv'
  OBVIOUS
<1>0. TypeOK /\ Control /\ Events /\ Counting
  BY DEF IInv
<1>1. TypeOK' /\ Control'
  BY <1>0, TypesStep, ControlStep
<1>2. ASSUME NEW r \in Ranks, RankStep(r) PROVE Events' /\ Counting'
  BY <1>2, RejectStep, AcceptStep, LoadStep, ProcessStep, FileStep, EndStep, FailStep
     DEF RankStep, IInv
<1>3. ASSUME NextCommand PROVE Events' /\ Counting'
  BY <1>0, <1>3, CommandEvents, CommandCounts
<1>4. ASSUME UNCHANGED vars PROVE Events' /\ Counting'
  <2>1. UNCHANGED <<script, at, stopped, nfile, pc, status, taken, queue, processed, lost, failed>>
    BY <1>4 DEF vars
  <2>2. /\ config' = config /\ Now' = Now /\ ProcNow' = ProcNow /\ Places' = Places
        /\ \A r \in Ranks : Begun(r)' = Begun(r) /\ RangeDone(r)' = RangeDone(r)
                              /\ NextInFile(r)' = NextInFile(r)
        /\ \A e \in Numbers : Taken(e)' <=> Taken(e)
    BY <2>1, ScriptFrame DEF Places, Begun, RangeDone, Failed, NextInFile, Taken, Ranks
  <2>3. (LoadInv => LoadInv') /\ (FileInv => FileInv')
    BY <2>1, <2>2 DEF LoadInv, FileInv, Ranks, Numbers
  <2>4. Reading'
    BY <2>2, <2>3 DEF IInv, Events, Reading
  <2>5. CountsNow => CountsNow'
    BY <2>1, <2>2, EventsFrame DEF CountsNow, Ranks
  <2>6. UNCHANGED <<script, at, stopped, nfile, queue, processed, lost, failed>>
    BY <2>1
  <2> QED BY <1>0, <2>4, <2>5, <2>6, QuietStep
<1> QED BY <1>1, <1>2, <1>3, <1>4 DEF Next, Terminated, IInv

\* The inductive invariant of a script.
THEOREM Accounts == Spec => []IInv
BY Starts, Steps, PTL DEF Spec

\* The state of the ranks, the queue and the script stays within its types: no job
\* goes past the limit of its command (main hands it to art) and the queue holds
\* events of the file only.
THEOREM WrapperTypes == Spec => []TypeOK
<1>1. IInv => TypeOK
  BY DEF IInv
<1> QED BY <1>1, Accounts, PTL

\* Whatever the limits and the order of the commands, whichever of them are refused and
\* whichever art jobs fail, no event is processed twice and none gets lost but in the
\* hands or the range of a job that failed (loadData, runSH and runSP).
THEOREM EventsAreAccounted == Spec => []EventsAreAccountedFor
<1>1. IInv => EventsAreAccountedFor
  BY DEF IInv, Events, Each, After, Past, EventsAreAccountedFor
<1> QED BY <1>1, Accounts, PTL

\* With no job failed the events that have been processed are those of the command that
\* loaded them, but for what is left on the queue.
LEMMA LoadedEvents ==
  ASSUME IInv, failed = {}, NEW k \in Lines, Past(k)
  PROVE  /\ Wanted(k) = Handled \cup queue /\ Handled \cap queue = {}
         /\ \A e \in Wanted(k) : processed[e] = 1 \/ e \in queue
<1>1. \A e \in Numbers : Accounted(e, k) /\ Once(e)
  BY DEF IInv, Events, After, Each
<1>2. lost = {}
  BY DEF IInv, Events, NothingLost
<1>3. queue \subseteq Numbers
  BY SizesAssumption DEF IInv, TypeOK, Numbers
<1>4. \A e \in Wanted(k) : processed[e] = 1 \/ e \in queue
  BY <1>1, <1>2 DEF Accounted, Failed, Wanted
<1>5. \A e \in Handled \cup queue : e \in Wanted(k)
  BY <1>1, <1>3 DEF Accounted, Handled
<1>6. Handled \cap queue = {}
  BY <1>1, <1>3 DEF Once, Handled
<1> QED BY <1>4, <1>5, <1>6 DEF Wanted, Handled

\* A benchmark with no failed job has processed each event of the ranges of its ranks
\* once, or as many of them as the limits of the processing jobs allow, in whichever
\* order the ranks took them and however many found nothing to take.
THEOREM BenchmarksAreComplete == Spec => []BenchmarkIsComplete
<1>1. IInv => BenchmarkIsComplete
  <2> SUFFICES ASSUME IInv, failed = {}, NEW k \in Lines, Ran(k)
               PROVE  /\ FromFile(script.lines[k]) => \A e \in Wanted(k) : processed[e] = 1
                      /\ Loading(script.lines[k]) =>
                           \A j \in Lines : k < j /\ Ran(j) /\ Processing(script.lines[j]) =>
                             LET loaded == Cardinality(Wanted(k))
                                 places == NRanks * script.lines[j].limit
                             IN  Cardinality(queue) =
                                   IF loaded <= places THEN 0 ELSE loaded - places
    BY DEF BenchmarkIsComplete
  <2>1. ASSUME FromFile(script.lines[k]), NEW e \in Wanted(k) PROVE processed[e] = 1
    <3>1. Past(k)
      BY <2>1 DEF Past, ReadsFile
    <3>2. queue = {}
      BY <2>1, <3>1 DEF IInv, Events, After
    <3> QED BY <2>1, <3>1, <3>2, LoadedEvents
  <2>2. ASSUME Loading(script.lines[k]), NEW j \in Lines, k < j, Ran(j),
               Processing(script.lines[j])
        PROVE  LET loaded == Cardinality(Wanted(k))
                   places == NRanks * script.lines[j].limit
               IN  Cardinality(queue) = IF loaded <= places THEN 0 ELSE loaded - places
    <3> DEFINE loaded == Cardinality(Wanted(k))
               places == NRanks * script.lines[j].limit
               handled == Cardinality(Handled)
               left == Cardinality(queue)
    <3>1. Past(k)
      BY <2>2 DEF Past, ReadsFile
    <3>2. Wanted(k) = Handled \cup queue /\ Handled \cap queue = {}
      BY <3>1, LoadedEvents
    <3>3. IsFiniteSet(Handled) /\ IsFiniteSet(queue)
      BY FinitePlaces DEF IInv
    <3>4. loaded = handled + left /\ handled \in Nat /\ left \in Nat
      <4>1. handled \in Nat /\ left \in Nat
        BY <3>3, FS_CardinalityType
      <4>2. Cardinality(Handled \cup queue) = handled + left - Cardinality(Handled \cap queue)
        BY <3>3, FS_Union
      <4>3. Cardinality(Handled \cap queue) = 0
        BY <3>2, FS_EmptySet
      <4> QED BY <3>2, <4>1, <4>2, <4>3
    <3>5. CountsAfter(j)
      BY <2>2, <3>1 DEF IInv, Counting, Counts, Processed
    <3>6. handled <= places /\ (left = 0 \/ handled = places)
      BY <3>5, FS_EmptySet DEF CountsAfter
    <3>7. places \in Nat
      BY SizesAssumption, LineTypes DEF IInv
    <3> HIDE DEF loaded, places, handled, left
    <3>8. left = IF loaded <= places THEN 0 ELSE loaded - places
      BY <3>4, <3>6, <3>7
    <3> QED BY <3>8 DEF loaded, places, left
  <2> QED BY <2>1, <2>2
<1> QED BY <1>1, Accounts, PTL

-------------------------------------------------------------------------------
(* What ends a script *)

\* A rank that has returned from main gave a status other than 0 if its command was
\* refused or its job, one with HEPnOS, died of a signal.
Statuses ==
  at \in Lines =>
    \A r \in Ranks : pc[r] = "exited" =>
      (status[r] # 0 <=> \/ ~ Accepted(config)
                         \/ ~ FromFile(config) /\ <<at, r, Signal11>> \in failed)

\* The jobs that have failed are of commands before this one, or have ended in it.
FailuresAreOver ==
  \A k \in Lines, r \in Ranks :
    Failed(k, r) => k < at \/ (k = at /\ pc[r] = "exited" /\ Accepted(config))

EndInv == Statuses /\ FailuresAreOver /\ WhatEndsAScript

\* Of the two ways a job fails the status of one is 0, and of the other it is not.
LEMMA StatusOfAFailure ==
  ASSUME NEW wait \in WaitStatuses
  PROVE  ReturnedStatus(wait) # 0 <=> ~ FromFile(config) /\ wait = Signal11
<1>1. wait = 256 \/ wait = 11
  BY DEF WaitStatuses, ExitCode1, Signal11
<1>2. wait % 256 # 0 <=> wait = 11
  BY <1>1, 256 % 256 = 0, 11 % 256 = 11
<1>3. CASE FromFile(config)
  BY <1>3 DEF ReturnedStatus
<1>4. CASE ~ FromFile(config)
  <2>1. ReturnedStatus(wait) = wait % 256
    BY <1>4 DEF ReturnedStatus
  <2> QED BY <1>2, <1>4, <2>1 DEF Signal11
<1> QED BY <1>3, <1>4

\* A script starts with no command run and no job failed.
LEMMA EndStarts == Init => EndInv
<1> SUFFICES ASSUME Init PROVE EndInv
  OBVIOUS
<1>1. at = 1 /\ ~ stopped /\ Lines \subseteq Nat \ {0}
  BY Starts, LineTypes DEF IInv, Init
<1>2. WhatEndsAScript
  <2>1. \A k \in Lines : ~ Ran(k)
    BY <1>1 DEF Ran
  <2> QED BY <2>1 DEF WhatEndsAScript
<1>3. Statuses
  BY DEF Init, Statuses
<1>4. FailuresAreOver
  BY DEF Init, FailuresAreOver, Failed
<1> QED BY <1>2, <1>3, <1>4 DEF EndInv

\* What a rank returns is known from its command and the way its job ended.
LEMMA RankEnds ==
  ASSUME IInv, EndInv, NEW r \in Ranks, RankStep(r)
  PROVE  EndInv'
<1>1. /\ Running /\ at \in Lines /\ at \in Nat /\ ~ stopped
      /\ UNCHANGED <<script, at, stopped, nfile>>
      /\ Lines' = Lines /\ config' = config /\ Lines \subseteq Nat
  <2>1. UNCHANGED <<script, at, stopped, nfile>>
    BY RankFrame
  <2>2. Running
    BY DEF RankStep, Reject, Accept, LoadEvent, ProcessEvent, ProcessFromFile, ArtEnds,
           ArtFails, Takes, IInv, Control
  <2>3. at \in Nat /\ Lines \subseteq Nat
    BY LineTypes DEF IInv
  <2> QED BY <2>1, <2>2, <2>3, ScriptFrame DEF Running
<1>2. /\ pc \in [Ranks -> {"main", "art", "exited"}]
      /\ status \in [Ranks -> 0..255]
      /\ pc[r] = "art" => Accepted(config)
  BY DEF IInv, TypeOK, Control
<1>3. CASE UNCHANGED failed
  <2>1. FailuresAreOver'
    <3>1. \A p \in Ranks : pc[p] = "exited" => pc'[p] = "exited"
      BY <1>2 DEF RankStep, Reject, Accept, LoadEvent, ProcessEvent, ProcessFromFile,
         ArtEnds, ArtFails, Takes
    <3> QED BY <1>1, <1>3, <3>1 DEF EndInv, FailuresAreOver, Failed, Ranks
  <2>2. WhatEndsAScript'
    BY <1>1, <1>3 DEF EndInv, WhatEndsAScript, Ran, Ranks
  <2>3. ~ ArtFails(r)
    <3>1. ArtFails(r) => Failed(at, r)
      BY <1>3 DEF ArtFails, Failed
    <3>2. ArtFails(r) => pc[r] = "art"
      BY DEF ArtFails
    <3> QED BY <1>1, <3>1, <3>2 DEF EndInv, FailuresAreOver
  <2>4. <<at, r, Signal11>> \in failed => pc[r] = "exited"
    <3>1. Signal11 \in WaitStatuses
      BY DEF WaitStatuses
    <3> QED BY <1>1, <3>1 DEF EndInv, FailuresAreOver, Failed
  <2>5. \/ pc'[r] = "exited" /\ status'[r] # 0 /\ ~ Accepted(config) /\ pc[r] = "main"
        \/ pc'[r] = "exited" /\ status'[r] = 0 /\ pc[r] = "art"
        \/ pc'[r] # "exited"
    BY <1>2, <2>3 DEF RankStep, Reject, Accept, LoadEvent, ProcessEvent, ProcessFromFile,
       ArtEnds, Takes
  <2>6. \A p \in Ranks : p # r => pc'[p] = pc[p] /\ status'[p] = status[p]
    BY <1>2, <2>3 DEF RankStep, Reject, Accept, LoadEvent, ProcessEvent, ProcessFromFile,
       ArtEnds, Takes
  <2>7. Statuses'
    <3> SUFFICES ASSUME NEW p \in Ranks, pc'[p] = "exited"
                 PROVE  status'[p] # 0 <=>
                          \/ ~ Accepted(config)
                          \/ ~ FromFile(config) /\ <<at, p, Signal11>> \in failed
      BY <1>1, <1>3 DEF Statuses, Ranks
    <3>1. CASE p = r
      BY <1>2, <2>4, <2>5, <3>1
    <3>2. CASE p # r
      BY <1>1, <2>6, <3>2 DEF EndInv, Statuses
    <3> QED BY <3>1, <3>2
  <2> QED BY <2>1, <2>2, <2>7 DEF EndInv
<1>4. CASE ArtFails(r)
  <2>1. PICK wait \in WaitStatuses :
          /\ status' = [status EXCEPT ![r] = ReturnedStatus(wait)]
          /\ failed' = failed \cup {<<at, r, wait>>}
    BY <1>4 DEF ArtFails
  <2>2. pc[r] = "art" /\ pc' = [pc EXCEPT ![r] = "exited"]
    BY <1>4 DEF ArtFails
  <2>3. \A k \in Lines, p \in Ranks :
          Failed(k, p)' => Failed(k, p) \/ (k = at /\ p = r)
    BY <2>1 DEF Failed
  <2>4. FailuresAreOver'
    BY <1>1, <1>2, <2>2, <2>3 DEF EndInv, FailuresAreOver, Ranks
  <2>5. \A k \in Lines, p \in Ranks : k # at =>
          (<<k, p, Signal11>> \in failed' <=> <<k, p, Signal11>> \in failed)
    BY <2>1
  <2>6. WhatEndsAScript'
    BY <1>1, <2>5 DEF EndInv, WhatEndsAScript, Ran, Ranks
  <2>7. Statuses'
    <3> SUFFICES ASSUME NEW p \in Ranks, pc'[p] = "exited"
                 PROVE  status'[p] # 0 <=>
                          \/ ~ Accepted(config)
                          \/ ~ FromFile(config) /\ <<at, p, Signal11>> \in failed'
      BY <1>1 DEF Statuses, Ranks
    <3>1. CASE p = r
      <4>1. status'[p] = ReturnedStatus(wait)
        BY <1>2, <2>1, <3>1
      <4>2. <<at, p, Signal11>> \in failed' <=> wait = Signal11
        <5>1. Signal11 \in WaitStatuses
          BY DEF WaitStatuses
        <5>2. <<at, r, Signal11>> \notin failed
          BY <1>1, <2>2, <5>1 DEF EndInv, FailuresAreOver, Failed
        <5> QED BY <2>1, <3>1, <5>2
      <4> QED BY <1>2, <2>2, <4>1, <4>2, StatusOfAFailure
    <3>2. CASE p # r
      <4>1. pc[p] = "exited" /\ status'[p] = status[p]
        BY <1>2, <2>1, <2>2, <3>2
      <4>2. <<at, p, Signal11>> \in failed' <=> <<at, p, Signal11>> \in failed
        BY <2>1, <3>2
      <4> QED BY <1>1, <4>1, <4>2 DEF EndInv, Statuses
    <3> QED BY <3>1, <3>2
  <2> QED BY <2>4, <2>6, <2>7 DEF EndInv
<1> QED
  BY <1>3, <1>4 DEF RankStep, Reject, Accept, LoadEvent, ProcessEvent, ProcessFromFile,
     ArtEnds

\* The script ends at a command, or goes on, as the statuses of its ranks say.
LEMMA CommandEnds ==
  ASSUME IInv, EndInv, NextCommand
  PROVE  EndInv'
<1>1. /\ at \in Lines /\ at \in Nat /\ ~ stopped /\ Lines \subseteq Nat
      /\ \A r \in Ranks : pc[r] = "exited"
      /\ UNCHANGED <<script, nfile, status, taken, queue, processed, lost, failed>>
      /\ Lines' = Lines
  BY LineTypes DEF NextCommand, Running, IInv, Lines
<1>2. 0 \in Ranks
  BY SizesAssumption DEF Ranks
<1>3. (\E r \in Ranks : status[r] # 0) <=>
        \/ ~ Accepted(config)
        \/ ~ FromFile(config) /\ \E r \in Ranks : <<at, r, Signal11>> \in failed
  BY <1>1, <1>2 DEF EndInv, Statuses
<1>4. CASE script.stops /\ \E r \in Ranks : status[r] # 0
  <2>1. stopped' = TRUE /\ at' = at /\ pc' = pc
    BY <1>4 DEF NextCommand
  <2>2. config' = config
    BY <1>1, <2>1 DEF config
  <2>3. Statuses' /\ FailuresAreOver'
    BY <1>1, <2>1, <2>2 DEF EndInv, Statuses, FailuresAreOver, Failed, Ranks
  <2>4. WhatEndsAScript'
    <3> SUFFICES ASSUME NEW k \in Lines, k < at \/ k = at
                 PROVE  k = at <=>
                          /\ script.stops
                          /\ \/ ~ Accepted(script.lines[k])
                             \/ /\ ~ FromFile(script.lines[k])
                                /\ \E r \in Ranks : <<k, r, Signal11>> \in failed
      BY <1>1, <2>1 DEF WhatEndsAScript, Ran, Ranks
    <3>1. CASE k = at
      BY <1>3, <1>4, <3>1 DEF config
    <3>2. CASE k < at
      BY <1>1, <3>2 DEF EndInv, WhatEndsAScript, Ran
    <3> QED BY <3>1, <3>2
  <2> QED BY <2>3, <2>4 DEF EndInv
<1>5. CASE ~ (script.stops /\ \E r \in Ranks : status[r] # 0)
  <2>1. at' = at + 1 /\ pc' = [r \in Ranks |-> "main"] /\ stopped' = stopped
    BY <1>5 DEF NextCommand
  <2>2. Statuses'
    BY <2>1 DEF Statuses, Ranks
  <2>3. FailuresAreOver'
    BY <1>1, <2>1 DEF EndInv, FailuresAreOver, Failed, Ranks
  <2>4. WhatEndsAScript'
    <3> SUFFICES ASSUME NEW k \in Lines, k < at \/ k = at
                 PROVE  ~ (/\ script.stops
                           /\ \/ ~ Accepted(script.lines[k])
                              \/ /\ ~ FromFile(script.lines[k])
                                 /\ \E r \in Ranks : <<k, r, Signal11>> \in failed)
      BY <1>1, <2>1 DEF WhatEndsAScript, Ran, Ranks
    <3>1. CASE k = at
      BY <1>3, <1>5, <3>1 DEF config
    <3>2. CASE k < at
      BY <1>1, <3>2 DEF EndInv, WhatEndsAScript, Ran
    <3> QED BY <3>1, <3>2
  <2> QED BY <2>2, <2>3, <2>4 DEF EndInv
<1> QED BY <1>4, <1>5

\* Every step of a script keeps EndInv.
LEMMA EndSteps == IInv /\ EndInv /\ [Next]_vars => EndInv'
<1> SUFFICES ASSUME IInv, EndInv, [Next]_vars PROVE EndInv'
  OBVIOUS
<1>1. CASE UNCHANGED vars
  BY <1>1 DEF vars, EndInv, Statuses, FailuresAreOver, Failed, WhatEndsAScript, Ran, Lines,
              config, Ranks
<1> QED BY <1>1, RankEnds, CommandEnds DEF Next, Terminated

\* Whatever the commands, the ranks and the way their jobs fail, a script with set -e
\* ends at a command that is refused or one of whose HEPnOS jobs dies of a signal,
\* and at no other; the exit code of art never ends it (main, line 135).
THEOREM ScriptsEnd == Spec => []WhatEndsAScript
<1>1. EndInv => WhatEndsAScript
  BY DEF EndInv
<1> QED BY <1>1, EndStarts, EndSteps, Accounts, PTL DEF Spec
===============================================================================
