-------------------------- MODULE BackgroundProofs ---------------------------
(* What holds of the background of the daemon: the snapshots of resources, for *)
(* every set of sessions; the scrollback file, for every size of the file, of  *)
(* the ring and of a read, and wherever the lines of the output end; the wait  *)
(* for the shell's marker, for every output and every cut of it into reads;    *)
(* the window of transient errors, for every length of it and every limit; the *)
(* tracker of the modes, for every set of modes and every output; and the      *)
(* app's reading of git, for every set of paths and every way they change.     *)
EXTENDS ResourceSnapshots, Scrollback, ShellReadiness, ModeTracker, PtyLoops, GitStatus,
        SequenceTheorems, FiniteSetTheorems, NaturalsInduction, WellFoundedInduction,
        TLAPS

------------------------------------------------------------------------------
(* ResourceSnapshots                                                           *)

Answers == [no : Nat, lists : SUBSET Sessions]

SnapshotsTypes ==
    /\ alive \in SUBSET Sessions /\ cache \in (SUBSET Sessions) \cup {Nothing}
    /\ fresh \in BOOLEAN /\ waiting \in BOOLEAN /\ asked \in Nat
    /\ pending \in Seq(Nat) /\ answers \in Seq(Answers) /\ history \in Seq(Answers)

(* A cache that would still be used lists every session that is alive: only a  *)
(* spawn adds one, and it forgets the cache, although not its age.             *)
CacheIsComplete == cache # Nothing /\ fresh => alive \subseteq cache

SnapshotsInv == SnapshotsTypes /\ CacheIsComplete

LEMMA SnapshotsInvInit == MonitorInit => SnapshotsInv
<1> SUFFICES ASSUME MonitorInit PROVE SnapshotsInv
  OBVIOUS
<1>1. SnapshotsTypes
  <2>1. alive \in SUBSET Sessions /\ cache \in (SUBSET Sessions) \cup {Nothing}
    BY DEF MonitorInit
  <2>2. fresh \in BOOLEAN /\ waiting \in BOOLEAN /\ asked \in Nat
    BY DEF MonitorInit
  <2>3. pending \in Seq(Nat) /\ answers \in Seq(Answers) /\ history \in Seq(Answers)
    BY DEF MonitorInit
  <2> QED
    BY <2>1, <2>2, <2>3 DEF SnapshotsTypes
<1>2. CacheIsComplete
  BY DEF MonitorInit, CacheIsComplete
<1> QED
  BY <1>1, <1>2 DEF SnapshotsInv

LEMMA SnapshotIsComplete ==
  ASSUME SnapshotsInv
  PROVE  Snapshot \in SUBSET Sessions /\ alive \subseteq Snapshot
<1>1. CASE cache # Nothing /\ fresh
  BY <1>1 DEF SnapshotsInv, SnapshotsTypes, CacheIsComplete, Snapshot
<1>2. CASE ~(cache # Nothing /\ fresh)
  BY <1>2 DEF SnapshotsInv, SnapshotsTypes, Snapshot
<1> QED
  BY <1>1, <1>2

------------------------------------------------------------------------------
LEMMA SessionsKeep ==
  ASSUME SnapshotsInv, NEW s \in Sessions, SpawnInner(s) \/ Ends(s)
  PROVE  SnapshotsInv'
<1>1. CASE SpawnInner(s)
  <2>1. SnapshotsTypes'
    BY <1>1 DEF SpawnInner, AfterASpawn, SnapshotsInv, SnapshotsTypes
  <2>2. CacheIsComplete'
    BY <1>1 DEF SpawnInner, AfterASpawn, CacheIsComplete
  <2> QED
    BY <2>1, <2>2 DEF SnapshotsInv
<1>2. CASE Ends(s)
  <2>1. SnapshotsTypes'
    BY <1>2 DEF Ends, SnapshotsInv, SnapshotsTypes
  <2>2. CacheIsComplete'
    BY <1>2 DEF Ends, SnapshotsInv, CacheIsComplete
  <2> QED
    BY <2>1, <2>2 DEF SnapshotsInv
<1> QED
  BY <1>1, <1>2

LEMMA AnswerKeeps == ASSUME SnapshotsInv, GetResourceSnapshot PROVE SnapshotsInv'
<1> DEFINE answer == [no |-> Head(pending), lists |-> Snapshot]
<1>1. Snapshot \in SUBSET Sessions /\ alive \subseteq Snapshot
  BY SnapshotIsComplete
<1>2. Head(pending) \in Nat /\ Tail(pending) \in Seq(Nat)
  BY DEF SnapshotsInv, SnapshotsTypes, GetResourceSnapshot
<1>3. answers' \in Seq(Answers)
  <2>1. answer \in Answers
    BY <1>1, <1>2 DEF Answers
  <2>2. answers' = Append(answers, answer) /\ answers \in Seq(Answers)
    BY DEF SnapshotsInv, SnapshotsTypes, GetResourceSnapshot
  <2> HIDE DEF answer
  <2> QED
    BY <2>1, <2>2
<1>4. SnapshotsTypes'
  BY <1>1, <1>2, <1>3 DEF SnapshotsInv, SnapshotsTypes, GetResourceSnapshot
<1>5. CacheIsComplete'
  BY <1>1 DEF CacheIsComplete, GetResourceSnapshot
<1> QED
  BY <1>4, <1>5 DEF SnapshotsInv

LEMMA IndicatorKeeps ==
  ASSUME SnapshotsInv, CacheAges \/ RequestSnapshot \/ Receives \/ TimesOut
  PROVE  SnapshotsInv'
<1>1. CASE CacheAges
  BY <1>1 DEF CacheAges, SnapshotsInv, SnapshotsTypes, CacheIsComplete
<1>2. CASE RequestSnapshot
  BY <1>2 DEF RequestSnapshot, SnapshotsInv, SnapshotsTypes, CacheIsComplete
<1>3. CASE Receives
  <2>1. /\ Head(answers) \in Answers /\ Tail(answers) \in Seq(Answers)
        /\ answers' = Tail(answers) /\ waiting' = FALSE
        /\ history' = Append(Kept(history), Head(answers))
        /\ UNCHANGED <<alive, cache, fresh, asked, pending>>
    BY <1>3 DEF Receives, SnapshotsInv, SnapshotsTypes
  <2>2. Kept(history) \in Seq(Answers)
    <3>1. history \in Seq(Answers)
      BY DEF SnapshotsInv, SnapshotsTypes
    <3>2. CASE Len(history) >= MaxHistory
      <4>1. Len(history) # 0
        BY <3>1, <3>2, MonitorAssumption
      <4>2. Kept(history) = Tail(history)
        BY <3>2 DEF Kept
      <4> QED
        BY <3>1, <4>1, <4>2
    <3>3. CASE ~(Len(history) >= MaxHistory)
      BY <3>1, <3>3 DEF Kept
    <3> QED
      BY <3>2, <3>3
  <2>3. history' \in Seq(Answers)
    BY <2>1, <2>2
  <2> QED
    BY <2>1, <2>3 DEF SnapshotsInv, SnapshotsTypes, CacheIsComplete
<1>4. CASE TimesOut
  BY <1>4 DEF TimesOut, SnapshotsInv, SnapshotsTypes, CacheIsComplete
<1> QED
  BY <1>1, <1>2, <1>3, <1>4

LEMMA SnapshotsNextKeeps == SnapshotsInv /\ [MonitorNext]_resourceVars => SnapshotsInv'
<1> SUFFICES ASSUME SnapshotsInv, [MonitorNext]_resourceVars PROVE SnapshotsInv'
  OBVIOUS
<1>1. CASE UNCHANGED resourceVars
  BY <1>1 DEF resourceVars, SnapshotsInv, SnapshotsTypes, CacheIsComplete
<1>2. CASE MonitorNext
  BY <1>2, SessionsKeep, AnswerKeeps, IndicatorKeeps DEF MonitorNext
<1> QED
  BY <1>1, <1>2

(* One answer of the daemon.                                                   *)
LEMMA AnswerListsTheLiving ==
  ASSUME SnapshotsInv, GetResourceSnapshot
  PROVE  alive \subseteq answers'[Len(answers')].lists
<1> DEFINE answer == [no |-> Head(pending), lists |-> Snapshot]
<1>1. answers' = Append(answers, answer) /\ answers \in Seq(Answers)
  BY DEF SnapshotsInv, SnapshotsTypes, GetResourceSnapshot
<1>2. answer.lists = Snapshot
  OBVIOUS
<1>3. answers'[Len(answers')] = answer
  <2> HIDE DEF answer
  <2> QED
    BY <1>1
<1> QED
  BY <1>2, <1>3, SnapshotIsComplete

------------------------------------------------------------------------------
(* An answer lists every session that is alive when it is given, whether it is *)
(* collected or comes from the cache.                                          *)
THEOREM AnswersListTheLiving == MonitorSpec => ListsTheLiving
<1>1. SnapshotsInv /\ [MonitorNext]_resourceVars => SnapshotsInv'
  BY SnapshotsNextKeeps
<1>2. SnapshotsInv /\ [MonitorNext]_resourceVars
        => [GetResourceSnapshot => alive \subseteq answers'[Len(answers')].lists]_resourceVars
  BY AnswerListsTheLiving
<1> QED
  BY <1>1, <1>2, SnapshotsInvInit, PTL DEF MonitorSpec, ListsTheLiving

------------------------------------------------------------------------------
(* Scrollback                                                                  *)

FileBytes == Nat \X BOOLEAN

(* The end of a sequence, position by position.                                 *)
EndOf(d, s) ==
    /\ Len(d) <= Len(s)
    /\ \A i \in 1..Len(d) : d[i] = s[Len(s) - Len(d) + i]

------------------------------------------------------------------------------
(* Ends of sequences *)

LEMMA FromIsEnd ==
  ASSUME NEW S, NEW s \in Seq(S), NEW k \in 0..Len(s)
  PROVE  /\ From(s, k) \in Seq(S) /\ Len(From(s, k)) = Len(s) - k
         /\ \A i \in 1..Len(s) - k : From(s, k)[i] = s[k + i]
         /\ EndOf(From(s, k), s)
<1>1. Len(s) \in Nat /\ k \in Nat /\ k <= Len(s)
  BY LenProperties
<1>2. /\ From(s, k) \in Seq(S)
      /\ Len(From(s, k)) = Len(s) - k
      /\ \A i \in 1..Len(s) - k : From(s, k)[i] = s[k + i]
  <2>1. \A i \in (k + 1)..Len(s) : s[i] \in S
    BY <1>1, ElementOfSeq
  <2>2. /\ SubSeq(s, k + 1, Len(s)) \in Seq(S)
        /\ Len(SubSeq(s, k + 1, Len(s))) =
             IF k + 1 <= Len(s) THEN Len(s) - (k + 1) + 1 ELSE 0
        /\ \A i \in 1..Len(s) - (k + 1) + 1 :
             SubSeq(s, k + 1, Len(s))[i] = s[k + 1 + i - 1]
    BY <1>1, <2>1, SubSeqProperties
  <2>3. Len(s) - (k + 1) + 1 = Len(s) - k
    BY <1>1
  <2>4. \A i \in 1..Len(s) - k : k + 1 + i - 1 = k + i
    BY <1>1
  <2>5. (IF k + 1 <= Len(s) THEN Len(s) - (k + 1) + 1 ELSE 0) = Len(s) - k
    BY <1>1
  <2> QED
    BY <2>2, <2>3, <2>4, <2>5 DEF From
<1>3. EndOf(From(s, k), s)
  <2>1. Len(s) - (Len(s) - k) = k /\ Len(s) - k <= Len(s)
    BY <1>1
  <2> QED
    BY <1>2, <2>1 DEF EndOf
<1> QED
  BY <1>2, <1>3

LEMMA EndOfEnd ==
  ASSUME NEW S, NEW a \in Seq(S), NEW b \in Seq(S), NEW c \in Seq(S),
         EndOf(a, b), EndOf(b, c)
  PROVE  EndOf(a, c)
<1>1. Len(a) \in Nat /\ Len(b) \in Nat /\ Len(c) \in Nat
  BY LenProperties
<1>2. Len(a) <= Len(c)
  BY <1>1 DEF EndOf
<1>3. ASSUME NEW i \in 1..Len(a) PROVE a[i] = c[Len(c) - Len(a) + i]
  <2>1. Len(b) - Len(a) + i \in 1..Len(b)
    BY <1>1 DEF EndOf
  <2>2. a[i] = b[Len(b) - Len(a) + i]
    BY DEF EndOf
  <2>3. b[Len(b) - Len(a) + i] = c[Len(c) - Len(b) + (Len(b) - Len(a) + i)]
    BY <2>1 DEF EndOf
  <2>4. Len(c) - Len(b) + (Len(b) - Len(a) + i) = Len(c) - Len(a) + i
    BY <1>1
  <2> QED
    BY <2>2, <2>3, <2>4
<1> QED
  BY <1>2, <1>3 DEF EndOf

LEMMA EndOfLonger ==
  ASSUME NEW S, NEW a \in Seq(S), NEW b \in Seq(S), NEW x \in Seq(S), EndOf(a, b)
  PROVE  EndOf(a \o x, b \o x)
<1>1. Len(a) \in Nat /\ Len(b) \in Nat /\ Len(x) \in Nat /\ Len(a) <= Len(b)
  BY LenProperties DEF EndOf
<1>2. /\ Len(a \o x) = Len(a) + Len(x) /\ Len(b \o x) = Len(b) + Len(x)
      /\ \A i \in 1..Len(a) + Len(x) :
             (a \o x)[i] = IF i <= Len(a) THEN a[i] ELSE x[i - Len(a)]
      /\ \A i \in 1..Len(b) + Len(x) :
             (b \o x)[i] = IF i <= Len(b) THEN b[i] ELSE x[i - Len(b)]
  BY ConcatProperties
<1>3. Len(a \o x) <= Len(b \o x)
  BY <1>1, <1>2
<1>4. ASSUME NEW i \in 1..Len(a \o x)
      PROVE  (a \o x)[i] = (b \o x)[Len(b \o x) - Len(a \o x) + i]
  <2> DEFINE j == Len(b \o x) - Len(a \o x) + i
  <2>1. j = Len(b) - Len(a) + i /\ j \in 1..Len(b) + Len(x)
    BY <1>1, <1>2
  <2>2. i \in 1..Len(a) + Len(x) /\ i \in Nat
    BY <1>1, <1>2
  <2>3. CASE i <= Len(a)
    <3>1. j <= Len(b)
      BY <1>1, <2>1, <2>2, <2>3
    <3>2. i \in 1..Len(a)
      BY <1>1, <2>2, <2>3
    <3>3. (a \o x)[i] = a[i] /\ (b \o x)[j] = b[j]
      BY <1>2, <2>1, <2>2, <2>3, <3>1
    <3> QED
      BY <2>1, <3>2, <3>3 DEF EndOf
  <2>4. CASE ~(i <= Len(a))
    <3>1. ~(j <= Len(b)) /\ j - Len(b) = i - Len(a)
      BY <1>1, <2>1, <2>2, <2>4
    <3> QED
      BY <1>2, <2>1, <2>2, <2>4, <3>1
  <2> QED
    BY <2>3, <2>4
<1> QED
  BY <1>3, <1>4 DEF EndOf

LEMMA TailingIsEnd ==
  ASSUME NEW S, NEW s \in Seq(S), NEW n \in Nat
  PROVE  /\ Tailing(s, n) \in Seq(S) /\ Len(Tailing(s, n)) = Least(n, Len(s))
         /\ EndOf(Tailing(s, n), s)
<1>1. Len(s) \in Nat
  BY LenProperties
<1>2. Least(n, Len(s)) \in 0..Len(s)
  BY <1>1 DEF Least
<1>3. Len(s) - Least(n, Len(s)) \in 0..Len(s)
      /\ Len(s) - (Len(s) - Least(n, Len(s))) = Least(n, Len(s))
  BY <1>1, <1>2
<1> QED
  BY <1>3, FromIsEnd DEF Tailing

(* The ends of the output are what the property calls its tails.                *)
LEMMA TailIsEnd ==
  ASSUME NEW S, NEW d \in Seq(S), output \in Seq(S)
  PROVE  IsTail(d) <=> EndOf(d, output)
<1>1. Len(d) \in Nat /\ Len(output) \in Nat
  BY LenProperties
<1>2. /\ Tailing(output, Len(d)) \in Seq(S)
      /\ Len(Tailing(output, Len(d))) = Least(Len(d), Len(output))
      /\ EndOf(Tailing(output, Len(d)), output)
  BY <1>1, TailingIsEnd
<1>3. ASSUME IsTail(d) PROVE EndOf(d, output)
  BY <1>2, <1>3 DEF IsTail
<1>4. ASSUME EndOf(d, output) PROVE IsTail(d)
  <2>1. Len(Tailing(output, Len(d))) = Len(d)
    BY <1>1, <1>2, <1>4 DEF EndOf, Least
  <2>2. \A i \in 1..Len(d) : Tailing(output, Len(d))[i] = d[i]
    BY <1>2, <1>4, <2>1 DEF EndOf
  <2> QED
    BY <1>2, <2>1, <2>2, SeqEqual DEF IsTail
<1> QED
  BY <1>3, <1>4

------------------------------------------------------------------------------
(* Line feeds *)

LEMMA FirstIsLeast ==
  ASSUME NEW T \in SUBSET Nat, T # {}
  PROVE  First(T) \in T /\ \A j \in T : First(T) <= j
<1>1. PICK m \in T : \A y \in T : ~(<<y, m>> \in OpToRel(<, Nat))
  BY NatLessThanWellFounded, WFMin
<1> DEFINE IsFirst(i) == \A j \in T : i <= j
<1>2. IsFirst(m)
  <2>1. \A y \in T : ~(y < m)
    BY <1>1 DEF OpToRel
  <2> QED
    BY <2>1
<1>3. First(T) = CHOOSE i \in T : IsFirst(i)
  BY DEF First
<1>4. First(T) \in T /\ IsFirst(First(T))
  <2> HIDE DEF IsFirst
  <2> QED
    BY <1>2, <1>3
<1> QED
  BY <1>4

LEMMA SafeStartIsInside ==
  ASSUME NEW S, NEW d \in Seq(S)
  PROVE  /\ FindSafeStart(d) \in 0..Len(d)
         /\ Breaks(d) # {} => /\ FindSafeStart(d) \in Breaks(d)
                              /\ IsBreak(d[FindSafeStart(d)])
         /\ Safe(d) \in Seq(S) /\ Len(Safe(d)) = Len(d) - FindSafeStart(d)
         /\ EndOf(Safe(d), d)
<1>1. Len(d) \in Nat /\ Scan \in Nat
  BY LenProperties, ScrollbackAssumption
<1>2. Breaks(d) \subseteq 1..Len(d)
  BY <1>1 DEF Breaks, Least
<1>3. Breaks(d) # {} => FindSafeStart(d) \in Breaks(d)
  <2>1. Breaks(d) \in SUBSET Nat
    BY <1>1, <1>2
  <2> QED
    BY <2>1, FirstIsLeast DEF FindSafeStart
<1>4. FindSafeStart(d) \in 0..Len(d)
  <2>1. CASE Breaks(d) = {}
    BY <1>1, <2>1 DEF FindSafeStart
  <2>2. CASE Breaks(d) # {}
    BY <1>1, <1>2, <1>3, <2>2
  <2> QED
    BY <2>1, <2>2
<1>5. Breaks(d) # {} => IsBreak(d[FindSafeStart(d)])
  BY <1>3 DEF Breaks
<1>6. /\ Safe(d) \in Seq(S) /\ Len(Safe(d)) = Len(d) - FindSafeStart(d)
      /\ EndOf(Safe(d), d)
  BY <1>4, FromIsEnd DEF Safe
<1> QED
  BY <1>3, <1>4, <1>5, <1>6

(* A line begins after the first p bytes.                                       *)
BeginsALine(s, p) == p = 0 \/ IsBreak(s[p])

LEMMA SafeBeginsALine ==
  ASSUME NEW d \in Seq(FileBytes), NEW s \in Seq(FileBytes), EndOf(d, s)
  PROVE  \/ BeginsALine(s, Len(s) - Len(Safe(d)))
         \/ Breaks(d) = {} /\ Safe(d) = d
<1>1. Len(d) \in Nat /\ Len(s) \in Nat
  BY LenProperties
<1>2. CASE Breaks(d) = {}
  <2>1. FindSafeStart(d) = 0
    BY <1>2 DEF FindSafeStart
  <2>2. /\ Safe(d) \in Seq(FileBytes) /\ Len(Safe(d)) = Len(d)
        /\ \A i \in 1..Len(d) : Safe(d)[i] = d[i]
    <3>1. 0 \in 0..Len(d) /\ Len(d) - 0 = Len(d)
      BY <1>1
    <3>2. \A i \in 1..Len(d) : 0 + i = i
      BY <1>1
    <3> QED
      BY <2>1, <3>1, <3>2, FromIsEnd DEF Safe
  <2> QED
    BY <1>2, <2>2, SeqEqual
<1>3. CASE Breaks(d) # {}
  <2> DEFINE k == FindSafeStart(d)
  <2>1. k \in 1..Len(d) /\ IsBreak(d[k]) /\ Len(Safe(d)) = Len(d) - k
    <3>1. k \in Breaks(d) /\ IsBreak(d[k]) /\ Len(Safe(d)) = Len(d) - k
      BY <1>3, SafeStartIsInside
    <3>2. k \in 1..Len(d)
      BY <1>1, <3>1, ScrollbackAssumption DEF Breaks, Least
    <3> QED
      BY <3>1, <3>2
  <2>2. d[k] = s[Len(s) - Len(d) + k]
    BY <2>1 DEF EndOf
  <2>3. Len(s) - Len(Safe(d)) = Len(s) - Len(d) + k
    BY <1>1, <2>1
  <2> QED
    BY <2>1, <2>2, <2>3 DEF BeginsALine
<1> QED
  BY <1>2, <1>3

LEMMA BeginningIsAStart ==
  ASSUME NEW d \in Seq(FileBytes), output \in Seq(FileBytes), EndOf(d, output),
         \A i \in 1..Len(output) : output[i][1] = i,
         BeginsALine(output, Len(output) - Len(d))
  PROVE  StartsALine(d)
<1>1. Len(d) \in Nat /\ Len(output) \in Nat /\ Len(d) <= Len(output)
  BY LenProperties DEF EndOf
<1> SUFFICES ASSUME d # <<>> PROVE StartsALine(d)
  BY DEF StartsALine
<1>2. 1 \in 1..Len(d)
  BY <1>1, EmptySeq, SeqEqual
<1>3. d[1] = output[Len(output) - Len(d) + 1] /\ Len(output) - Len(d) + 1 \in 1..Len(output)
  BY <1>1, <1>2 DEF EndOf
<1>4. d[1][1] = Len(output) - Len(d) + 1
  BY <1>3
<1>5. d[1][1] - 1 = Len(output) - Len(d)
  BY <1>1, <1>4
<1>6. Len(output) - Len(d) = 0 => d[1][1] = 1
  BY <1>1, <1>4
<1> QED
  BY <1>5, <1>6 DEF BeginsALine, StartsALine

(* What find_safe_start leaves of any end of the output starts a line.          *)
LEMMA SafeStartsALine ==
  ASSUME NEW d \in Seq(FileBytes), output \in Seq(FileBytes), EndOf(d, output),
         \A i \in 1..Len(output) : output[i][1] = i
  PROVE  StartsALine(Safe(d)) /\ Safe(d) \in Seq(FileBytes) /\ EndOf(Safe(d), output)
<1>1. Safe(d) \in Seq(FileBytes) /\ EndOf(Safe(d), output)
  <2>1. Safe(d) \in Seq(FileBytes) /\ EndOf(Safe(d), d)
    BY SafeStartIsInside
  <2> QED
    BY <2>1, EndOfEnd
<1>2. CASE Breaks(d) = {} /\ Safe(d) = d
  BY <1>2 DEF StartsALine
<1>3. CASE BeginsALine(output, Len(output) - Len(Safe(d)))
  BY <1>1, <1>3, BeginningIsAStart
<1> QED
  BY <1>1, <1>2, <1>3, SafeBeginsALine

------------------------------------------------------------------------------
(* The invariant *)

ScrollbackTypes ==
    /\ output \in Seq(FileBytes) /\ file \in Seq(FileBytes) /\ ring \in Seq(FileBytes)
    /\ counted \in Nat

Numbered == \A i \in 1..Len(output) : output[i][1] = i

(* The file begins a line, or is so long that no byte that follows can be one   *)
(* of those searched.                                                           *)
FileBegins ==
    \/ BeginsALine(output, Len(output) - Len(file))
    \/ Breaks(file) = {} /\ Len(file) >= Scan

ScrollbackInv ==
    /\ ScrollbackTypes /\ Numbered
    /\ EndOf(file, output) /\ EndOf(ring, output)
    /\ counted = Len(file) /\ Len(file) <= MaxFile /\ Len(ring) <= MaxSend
    /\ FileBegins

LEMMA ScrollbackInvInit == ScrollbackInit => ScrollbackInv
<1> SUFFICES ASSUME ScrollbackInit PROVE ScrollbackInv
  OBVIOUS
<1>1. <<>> \in Seq(FileBytes) /\ Len(<<>>) = 0
  BY EmptySeq
<1>2. output = <<>> /\ file = <<>> /\ ring = <<>> /\ counted = 0
  BY DEF ScrollbackInit
<1>3. ScrollbackTypes /\ Numbered /\ EndOf(file, output) /\ EndOf(ring, output)
  BY <1>1, <1>2 DEF ScrollbackTypes, Numbered, EndOf
<1>4. FileBegins
  BY <1>1, <1>2 DEF FileBegins, BeginsALine
<1> QED
  BY <1>1, <1>2, <1>3, <1>4, ScrollbackAssumption DEF ScrollbackInv

LEMMA NewKeeps == ASSUME ScrollbackInv, New PROVE ScrollbackInv'
<1>1. <<>> \in Seq(FileBytes) /\ Len(<<>>) = 0
  BY EmptySeq
<1>2. UNCHANGED <<output, file>> /\ ring' = <<>> /\ counted' = Len(file)
  BY DEF New, CountsTheFile
<1>3. ScrollbackTypes' /\ Numbered' /\ FileBegins' /\ EndOf(file, output)'
  BY <1>1, <1>2 DEF ScrollbackInv, ScrollbackTypes, Numbered, FileBegins, BeginsALine, EndOf
<1>4. Len(output) \in Nat /\ Len(file) \in Nat
  BY LenProperties DEF ScrollbackInv, ScrollbackTypes
<1>5. EndOf(<<>>, output)
  BY <1>1, <1>4 DEF EndOf
<1> QED
  BY <1>1, <1>2, <1>3, <1>5, ScrollbackAssumption DEF ScrollbackInv, EndOf

(* A chunk goes on where the output ends.                                       *)
LEMMA ChunkIsNumbered ==
  ASSUME ScrollbackTypes, Numbered, NEW kinds \in Kinds
  PROVE  /\ Chunk(kinds) \in Seq(FileBytes)
         /\ Len(Chunk(kinds)) \in 1..MaxChunk
         /\ \A i \in 1..Len(output \o Chunk(kinds)) : (output \o Chunk(kinds))[i][1] = i
<1>1. PICK n \in 1..MaxChunk : kinds \in [1..n -> BOOLEAN]
  BY DEF Kinds
<1>2. n \in Nat /\ Len(output) \in Nat
  BY LenProperties, ScrollbackAssumption DEF ScrollbackTypes
<1>3. kinds \in Seq(BOOLEAN) /\ Len(kinds) = n
  BY <1>1, <1>2
<1>4. Chunk(kinds) = [i \in 1..n |-> <<Len(output) + i, kinds[i]>>]
  BY <1>3 DEF Chunk
<1>5. \A i \in 1..n : <<Len(output) + i, kinds[i]>> \in FileBytes
  BY <1>1, <1>2 DEF FileBytes
<1>6. Chunk(kinds) \in Seq(FileBytes) /\ Len(Chunk(kinds)) = n
  BY <1>2, <1>4, <1>5
<1>7. ASSUME NEW i \in 1..Len(output \o Chunk(kinds))
      PROVE  (output \o Chunk(kinds))[i][1] = i
  <2>1. /\ Len(output \o Chunk(kinds)) = Len(output) + n
        /\ (output \o Chunk(kinds))[i]
             = IF i <= Len(output) THEN output[i] ELSE Chunk(kinds)[i - Len(output)]
    BY <1>6, ConcatProperties DEF ScrollbackTypes
  <2>2. CASE i <= Len(output)
    <3>1. i \in 1..Len(output)
      BY <1>2, <2>1, <2>2
    <3> QED
      BY <2>1, <2>2, <3>1 DEF Numbered
  <2>3. CASE ~(i <= Len(output))
    <3>1. i - Len(output) \in 1..n /\ Len(output) + (i - Len(output)) = i
      BY <1>2, <2>1, <2>3
    <3>2. Chunk(kinds)[i - Len(output)] = <<i, kinds[i - Len(output)]>>
      BY <1>4, <3>1
    <3> QED
      BY <2>1, <2>3, <3>2
  <2> QED
    BY <2>2, <2>3
<1> QED
  BY <1>6, <1>7

(* The file grows.                                                              *)
LEMMA GrowingFileBegins ==
  ASSUME ScrollbackInv, NEW data \in Seq(FileBytes), output' = output \o data, file' = file \o data
  PROVE  FileBegins'
<1>1. Len(output) \in Nat /\ Len(file) \in Nat /\ Len(data) \in Nat /\ Len(file) <= Len(output)
  BY LenProperties DEF ScrollbackInv, ScrollbackTypes, EndOf
<1>2. /\ Len(output') = Len(output) + Len(data) /\ Len(file') = Len(file) + Len(data)
      /\ \A i \in 1..Len(output) + Len(data) :
            output'[i] = IF i <= Len(output) THEN output[i] ELSE data[i - Len(output)]
      /\ \A i \in 1..Len(file) + Len(data) :
            file'[i] = IF i <= Len(file) THEN file[i] ELSE data[i - Len(file)]
  BY ConcatProperties DEF ScrollbackInv, ScrollbackTypes
<1>3. CASE BeginsALine(output, Len(output) - Len(file))
  <2> DEFINE p == Len(output) - Len(file)
  <2>1. Len(output') - Len(file') = p /\ p \in 0..Len(output)
    BY <1>1, <1>2
  <2>2. p # 0 => output'[p] = output[p]
    BY <1>1, <1>2, <2>1
  <2> QED
    BY <1>3, <2>1, <2>2 DEF FileBegins, BeginsALine
<1>4. CASE Breaks(file) = {} /\ Len(file) >= Scan
  <2>1. Least(Len(file), Scan) = Scan /\ Least(Len(file'), Scan) = Scan
    BY <1>1, <1>2, <1>4, ScrollbackAssumption DEF Least
  <2>2. \A i \in 1..Scan : file'[i] = file[i]
    BY <1>1, <1>2, <1>4, ScrollbackAssumption
  <2>3. Breaks(file)' = {}
    BY <1>4, <2>1, <2>2 DEF Breaks
  <2> QED
    BY <1>1, <1>2, <1>4, <2>3, ScrollbackAssumption DEF FileBegins
<1> QED
  BY <1>3, <1>4 DEF ScrollbackInv, FileBegins

(* The file is cut.                                                             *)
LEMMA CutFile ==
  ASSUME NEW d \in Seq(FileBytes), NEW s \in Seq(FileBytes), EndOf(d, s),
         Len(d) > MaxFile, Len(d) <= MaxFile + MaxChunk
  PROVE  LET c == CutToTail(d)
         IN  /\ c \in Seq(FileBytes) /\ EndOf(c, s) /\ Len(c) <= MaxFile
             /\ BeginsALine(s, Len(s) - Len(c)) \/ (Breaks(c) = {} /\ Len(c) >= Scan)
<1> DEFINE h == From(d, Len(d) \div 2)
<1>1. /\ Len(d) \in Nat /\ Len(d) \div 2 \in 0..Len(d)
      /\ 2 * (Len(d) \div 2) <= Len(d) /\ Len(d) <= 2 * (Len(d) \div 2) + 1
  <2>1. Len(d) \in Nat
    BY LenProperties
  <2> QED
    BY <2>1
<1>2. h \in Seq(FileBytes) /\ Len(h) = Len(d) - Len(d) \div 2 /\ EndOf(h, s)
  <2>1. h \in Seq(FileBytes) /\ Len(h) = Len(d) - Len(d) \div 2 /\ EndOf(h, d)
    BY <1>1, FromIsEnd
  <2> QED
    BY <2>1, EndOfEnd
<1>3. CutToTail(d) = Safe(h)
  BY DEF CutToTail
<1> HIDE DEF h
<1>4. /\ Safe(h) \in Seq(FileBytes) /\ Len(Safe(h)) <= Len(h) /\ EndOf(Safe(h), s)
  <2>1. /\ Safe(h) \in Seq(FileBytes) /\ EndOf(Safe(h), h)
    BY <1>2, SafeStartIsInside
  <2> QED
    BY <1>2, <2>1, EndOfEnd DEF EndOf
<1>5. Len(h) <= MaxFile /\ Len(h) >= Scan /\ Len(h) \in Nat /\ Len(Safe(h)) \in Nat
  <2>1. Len(h) \in Nat /\ Len(Safe(h)) \in Nat
    BY <1>2, <1>4, LenProperties
  <2> QED
    BY <1>1, <1>2, <2>1, ScrollbackAssumption, SMTT(30)
<1>6. Len(Safe(h)) <= MaxFile
  BY <1>4, <1>5, ScrollbackAssumption
<1>7. \/ BeginsALine(s, Len(s) - Len(Safe(h)))
      \/ Breaks(h) = {} /\ Safe(h) = h
  BY <1>2, SafeBeginsALine
<1> QED
  BY <1>3, <1>4, <1>5, <1>6, <1>7

LEMMA WriteKeeps ==
  ASSUME ScrollbackInv, NEW kinds \in Kinds, Write(Chunk(kinds))
  PROVE  ScrollbackInv'
<1> DEFINE data == Chunk(kinds)
<1>1. /\ data \in Seq(FileBytes) /\ Len(data) \in 1..MaxChunk
      /\ \A i \in 1..Len(output \o data) : (output \o data)[i][1] = i
  BY ChunkIsNumbered DEF ScrollbackInv
<1>2. output' = output \o data /\ ring' = Tailing(ring \o data, MaxSend)
  BY DEF Write, PutsOut
<1>3. IF counted + Len(data) > MaxFile
      THEN file' = CutToTail(file \o data) /\ counted' = Len(file')
      ELSE file' = file \o data /\ counted' = counted + Len(data)
  BY DEF Write
<1> HIDE DEF data
<1>4. /\ output \in Seq(FileBytes) /\ file \in Seq(FileBytes) /\ ring \in Seq(FileBytes)
      /\ Len(file) \in Nat /\ Len(data) \in Nat /\ counted = Len(file)
      /\ Len(file) <= MaxFile
  BY <1>1, LenProperties DEF ScrollbackInv, ScrollbackTypes
<1>5. output' \in Seq(FileBytes) /\ Numbered'
  BY <1>1, <1>2, <1>4, ConcatProperties DEF Numbered
<1>6. /\ file \o data \in Seq(FileBytes) /\ Len(file \o data) = Len(file) + Len(data)
      /\ EndOf(file \o data, output')
  <2>1. EndOf(file, output)
    BY DEF ScrollbackInv
  <2> QED
    BY <1>1, <1>2, <1>4, <2>1, ConcatProperties, EndOfLonger
<1>7. ring' \in Seq(FileBytes) /\ Len(ring') <= MaxSend /\ EndOf(ring', output')
  <2>1. ring \o data \in Seq(FileBytes) /\ EndOf(ring \o data, output')
    <3>1. EndOf(ring, output)
      BY DEF ScrollbackInv
    <3> QED
      BY <1>1, <1>2, <1>4, <3>1, ConcatProperties, EndOfLonger
  <2>2. /\ ring' \in Seq(FileBytes) /\ Len(ring') = Least(MaxSend, Len(ring \o data))
        /\ EndOf(ring', ring \o data)
    BY <1>2, <2>1, TailingIsEnd, ScrollbackAssumption
  <2>3. Len(ring') <= MaxSend
    <3>1. Len(ring \o data) \in Nat
      BY <2>1, LenProperties
    <3> QED
      BY <2>2, <3>1, ScrollbackAssumption DEF Least
  <2> QED
    BY <1>5, <2>1, <2>2, <2>3, EndOfEnd
<1>8. CASE counted + Len(data) > MaxFile
  <2>1. file' = CutToTail(file \o data) /\ counted' = Len(file')
    BY <1>3, <1>8
  <2>2. Len(file \o data) > MaxFile /\ Len(file \o data) <= MaxFile + MaxChunk
    BY <1>1, <1>4, <1>6, <1>8, ScrollbackAssumption
  <2>3. /\ file' \in Seq(FileBytes) /\ EndOf(file', output') /\ Len(file') <= MaxFile
        /\ FileBegins'
    BY <1>5, <1>6, <2>1, <2>2, CutFile DEF FileBegins
  <2> QED
    BY <1>5, <1>7, <2>1, <2>3, LenProperties DEF ScrollbackInv, ScrollbackTypes
<1>9. CASE ~(counted + Len(data) > MaxFile)
  <2>1. file' = file \o data /\ counted' = Len(file')
    BY <1>3, <1>4, <1>6, <1>9
  <2>2. Len(file') <= MaxFile /\ counted' \in Nat
    BY <1>1, <1>4, <1>6, <1>9, <2>1, ScrollbackAssumption
  <2>3. FileBegins'
    BY <1>1, <1>2, <2>1, GrowingFileBegins
  <2> QED
    BY <1>5, <1>6, <1>7, <2>1, <2>2, <2>3 DEF ScrollbackInv, ScrollbackTypes
<1> QED
  BY <1>8, <1>9

LEMMA ScrollbackNextKeeps == ScrollbackInv /\ [ScrollbackNext]_scrollbackVars => ScrollbackInv'
<1> SUFFICES ASSUME ScrollbackInv, [ScrollbackNext]_scrollbackVars PROVE ScrollbackInv'
  OBVIOUS
<1>1. CASE UNCHANGED scrollbackVars
  BY <1>1 DEF scrollbackVars, ScrollbackInv, ScrollbackTypes, Numbered, FileBegins, BeginsALine, EndOf, Breaks
<1>2. CASE ScrollbackNext
  BY <1>2, NewKeeps, WriteKeeps DEF ScrollbackNext
<1> QED
  BY <1>1, <1>2

------------------------------------------------------------------------------
(* What is read back.                                                           *)
LEMMA FileIsRead ==
  ASSUME ScrollbackInv, NEW limit \in 0..MaxOutput
  PROVE  LET d == ReadScrollbackWithLimit(limit)
         IN  StartsALine(d) /\ IsTail(d) /\ Len(d) <= limit /\ Len(d) <= MaxSend
<1> DEFINE size == Least(limit, MaxSend)
<1>1. size \in Nat /\ size <= limit /\ size <= MaxSend
  BY ScrollbackAssumption DEF Least
<1>2. /\ output \in Seq(FileBytes) /\ file \in Seq(FileBytes) /\ EndOf(file, output)
      /\ \A i \in 1..Len(output) : output[i][1] = i
      /\ Len(file) \in Nat
  BY LenProperties DEF ScrollbackInv, ScrollbackTypes, Numbered
<1> HIDE DEF size
<1>3. CASE Len(file) <= size
  <2>1. StartsALine(file)
    <3>1. CASE BeginsALine(output, Len(output) - Len(file))
      BY <1>2, <3>1, BeginningIsAStart
    <3>2. CASE Breaks(file) = {}
      BY <3>2 DEF StartsALine
    <3> QED
      BY <3>1, <3>2 DEF ScrollbackInv, FileBegins
  <2>2. IsTail(file)
    BY <1>2, TailIsEnd
  <2>3. Len(file) <= limit /\ Len(file) <= MaxSend
    BY <1>1, <1>2, <1>3, ScrollbackAssumption
  <2> QED
    BY <1>3, <2>1, <2>2, <2>3 DEF ReadScrollbackWithLimit, size
<1>4. CASE ~(Len(file) <= size)
  <2> DEFINE d == Tailing(file, size)
  <2>1. /\ d \in Seq(FileBytes) /\ Len(d) = Least(size, Len(file)) /\ EndOf(d, file)
    BY <1>1, <1>2, TailingIsEnd
  <2>2. Len(d) \in Nat /\ Len(d) <= size
    BY <1>1, <1>2, <2>1 DEF Least
  <2> HIDE DEF d
  <2>3. EndOf(d, output)
    BY <1>2, <2>1, EndOfEnd
  <2>4. StartsALine(Safe(d)) /\ Safe(d) \in Seq(FileBytes) /\ EndOf(Safe(d), output)
    BY <1>2, <2>1, <2>3, SafeStartsALine
  <2>5. IsTail(Safe(d))
    BY <1>2, <2>4, TailIsEnd
  <2>6. Len(Safe(d)) <= limit /\ Len(Safe(d)) <= MaxSend
    <3>1. Len(Safe(d)) <= Len(d) /\ Len(Safe(d)) \in Nat
      BY <2>1, <2>4, SafeStartIsInside, LenProperties DEF EndOf
    <3> QED
      BY <1>1, <2>2, <3>1, ScrollbackAssumption
  <2>7. ReadScrollbackWithLimit(limit) = Safe(d)
    BY <1>4 DEF ReadScrollbackWithLimit, size, d
  <2> QED
    BY <2>4, <2>5, <2>6, <2>7
<1> QED
  BY <1>3, <1>4

LEMMA ReplayFollows == ScrollbackInv => ReplayIsTheTail
<1> SUFFICES ASSUME ScrollbackInv PROVE ReplayIsTheTail
  OBVIOUS
<1>1. /\ output \in Seq(FileBytes) /\ file \in Seq(FileBytes) /\ ring \in Seq(FileBytes)
      /\ EndOf(file, output) /\ EndOf(ring, output)
      /\ \A i \in 1..Len(output) : output[i][1] = i
  BY DEF ScrollbackInv, ScrollbackTypes, Numbered
<1>2. IsTail(file) /\ IsTail(ring)
  BY <1>1, TailIsEnd
<1>3. StartsALine(GetRecentScrollback)
  BY <1>1, SafeStartsALine DEF GetRecentScrollback
<1> QED
  BY <1>2, <1>3, FileIsRead DEF ReplayIsTheTail

(* Across cuts of the file, restarts of the daemon and limits of any size, what *)
(* is replayed is the youngest output from the start of a line on, or from      *)
(* within a line longer than what is searched, and no more than was asked for.  *)
THEOREM ReplaysTheTail == ScrollbackSpec => []ReplayIsTheTail
BY ScrollbackInvInit, ScrollbackNextKeeps, ReplayFollows, PTL DEF ScrollbackSpec

(* The file never outgrows its limit, however long the reads of the terminal    *)
(* are up to that limit.                                                        *)
THEOREM FileStaysBounded == ScrollbackSpec => []FileIsBounded
<1>1. ScrollbackInv => FileIsBounded
  BY DEF ScrollbackInv, FileIsBounded
<1> QED
  BY <1>1, ScrollbackInvInit, ScrollbackNextKeeps, PTL DEF ScrollbackSpec

------------------------------------------------------------------------------
(* ShellReadiness                                                              *)

(* A sequence grows by one element to the next of its prefixes.              *)
LEMMA PrefixGrows ==
    ASSUME NEW S, NEW m \in Seq(S), NEW n \in Nat, n + 1 <= Len(m)
    PROVE  /\ SubSeq(m, 1, n) \in Seq(S) /\ Len(SubSeq(m, 1, n)) = n
           /\ m[n + 1] \in S
           /\ SubSeq(m, 1, n + 1) = Append(SubSeq(m, 1, n), m[n + 1])
<1> DEFINE short == SubSeq(m, 1, n)
<1> DEFINE long == SubSeq(m, 1, n + 1)
<1>1. Len(m) \in Nat /\ n + 1 \in 1..Len(m) /\ m[n + 1] \in S
  OBVIOUS
<1>2. short \in Seq(S) /\ Len(short) = n /\ \A i \in 1..n : short[i] = m[i]
  BY <1>1
<1>3. long \in Seq(S) /\ Len(long) = n + 1 /\ \A i \in 1..(n + 1) : long[i] = m[i]
  BY <1>1
<1> HIDE DEF short, long
<1> DEFINE grown == Append(short, m[n + 1])
<1>4. /\ grown \in Seq(S) /\ Len(grown) = n + 1 /\ grown[n + 1] = m[n + 1]
      /\ \A i \in 1..n : grown[i] = m[i]
  BY <1>1, <1>2, AppendProperties
<1> HIDE DEF grown
<1>5. \A i \in 1..(n + 1) : i \in 1..n \/ i = n + 1
  OBVIOUS
<1>6. \A i \in 1..Len(long) : long[i] = grown[i]
  BY <1>3, <1>4, <1>5
<1>7. long = grown
  BY <1>3, <1>4, <1>6, SeqEqual
<1> QED BY <1>1, <1>2, <1>7 DEF short, long, grown

(* Concatenation, on bytes.                                                  *)
LEMMA Joining ==
    /\ \A a, b \in Seq(Bytes) : a \o b \in Seq(Bytes)
    /\ \A a, b, d \in Seq(Bytes) : (a \o b) \o d = a \o (b \o d)
    /\ \A a \in Seq(Bytes) : a \o <<>> = a /\ <<>> \o a = a
    /\ \A a \in Seq(Bytes), x \in Bytes :
           /\ Append(a, x) = a \o <<x>> /\ Append(a, x) \in Seq(Bytes)
           /\ <<x>> \in Seq(Bytes)
    /\ <<>> \in Seq(Bytes)
<1>1. \A a, b \in Seq(Bytes) : a \o b \in Seq(Bytes)
  BY ConcatProperties
<1>2. \A a, b, d \in Seq(Bytes) : (a \o b) \o d = a \o (b \o d)
  BY ConcatAssociative
<1>3. \A a \in Seq(Bytes) : a \o <<>> = a /\ <<>> \o a = a
  BY ConcatEmptySeq
<1>4. \A a \in Seq(Bytes), x \in Bytes :
          Append(a, x) = a \o <<x>> /\ Append(a, x) \in Seq(Bytes)
  BY AppendIsConcat, AppendProperties
<1>5. \A x \in Bytes : <<x>> \in Seq(Bytes)
  OBVIOUS
<1> QED BY <1>1, <1>2, <1>3, <1>4, <1>5, EmptySeq

LEMMA Associates ==
    ASSUME NEW a \in Seq(Bytes), NEW b \in Seq(Bytes), NEW d \in Seq(Bytes)
    PROVE  (a \o b) \o d = a \o (b \o d)
  BY ConcatAssociative

(* The marker and what begins it.                                           *)
Marker == SHELL_READY_MARKER
Start(n) == SubSeq(Marker, 1, n)

LEMMA StartsAre ==
    /\ Marker \in Seq(Bytes) /\ Len(Marker) = 3 /\ Marker[1] = "esc"
    /\ Start(0) = <<>> /\ Start(Len(Marker)) = Marker /\ Start(1) = <<Marker[1]>>
    /\ \A n \in 0..Len(Marker) : Start(n) \in Seq(Bytes) /\ Len(Start(n)) = n
    /\ \A n \in 0..(Len(Marker) - 1) : Marker[n + 1] \in Bytes /\ Start(n + 1) = Append(Start(n), Marker[n + 1])
<1>1. Marker \in Seq(Bytes) /\ Len(Marker) = 3 /\ Marker[1] = "esc"
  BY DEF Marker, SHELL_READY_MARKER, Bytes
<1> HIDE DEF Marker
<1>2. Start(0) = <<>>
  BY <1>1 DEF Start
<1>3. Start(Len(Marker)) = Marker
  BY <1>1 DEF Start
<1>4. ASSUME NEW n \in 0..Len(Marker) PROVE Start(n) \in Seq(Bytes) /\ Len(Start(n)) = n
  <2>1. n \in Nat /\ 1 \in 1..(Len(Marker) + 1) /\ n \in (1 - 1)..Len(Marker)
    BY <1>1
  <2>2. SubSeq(Marker, 1, n) \in Seq(Bytes)
    BY <1>1, <2>1
  <2>3. Len(SubSeq(Marker, 1, n)) = n
    BY <1>1, <2>1
  <2> QED BY <2>2, <2>3 DEF Start
<1>5. ASSUME NEW n \in 0..(Len(Marker) - 1)
      PROVE  Marker[n + 1] \in Bytes /\ Start(n + 1) = Append(Start(n), Marker[n + 1])
  <2>1. n \in Nat /\ n + 1 <= Len(Marker)
    BY <1>1
  <2>2. Marker[n + 1] \in Bytes /\ SubSeq(Marker, 1, n + 1) = Append(SubSeq(Marker, 1, n), Marker[n + 1])
    BY <1>1, <2>1, PrefixGrows
  <2> QED BY <2>2 DEF Start
<1>6. Start(1) = <<Marker[1]>>
  <2> DEFINE a == Start(1)
  <2> DEFINE b == <<Marker[1]>>
  <2>1. a \in Seq(Bytes) /\ Len(a) = 1 /\ a[1] = Marker[1]
    BY <1>1 DEF Start
  <2>2. b \in Seq(Bytes) /\ Len(b) = 1 /\ b[1] = Marker[1]
    BY <1>1
  <2> HIDE DEF a, b
  <2>3. \A i \in 1..Len(a) : a[i] = b[i]
    BY <2>1, <2>2
  <2>4. a = b
    BY <2>1, <2>2, <2>3, SeqEqual
  <2> QED BY <2>4 DEF a, b
<1> QED BY <1>1, <1>2, <1>3, <1>4, <1>5, <1>6

(* went is wrote without a piece that begins the marker.                     *)
Withheld(wrote, went) ==
    \E u, v \in Seq(Bytes) : \E n \in 0..Len(Marker) :
        wrote = u \o (Start(n) \o v) /\ went = u \o v

LEMMA WithheldGoesOn ==
    ASSUME NEW wrote, NEW went, Withheld(wrote, went), NEW d \in Seq(Bytes)
    PROVE  Withheld(wrote \o d, went \o d)
<1>1. PICK u \in Seq(Bytes), v \in Seq(Bytes), n \in 0..Len(Marker) :
          wrote = u \o (Start(n) \o v) /\ went = u \o v
  BY DEF Withheld
<1>2. Start(n) \in Seq(Bytes)
  BY StartsAre
<1> DEFINE s == Start(n)
<1> DEFINE w == v \o d
<1>3. s \in Seq(Bytes) /\ w \in Seq(Bytes)
  BY <1>2
<1> HIDE DEF s
<1>4. (u \o (s \o v)) \o d = u \o (s \o w) /\ (u \o v) \o d = u \o w
  <2>1. (s \o v) \in Seq(Bytes)
    BY <1>3, Joining
  <2>2. (u \o (s \o v)) \o d = u \o ((s \o v) \o d)
    BY <2>1, Joining, ZenonT(60)
  <2>3. (s \o v) \o d = s \o (v \o d)
    BY <1>3, Joining, ZenonT(60)
  <2>4. (u \o v) \o d = u \o (v \o d)
    BY Joining, ZenonT(60)
  <2> QED BY <2>2, <2>3, <2>4, Zenon
<1> HIDE DEF w
<1> QED BY <1>1, <1>3, <1>4 DEF Withheld, s

LEMMA NothingWithheld ==
    ASSUME NEW wrote \in Seq(Bytes)
    PROVE  Withheld(wrote, wrote)
<1>1. Start(0) = <<>> /\ 0 \in 0..Len(Marker) /\ <<>> \in Seq(Bytes)
  BY StartsAre
<1>2. wrote = wrote \o (<<>> \o <<>>) /\ wrote = wrote \o <<>>
  OBVIOUS
<1> QED BY <1>1, <1>2 DEF Withheld

(* What the bytes scanned so far have become; went and wrote are what was    *)
(* forwarded before, and what was written before and of the chunk scanned.   *)
ScannedTo(h, f, ready, went, wrote) ==
    /\ h \in Seq(Bytes) /\ f \in Seq(Bytes) /\ ready \in BOOLEAN
    /\ ~ready => /\ \E n \in 0..(Len(Marker) - 1) : h = Start(n)
                 /\ (went \o f) \o h = wrote
    /\ ready => h = <<>> /\ Withheld(wrote, went \o f)

Scanned(acc, went, wrote) ==
    /\ acc = [held |-> acc.held, forward |-> acc.forward, ready |-> acc.ready]
    /\ ScannedTo(acc.held, acc.forward, acc.ready, went, wrote)

LEMMA ScannedIs ==
    ASSUME NEW went, NEW wrote, NEW acc, NEW h, NEW f, NEW ready,
           acc = [held |-> h, forward |-> f, ready |-> ready],
           ScannedTo(h, f, ready, went, wrote)
    PROVE  Scanned(acc, went, wrote)
<1>1. acc.held = h /\ acc.forward = f /\ acc.ready = ready
  OBVIOUS
<1> QED BY <1>1 DEF Scanned

(* Whether held bytes go on or are kept, nothing changes its place.          *)
InOrder(w, f, h, byte, all) ==
    /\ f \o h \in Seq(Bytes) /\ Append(f \o h, byte) \in Seq(Bytes)
    /\ all \o <<byte>> \in Seq(Bytes)
    /\ all \o <<byte>> = (w \o f) \o Append(h, byte)
    /\ (w \o (f \o h)) \o <<byte>> = all \o <<byte>>
    /\ (w \o Append(f \o h, byte)) \o <<>> = all \o <<byte>>

LEMMA FlushesInOrder ==
    ASSUME NEW w \in Seq(Bytes), NEW f \in Seq(Bytes), NEW h \in Seq(Bytes), NEW byte \in Bytes,
           NEW all \in Seq(Bytes), (w \o f) \o h = all
    PROVE  InOrder(w, f, h, byte, all)
<1> DEFINE x == <<byte>>
<1>1. x \in Seq(Bytes) /\ Append(h, byte) = h \o x
  BY Joining, Zenon
<1>2. \A g \in Seq(Bytes) : Append(g, byte) = g \o x /\ Append(g, byte) \in Seq(Bytes)
  BY Joining, Zenon
<1> HIDE DEF x
<1>3. w \o f \in Seq(Bytes) /\ f \o h \in Seq(Bytes)
  BY Joining, Zenon
<1>4. w \o (f \o h) = all
  BY Associates, ZenonT(60)
<1> DEFINE a == w \o f
<1>5. a \o (h \o x) = all \o x
  <2>1. a \in Seq(Bytes) /\ a \o h = all
    BY <1>3
  <2> HIDE DEF a
  <2>2. (a \o h) \o x = a \o (h \o x)
    BY <1>1, <2>1, Associates
  <2> QED BY <2>1, <2>2, Zenon
<1> DEFINE g == f \o h
<1>6. w \o Append(g, byte) = all \o x /\ Append(g, byte) \in Seq(Bytes)
  <2>1. g \in Seq(Bytes) /\ w \o g = all
    BY <1>3, <1>4
  <2> HIDE DEF g
  <2>2. (w \o g) \o x = w \o (g \o x)
    BY <1>1, <2>1, Associates, ZenonT(60)
  <2> QED BY <1>2, <2>1, <2>2, Zenon
<1>7. all \o x \in Seq(Bytes) /\ (all \o x) \o <<>> = all \o x
  <2>1. all \o x \in Seq(Bytes)
    BY <1>1, Joining, Zenon
  <2> QED BY <2>1, Joining, Zenon
<1> HIDE DEF a, g
<1>8. all \o x = (w \o f) \o Append(h, byte)
  BY <1>1, <1>5, Zenon DEF a
<1>9. (w \o Append(f \o h, byte)) \o <<>> = all \o x /\ Append(f \o h, byte) \in Seq(Bytes)
  BY <1>6, <1>7, Zenon DEF g
<1> QED BY <1>3, <1>4, <1>7, <1>8, <1>9, Zenon DEF x, InOrder

LEMMA ScansOneByte ==
    ASSUME NEW went \in Seq(Bytes), NEW wrote \in Seq(Bytes), NEW byte \in Bytes,
           NEW acc, Scanned(acc, went, wrote)
    PROVE  Scanned(ScanByte(acc, byte), went, wrote \o <<byte>>)
<1> DEFINE new == ScanByte(acc, byte)
<1> DEFINE gone == went \o acc.forward
<1>1. /\ acc = [held |-> acc.held, forward |-> acc.forward, ready |-> acc.ready]
      /\ acc.held \in Seq(Bytes) /\ acc.forward \in Seq(Bytes) /\ acc.ready \in BOOLEAN
  BY DEF Scanned, ScannedTo
<1>2. gone \in Seq(Bytes) /\ <<byte>> \in Seq(Bytes) /\ <<>> \in Seq(Bytes)
      /\ went \in Seq(Bytes) /\ wrote \in Seq(Bytes)
  BY <1>1
<1>3. Append(acc.forward, byte) \in Seq(Bytes)
      /\ went \o Append(acc.forward, byte) = gone \o <<byte>>
  BY <1>1
<1>4. CASE acc.ready
  <2>1. new = [held |-> acc.held, forward |-> Append(acc.forward, byte), ready |-> TRUE]
    BY <1>1, <1>4 DEF ScanByte
  <2>2. Withheld(wrote, gone) /\ acc.held = <<>>
    BY <1>4 DEF Scanned, ScannedTo
  <2>3. Withheld(wrote \o <<byte>>, gone \o <<byte>>)
    BY <1>2, <2>2, WithheldGoesOn
  <2>4. ScannedTo(acc.held, Append(acc.forward, byte), TRUE, went, wrote \o <<byte>>)
    BY <1>1, <1>3, <2>2, <2>3 DEF ScannedTo
  <2> QED BY <2>1, <2>4, ScannedIs
<1>5. CASE ~acc.ready
  <2>1. PICK n \in 0..(Len(Marker) - 1) : acc.held = Start(n)
    BY <1>5 DEF Scanned, ScannedTo
  <2>2. gone \o acc.held = wrote
    BY <1>5 DEF Scanned, ScannedTo
  <2>3. /\ Len(acc.held) = n /\ Marker[n + 1] \in Bytes /\ Start(n + 1) = Append(acc.held, Marker[n + 1])
        /\ Len(Marker) = 3 /\ Start(0) = <<>> /\ Start(Len(Marker)) = Marker /\ Start(1) = <<Marker[1]>>
        /\ n \in Nat /\ n + 1 \in 0..Len(Marker)
    BY <2>1, StartsAre
  <2> DEFINE h == acc.held
  <2> DEFINE f == acc.forward
  <2>4. wrote \o <<byte>> = (went \o f) \o Append(h, byte)
        /\ f \o h \in Seq(Bytes)
        /\ Append(f \o h, byte) \in Seq(Bytes)
        /\ (went \o Append(f \o h, byte)) \o <<>> = wrote \o <<byte>>
        /\ (went \o (f \o h)) \o <<byte>> = wrote \o <<byte>>
        /\ wrote \o <<byte>> \in Seq(Bytes)
    <3>1. h \in Seq(Bytes) /\ f \in Seq(Bytes) /\ (went \o f) \o h = wrote
      BY <1>1, <2>2
    <3> HIDE DEF h, f, gone
    <3>2. InOrder(went, f, h, byte, wrote)
      BY <3>1, FlushesInOrder
    <3> QED BY <3>2, Zenon DEF InOrder
  <2>5. wrote \o <<byte>> = gone \o Append(h, byte)
    BY <2>4
  <2>6. CASE byte = Marker[n + 1] /\ n + 1 = Len(Marker)
    <3>1. new = [held |-> <<>>, forward |-> f, ready |-> TRUE]
      BY <1>1, <1>5, <2>3, <2>6 DEF ScanByte, Marker
    <3>2. Append(h, byte) = Start(Len(Marker)) /\ Len(Marker) \in 0..Len(Marker)
      BY <2>3, <2>6
    <3>3. Start(Len(Marker)) = Start(Len(Marker)) \o <<>>
      BY <2>3, StartsAre
    <3>4. gone = gone \o <<>>
      BY <1>2
    <3>5. Withheld(wrote \o <<byte>>, gone)
      <4> HIDE DEF gone, h
      <4> QED BY <1>2, <2>5, <3>2, <3>3, <3>4 DEF Withheld
    <3>6. ScannedTo(<<>>, f, TRUE, went, wrote \o <<byte>>)
      BY <1>1, <1>2, <3>5 DEF ScannedTo
    <3> QED BY <3>1, <3>6, ScannedIs
  <2>7. CASE byte = Marker[n + 1] /\ n + 1 # Len(Marker)
    <3>1. new = [held |-> Append(h, byte), forward |-> f, ready |-> FALSE]
      BY <1>1, <1>5, <2>3, <2>7 DEF ScanByte, Marker
    <3>2. n + 1 \in 0..(Len(Marker) - 1) /\ Append(h, byte) = Start(n + 1)
      BY <2>3, <2>7
    <3>3. Append(h, byte) \in Seq(Bytes)
      BY <1>1
    <3>4. ScannedTo(Append(h, byte), f, FALSE, went, wrote \o <<byte>>)
      BY <1>1, <2>5, <3>2, <3>3 DEF ScannedTo
    <3> QED BY <3>1, <3>4, ScannedIs
  <2>8. CASE byte # Marker[n + 1] /\ byte = Marker[1]
    <3>1. new = [held |-> <<byte>>, forward |-> f \o h, ready |-> FALSE]
      BY <1>1, <1>5, <2>3, <2>8 DEF ScanByte, Marker, Flushed
    <3>2. 1 \in 0..(Len(Marker) - 1) /\ <<byte>> = Start(1)
      BY <2>3, <2>8
    <3>3. ScannedTo(<<byte>>, f \o h, FALSE, went, wrote \o <<byte>>)
      BY <1>2, <2>4, <3>2 DEF ScannedTo
    <3> QED BY <3>1, <3>3, ScannedIs
  <2>9. CASE byte # Marker[n + 1] /\ byte # Marker[1]
    <3>1. new = [held |-> <<>>, forward |-> Append(f \o h, byte), ready |-> FALSE]
      BY <1>1, <1>5, <2>3, <2>9 DEF ScanByte, Marker, Flushed
    <3>2. 0 \in 0..(Len(Marker) - 1)
      BY <2>3
    <3>3. ScannedTo(<<>>, Append(f \o h, byte), FALSE, went, wrote \o <<byte>>)
      BY <1>2, <2>3, <2>4, <3>2 DEF ScannedTo
    <3> QED BY <3>1, <3>3, ScannedIs
  <2> QED BY <2>6, <2>7, <2>8, <2>9
<1> QED BY <1>1, <1>4, <1>5

(* A set of numbers that is not empty has a least one.                       *)
LEMMA HasLeast ==
    ASSUME NEW T \in SUBSET Nat, T # {}
    PROVE  \E m \in T : \A n \in T : ~(n < m)
<1>1. PICK m \in T : \A n \in T : ~(<<n, m>> \in OpToRel(<, Nat))
  BY NatLessThanWellFounded, WFMin
<1> QED BY <1>1 DEF OpToRel

(* The scan of a read, byte by byte from what the last read left held.       *)
LEMMA ScansAChunk ==
    ASSUME NEW went \in Seq(Bytes), NEW wrote \in Seq(Bytes), NEW data \in Seq(Bytes),
           ~ContainsShellIntegrationOsc(data),
           NEW n \in 0..(Len(Marker) - 1), held = Start(n), went \o held = wrote
    PROVE  Scanned(ScanOutput(data), went, wrote \o data)
<1> DEFINE from == [held |-> held, forward |-> <<>>, ready |-> FALSE]
<1> DEFINE Step(g, i) == IF i = 0 THEN from ELSE ScanByte(g[i - 1], data[i])
<1> DEFINE Run(g, m) == g = [i \in 0..m |-> Step(g, i)]
<1>1. Len(data) \in Nat /\ held \in Seq(Bytes)
  BY StartsAre
<1>2. \E g : Run(g, Len(data))
  <2> DEFINE T == {m \in Nat : ~\E g : Run(g, m)}
  <2> SUFFICES ASSUME T # {} PROVE FALSE
    BY <1>1
  <2>1. PICK m \in T : \A i \in T : ~(i < m)
    <3>1. T \subseteq Nat
      OBVIOUS
    <3> HIDE DEF T
    <3> QED BY <3>1, HasLeast
  <2> HIDE DEF from
  <2>2. CASE m = 0
    <3> DEFINE g == [i \in 0..0 |-> from]
    <3>1. \A i \in 0..0 : i = 0
      OBVIOUS
    <3>2. g = [i \in 0..0 |-> Step(g, i)]
      BY <3>1
    <3> QED BY <2>2, <3>2
  <2>3. CASE m # 0
    <3>1. m \in Nat /\ m - 1 \in Nat /\ m - 1 < m /\ (m - 1) + 1 = m
      BY <2>3
    <3>2. PICK g : Run(g, m - 1)
      BY <2>1, <3>1
    <3> DEFINE h == [i \in 0..m |-> IF i = m THEN ScanByte(g[m - 1], data[m]) ELSE g[i]]
    <3>3. \A i \in 0..m : h[i] = Step(h, i)
      <4> SUFFICES ASSUME NEW i \in 0..m PROVE h[i] = Step(h, i)
        OBVIOUS
      <4>1. CASE i = m
        <5>1. h[m - 1] = g[m - 1] /\ m # 0 /\ h[m] = ScanByte(g[m - 1], data[m])
          BY <3>1, <2>3
        <5> QED BY <4>1, <5>1
      <4>2. CASE i # m
        <5>1. i \in 0..(m - 1) /\ h[i] = g[i]
          BY <4>2, <3>1
        <5>2. g[i] = Step(g, i)
          BY <3>2, <5>1
        <5>3. i # 0 => h[i - 1] = g[i - 1]
          BY <4>2, <3>1
        <5> QED BY <5>1, <5>2, <5>3
      <4> QED BY <4>1, <4>2
    <3>4. h = [i \in 0..m |-> Step(h, i)]
      <4> DEFINE r == [i \in 0..m |-> Step(h, i)]
      <4>1. \A i \in 0..m : h[i] = r[i]
        BY <3>3
      <4> QED BY <4>1
    <3> QED BY <3>4
  <2> QED BY <2>2, <2>3
<1> DEFINE scan == CHOOSE g : Run(g, Len(data))
<1>3. Run(scan, Len(data))
  <2> HIDE DEF Run
  <2> QED BY <1>2
<1>4. ScanOutput(data) = scan[Len(data)]
  BY DEF ScanOutput
<1> HIDE DEF scan
<1>5. \A i \in 0..Len(data) : scan[i] = Step(scan, i)
  BY <1>3
<1> DEFINE All(i) == wrote \o SubSeq(data, 1, i)
<1>6. \A i \in 0..Len(data) : Scanned(scan[i], went, All(i))
  <2> DEFINE T == {i \in 0..Len(data) : ~Scanned(scan[i], went, All(i))}
  <2> SUFFICES ASSUME T # {} PROVE FALSE
    OBVIOUS
  <2>1. PICK m \in T : \A i \in T : ~(i < m)
    <3>1. T \subseteq Nat
      BY <1>1
    <3> HIDE DEF T
    <3> QED BY <3>1, HasLeast
  <2>2. m \in 0..Len(data) /\ m \in Nat /\ ~Scanned(scan[m], went, All(m))
    BY <1>1
  <2>3. CASE m = 0
    <3>1. scan[m] = from
      BY <2>2, <2>3, <1>5
    <3>2. SubSeq(data, 1, 0) = <<>> /\ wrote \o <<>> = wrote /\ went \o <<>> = went
      OBVIOUS
    <3>3. All(m) = wrote
      BY <2>3, <3>2
    <3>4. ScannedTo(held, <<>>, FALSE, went, wrote)
      BY <1>1, <3>2 DEF ScannedTo
    <3>5. Scanned(from, went, wrote)
      BY <3>4, ScannedIs
    <3> QED BY <2>2, <3>1, <3>3, <3>5
  <2>4. CASE m # 0
    <3>1. m - 1 \in Nat /\ m - 1 \in 0..Len(data) /\ m - 1 < m /\ (m - 1) + 1 = m /\ m <= Len(data)
      BY <2>2, <2>4, <1>1
    <3>2. Scanned(scan[m - 1], went, All(m - 1))
      BY <2>1, <3>1
    <3>3. scan[m] = ScanByte(scan[m - 1], data[m])
      BY <2>2, <2>4, <1>5
    <3> DEFINE i == m - 1
    <3> DEFINE s == SubSeq(data, 1, i)
    <3>4. i \in Nat /\ i + 1 <= Len(data) /\ i + 1 = m
      BY <3>1
    <3> HIDE DEF i
    <3>5. s \in Seq(Bytes) /\ data[i + 1] \in Bytes /\ SubSeq(data, 1, i + 1) = Append(s, data[i + 1])
      BY <3>4, PrefixGrows
    <3> HIDE DEF s
    <3> DEFINE byte == data[i + 1]
    <3> DEFINE before == wrote \o s
    <3>6. byte \in Bytes /\ before \in Seq(Bytes) /\ Append(s, byte) = s \o <<byte>>
          /\ <<byte>> \in Seq(Bytes)
      <4>1. byte \in Bytes /\ s \in Seq(Bytes)
        BY <3>5
      <4> HIDE DEF byte
      <4> QED BY <4>1, Joining
    <3>7. All(m) = before \o <<byte>>
      <4>1. All(m) = wrote \o Append(s, byte)
        BY <3>4, <3>5
      <4> DEFINE x == <<byte>>
      <4>2. x \in Seq(Bytes) /\ Append(s, byte) = s \o x
        BY <3>6
      <4> HIDE DEF x
      <4>3. (wrote \o s) \o x = wrote \o (s \o x)
        BY <3>5, <4>2, Associates, ZenonT(60)
      <4> QED BY <4>1, <4>2, <4>3 DEF x
    <3>8. Scanned(scan[i], went, before)
      BY <3>2 DEF i, s
    <3> HIDE DEF before, byte
    <3>9. Scanned(ScanByte(scan[i], byte), went, before \o <<byte>>)
      BY <3>6, <3>8, ScansOneByte
    <3>10. scan[m] = ScanByte(scan[i], byte)
      BY <3>3, <3>4 DEF i, byte
    <3> QED BY <2>2, <3>7, <3>9, <3>10
  <2> QED BY <2>3, <2>4
<1>7. Len(data) \in 0..Len(data) /\ SubSeq(data, 1, Len(data)) = data
  BY <1>1, SubSeqFull
<1> QED BY <1>4, <1>6, <1>7

(* What a tracker holds when it stops waiting is withheld for good.          *)
LEMMA HeldIsLost ==
    ASSUME NEW went \in Seq(Bytes), NEW n \in 0..Len(Marker)
    PROVE  Withheld(went \o Start(n), went)
<1> DEFINE s == Start(n)
<1>1. s \in Seq(Bytes) /\ <<>> \in Seq(Bytes)
  BY StartsAre
<1> HIDE DEF s
<1>2. s \o <<>> = s /\ went = went \o <<>>
  BY <1>1, Joining
<1> QED BY <1>1, <1>2 DEF Withheld, s

(* The piece that is missing, named by its place in what was written.        *)
LEMMA WithheldIsASegment ==
    ASSUME NEW wrote, NEW went, Withheld(wrote, went)
    PROVE  \E i \in 0..Len(wrote), k \in 0..Len(Marker) :
               /\ i + k <= Len(wrote)
               /\ SubSeq(wrote, i + 1, i + k) = SubSeq(Marker, 1, k)
               /\ went = WithoutSegment(wrote, i, i + k)
<1>1. PICK u \in Seq(Bytes), v \in Seq(Bytes), n \in 0..Len(Marker) :
          wrote = u \o (Start(n) \o v) /\ went = u \o v
  BY DEF Withheld
<1> DEFINE s == Start(n)
<1> DEFINE l == Len(u)
<1>2. s \in Seq(Bytes) /\ Len(s) = n /\ n \in Nat /\ l \in Nat /\ Len(v) \in Nat
  BY StartsAre
<1> HIDE DEF s, l
<1> DEFINE w == s \o v
<1>3. /\ w \in Seq(Bytes) /\ Len(w) = n + Len(v)
      /\ \A j \in 1..Len(w) : w[j] = IF j <= n THEN s[j] ELSE v[j - n]
  BY <1>2, ConcatProperties
<1> HIDE DEF w
<1> DEFINE all == u \o w
<1>4. /\ all \in Seq(Bytes) /\ Len(all) = l + (n + Len(v))
      /\ \A j \in 1..Len(all) : all[j] = IF j <= l THEN u[j] ELSE w[j - l]
  <2>1. /\ all \in Seq(Bytes) /\ Len(all) = Len(u) + Len(w)
        /\ \A j \in 1..Len(all) : all[j] = IF j <= Len(u) THEN u[j] ELSE w[j - Len(u)]
    <3>1. u \in Seq(Bytes) /\ w \in Seq(Bytes)
      BY <1>3
    <3>2. /\ all \in Seq(Bytes) /\ Len(all) = Len(u) + Len(w)
          /\ \A j \in 1..(Len(u) + Len(w)) :
                 all[j] = IF j <= Len(u) THEN u[j] ELSE w[j - Len(u)]
      BY <3>1, ConcatProperties, Zenon
    <3> QED BY <3>2, Zenon
  <2> HIDE DEF all
  <2> QED BY <1>3, <2>1 DEF l
<1>5. wrote = all
  BY <1>1 DEF w, s
<1> HIDE DEF all
<1>6. l \in 0..Len(all) /\ l + n <= Len(all) /\ l + n \in Nat
  BY <1>2, <1>4
<1>7. SubSeq(all, l + 1, l + n) = s
  <2> DEFINE a == SubSeq(all, l + 1, l + n)
  <2>1. a \in Seq(Bytes) /\ Len(a) = n /\ \A j \in 1..n : a[j] = all[l + j]
    BY <1>2, <1>4, <1>6
  <2> HIDE DEF a
  <2>2. ASSUME NEW j \in 1..n PROVE a[j] = s[j]
    <3>1. j \in Nat /\ l + j \in 1..Len(all) /\ ~(l + j <= l) /\ (l + j) - l = j
      BY <1>2, <1>4
    <3>2. all[l + j] = w[j]
      BY <1>4, <3>1
    <3>3. j \in 1..Len(w) /\ j <= n
      BY <1>2, <1>3
    <3>4. w[j] = s[j]
      BY <1>3, <3>3
    <3> QED BY <2>1, <3>2, <3>4
  <2>3. a = s
    BY <1>2, <2>1, <2>2, SeqEqual
  <2> QED BY <2>3 DEF a
<1>8. SubSeq(all, 1, l) = u
  <2> DEFINE a == SubSeq(all, 1, l)
  <2>1. a \in Seq(Bytes) /\ Len(a) = l /\ \A j \in 1..l : a[j] = all[j]
    BY <1>2, <1>4, <1>6
  <2> HIDE DEF a
  <2>2. ASSUME NEW j \in 1..l PROVE a[j] = u[j]
    <3>1. j \in 1..Len(all) /\ j <= l
      BY <1>2, <1>4
    <3> QED BY <1>4, <2>1, <3>1
  <2>3. Len(u) = l
    BY DEF l
  <2>4. a = u
    BY <2>1, <2>2, <2>3, SeqEqual
  <2> QED BY <2>4 DEF a
<1>9. SubSeq(all, (l + n) + 1, Len(all)) = v
  <2> DEFINE a == SubSeq(all, (l + n) + 1, Len(all))
  <2> DEFINE b == (l + n) + 1
  <2> DEFINE c == Len(all)
  <2>0. b \in Nat /\ c \in Nat /\ b <= c + 1 /\ b >= 1 /\ (c - b) + 1 = Len(v)
    BY <1>2, <1>4
  <2> HIDE DEF b, c
  <2>1. /\ a \in Seq(Bytes) /\ Len(a) = Len(v)
        /\ \A j \in 1..Len(v) : a[j] = all[(l + n) + j]
    <3>1. SubSeq(all, b, c) \in Seq(Bytes)
      BY <1>4, <2>0 DEF c
    <3>2. Len(SubSeq(all, b, c)) = Len(v)
      BY <1>4, <2>0, <1>2 DEF c
    <3>3. \A j \in 1..Len(v) : SubSeq(all, b, c)[j] = all[(b + j) - 1]
      BY <1>4, <2>0, <1>2 DEF c
    <3>4. \A j \in 1..Len(v) : (b + j) - 1 = (l + n) + j
      BY <1>2 DEF b
    <3> QED BY <3>1, <3>2, <3>3, <3>4 DEF b, c
  <2> HIDE DEF a
  <2>2. ASSUME NEW j \in 1..Len(v) PROVE a[j] = v[j]
    <3>1. /\ j \in Nat /\ (l + n) + j \in 1..Len(all)
          /\ ~((l + n) + j <= l) /\ ((l + n) + j) - l = n + j
      BY <1>2, <1>4
    <3>2. all[(l + n) + j] = w[n + j]
      BY <1>4, <3>1
    <3>3. n + j \in 1..Len(w) /\ ~(n + j <= n) /\ (n + j) - n = j
      BY <1>2, <1>3
    <3>4. w[n + j] = v[j]
      BY <1>3, <3>3
    <3> QED BY <2>1, <3>2, <3>4
  <2>3. a = v
    BY <2>1, <2>2, SeqEqual
  <2> QED BY <2>3 DEF a
<1>10. went = WithoutSegment(all, l, l + n)
  BY <1>1, <1>8, <1>9 DEF WithoutSegment
<1>11. s = SubSeq(Marker, 1, n)
  BY DEF s, Start
<1> QED BY <1>5, <1>6, <1>7, <1>10, <1>11

ReadyStates == {"none", "Pending", "Ready", "TimedOut", "Unsupported"}

(* While the shell is not ready nothing is missing, and what is held is the  *)
(* start of the marker; afterwards nothing is held.                          *)
ReadinessInv ==
    /\ readyState \in ReadyStates
    /\ held \in Seq(Bytes) /\ forwarded \in Seq(Bytes) /\ written \in Seq(Bytes)
    /\ readyState = "none" => forwarded = <<>> /\ written = <<>>
    /\ readyState = "Pending" =>
           /\ \E n \in 0..(Len(Marker) - 1) : held = Start(n)
           /\ forwarded \o held = written
    /\ readyState # "Pending" => held = <<>> /\ Withheld(written, forwarded)

LEMMA ChunksAreBytes ==
    ASSUME NEW data \in Chunks
    PROVE  data \in Seq(Bytes)
<1>1. PICK n \in 1..MaxRead : data \in [1..n -> Bytes]
  BY DEF Chunks
<1>2. n \in Nat
  BY ReadinessAssumption
<1> QED BY <1>1, <1>2

LEMMA ReadinessStarts == ReadinessInit => ReadinessInv
<1> SUFFICES ASSUME ReadinessInit PROVE ReadinessInv
  OBVIOUS
<1>1. <<>> \in Seq(Bytes) /\ readyState = "none"
  BY EmptySeq DEF ReadinessInit
<1>2. Withheld(<<>>, <<>>)
  BY <1>1, NothingWithheld
<1> QED BY <1>1, <1>2 DEF ReadinessInit, ReadinessInv, ReadyStates

LEMMA TrackerStarts ==
    ASSUME ReadinessInv, NEW supported \in BOOLEAN, NEW recovered \in BOOLEAN,
           NewTracker(supported, recovered)
    PROVE  ReadinessInv'
<1>1. /\ held' = held /\ forwarded' = forwarded /\ written' = written
      /\ readyState' \in {"Pending", "Unsupported"}
      /\ held = <<>> /\ forwarded = <<>> /\ written = <<>> /\ Withheld(written, forwarded)
  BY DEF ReadinessInv, NewTracker
<1>2. 0 \in 0..(Len(Marker) - 1) /\ Start(0) = <<>>
  BY StartsAre
<1>3. <<>> \o <<>> = <<>> /\ <<>> \in Seq(Bytes)
  BY EmptySeq, Joining
<1>4. readyState' \in ReadyStates
  BY <1>1 DEF ReadyStates
<1>5. \E n \in 0..(Len(Marker) - 1) : held' = Start(n)
  BY <1>1, <1>2
<1>6. forwarded' \o held' = written'
  BY <1>1, <1>3
<1>7. Withheld(written', forwarded') /\ held' = <<>> /\ forwarded' = <<>> /\ written' = <<>>
  BY <1>1
<1> QED BY <1>3, <1>4, <1>5, <1>6, <1>7 DEF ReadinessInv

LEMMA OutputGoesOn ==
    ASSUME ReadinessInv, NEW data \in Chunks, OnPtyData(data)
    PROVE  ReadinessInv'
<1>1. data \in Seq(Bytes)
  BY ChunksAreBytes
<1>2. written' = written \o data /\ written' \in Seq(Bytes) /\ readyState # "none"
  <2>1. written' = written \o data /\ written \in Seq(Bytes) /\ readyState # "none"
    BY DEF OnPtyData, ReadinessInv
  <2> QED BY <1>1, <2>1
<1>3. CASE readyState # "Pending"
  <2>1. held' = held /\ readyState' = readyState /\ forwarded' = forwarded \o data
    BY <1>3 DEF OnPtyData
  <2>2. /\ held = <<>> /\ Withheld(written, forwarded) /\ forwarded \in Seq(Bytes)
        /\ held \in Seq(Bytes) /\ readyState \in ReadyStates
    BY <1>3 DEF ReadinessInv
  <2>3. Withheld(written', forwarded')
    BY <1>1, <1>2, <2>1, <2>2, WithheldGoesOn
  <2>4. forwarded' \in Seq(Bytes)
    BY <1>1, <2>1, <2>2
  <2> QED BY <1>2, <1>3, <2>1, <2>2, <2>3, <2>4 DEF ReadinessInv
<1>4. CASE readyState = "Pending"
  <2> DEFINE scan == ScanOutput(data)
  <2>1. /\ held' = scan.held /\ forwarded' = forwarded \o scan.forward
        /\ readyState' = IF scan.ready THEN "Ready" ELSE "Pending"
    BY <1>4 DEF OnPtyData
  <2>2. PICK n \in 0..(Len(Marker) - 1) : held = Start(n)
    BY <1>4 DEF ReadinessInv
  <2>3. forwarded \o held = written /\ forwarded \in Seq(Bytes) /\ written \in Seq(Bytes)
    BY <1>4 DEF ReadinessInv
  <2>4. CASE ContainsShellIntegrationOsc(data)
    <3>1. scan = [held |-> <<>>, forward |-> data, ready |-> TRUE]
      BY <2>4 DEF ScanOutput
    <3>2. held' = <<>> /\ forwarded' = forwarded \o data /\ readyState' = "Ready"
      BY <2>1, <3>1
    <3>3. n \in 0..Len(Marker)
      BY StartsAre
    <3>4. Withheld(written, forwarded)
      BY <2>2, <2>3, <3>3, HeldIsLost
    <3>5. Withheld(written', forwarded')
      BY <1>1, <1>2, <3>2, <3>4, WithheldGoesOn
    <3>6. forwarded' \in Seq(Bytes) /\ held' \in Seq(Bytes) /\ readyState' \in ReadyStates
      BY <1>1, <2>3, <3>2 DEF ReadyStates
    <3> QED BY <1>2, <3>2, <3>5, <3>6 DEF ReadinessInv
  <2>5. CASE ~ContainsShellIntegrationOsc(data)
    <3>1. Scanned(scan, forwarded, written')
      BY <1>1, <1>2, <2>2, <2>3, <2>5, ScansAChunk
    <3> HIDE DEF scan
    <3>2. ScannedTo(scan.held, scan.forward, scan.ready, forwarded, written')
      BY <3>1 DEF Scanned
    <3>3. scan.held \in Seq(Bytes) /\ scan.forward \in Seq(Bytes) /\ scan.ready \in BOOLEAN
      BY <3>2 DEF ScannedTo
    <3>4. forwarded' \in Seq(Bytes) /\ held' \in Seq(Bytes)
      BY <2>1, <2>3, <3>3
    <3>5. CASE scan.ready
      <4>1. held' = <<>> /\ Withheld(written', forwarded') /\ readyState' = "Ready"
        BY <2>1, <3>2, <3>5 DEF ScannedTo
      <4> QED BY <1>2, <3>4, <4>1 DEF ReadinessInv, ReadyStates
    <3>6. CASE ~scan.ready
      <4>1. forwarded' \o held' = written' /\ readyState' = "Pending"
        BY <2>1, <3>2, <3>6 DEF ScannedTo
      <4>2. \E k \in 0..(Len(Marker) - 1) : held' = Start(k)
        BY <2>1, <3>2, <3>6 DEF ScannedTo
      <4> QED BY <1>2, <3>4, <4>1, <4>2 DEF ReadinessInv, ReadyStates
    <3> QED BY <3>3, <3>5, <3>6
  <2> QED BY <2>4, <2>5
<1> QED BY <1>3, <1>4

LEMMA WaitEnds ==
    ASSUME ReadinessInv, CheckTimeout
    PROVE  ReadinessInv'
<1>1. /\ readyState = "Pending" /\ readyState' = "TimedOut" /\ held' = <<>>
      /\ written' = written /\ forwarded' = forwarded
  BY DEF CheckTimeout
<1>2. PICK n \in 0..(Len(Marker) - 1) : held = Start(n)
  BY <1>1 DEF ReadinessInv
<1>3. forwarded \o held = written /\ forwarded \in Seq(Bytes) /\ written \in Seq(Bytes)
  BY <1>1 DEF ReadinessInv
<1>4. n \in 0..Len(Marker)
  BY StartsAre
<1>5. Withheld(written, forwarded)
  BY <1>2, <1>3, <1>4, HeldIsLost
<1>6. <<>> \in Seq(Bytes)
  BY EmptySeq
<1> QED BY <1>1, <1>3, <1>5, <1>6 DEF ReadinessInv, ReadyStates

LEMMA ReadinessStep == ReadinessInv /\ [ReadinessNext]_readinessVars => ReadinessInv'
<1> SUFFICES ASSUME ReadinessInv, [ReadinessNext]_readinessVars PROVE ReadinessInv'
  OBVIOUS
<1>1. ASSUME NEW supported \in BOOLEAN, NEW recovered \in BOOLEAN,
             NewTracker(supported, recovered)
      PROVE  ReadinessInv'
  BY <1>1, TrackerStarts
<1>2. ASSUME NEW data \in Chunks, OnPtyData(data)
      PROVE  ReadinessInv'
  BY <1>2, OutputGoesOn
<1>3. CASE CheckTimeout
  BY <1>3, WaitEnds
<1>4. ASSUME NEW data \in {"key", "answer"}, BufferInput(data)
      PROVE  ReadinessInv'
  <2>1. UNCHANGED <<readyState, held, written, forwarded>>
    BY <1>4 DEF BufferInput
  <2> QED BY <2>1 DEF ReadinessInv
<1>5. CASE UNCHANGED readinessVars
  BY <1>5 DEF readinessVars, ReadinessInv
<1> QED BY <1>1, <1>2, <1>3, <1>4, <1>5 DEF ReadinessNext

LEMMA ReadinessHolds == ReadinessSpec => []ReadinessInv
  BY ReadinessStarts, ReadinessStep, PTL DEF ReadinessSpec

(* Whatever the shell writes, however it is cut into reads and however the   *)
(* wait for the marker ends, what went on is what was written without one    *)
(* piece, and that piece begins the marker (scan_output, check_timeout).     *)
THEOREM ScansLoseOnlyTheMarkersStart == ReadinessSpec => []LosesOnlyMarkerPrefix
<1>1. ReadinessInv => LosesOnlyMarkerPrefix
  <2> SUFFICES ASSUME ReadinessInv PROVE LosesOnlyMarkerPrefix
    OBVIOUS
  <2>1. Withheld(written, forwarded \o held)
    <3>1. CASE readyState = "Pending"
      BY <3>1, NothingWithheld DEF ReadinessInv
    <3>2. CASE readyState # "Pending"
      <4>1. held = <<>> /\ forwarded \in Seq(Bytes) /\ Withheld(written, forwarded)
        BY <3>2 DEF ReadinessInv
      <4>2. forwarded \o held = forwarded
        BY <4>1, Joining
      <4> QED BY <4>1, <4>2
    <3> QED BY <3>1, <3>2
  <2> DEFINE went == forwarded \o held
  <2>2. \E i \in 0..Len(written), k \in 0..Len(Marker) :
           /\ i + k <= Len(written)
           /\ SubSeq(written, i + 1, i + k) = SubSeq(Marker, 1, k)
           /\ went = WithoutSegment(written, i, i + k)
    BY <2>1, WithheldIsASegment
  <2> QED BY <2>2 DEF LosesOnlyMarkerPrefix, Marker
<1> QED BY <1>1, ReadinessHolds, PTL

------------------------------------------------------------------------------
(* PtyLoops                                                                    *)

(* The times that the loop of record takes from the front.                   *)
AreOld(times, k) ==
    /\ \A i \in 1..k : times[i] + Window < now
    /\ k < Len(times) => times[k + 1] + Window >= now

LEMMA OldOnesAre ==
    ASSUME NEW times \in Seq(Nat), now \in Nat
    PROVE  OldOnes(times) \in 0..Len(times) /\ AreOld(times, OldOnes(times))
<1> DEFINE T == {k \in 0..Len(times) : k < Len(times) => times[k + 1] + Window >= now}
<1>1. Len(times) \in T /\ Len(times) \in Nat
  OBVIOUS
<1>2. PICK m \in T : \A n \in T : ~(n < m)
  <2>1. T \in SUBSET Nat /\ T # {}
    BY <1>1
  <2> HIDE DEF T
  <2> QED BY <2>1, HasLeast
<1>3. m \in 0..Len(times) /\ m \in Nat
  BY <1>1
<1>4. ASSUME NEW i \in 1..m PROVE times[i] + Window < now
  <2>1. i - 1 \in 0..Len(times) /\ i - 1 < m /\ (i - 1) + 1 = i /\ i \in 1..Len(times)
    BY <1>1, <1>3
  <2>2. ~(i - 1 \in T)
    BY <1>2, <2>1
  <2>3. ~(times[i] + Window >= now)
    BY <2>1, <2>2
  <2>4. times[i] \in Nat /\ Window \in Nat
    BY <2>1, PtyAssumption
  <2> QED BY <2>3, <2>4
<1>5. AreOld(times, m)
  BY <1>3, <1>4 DEF AreOld
<1>6. \E k \in 0..Len(times) : AreOld(times, k)
  BY <1>3, <1>5
<1>7. OldOnes(times) = CHOOSE k \in 0..Len(times) : AreOld(times, k)
  BY DEF OldOnes, AreOld
<1> QED BY <1>6, <1>7

(* What the window of the reader holds is the end of all its errors; the     *)
(* errors before it are older than the window. Time only grows.              *)
IsTheEnd(times, all, k) ==
    /\ k \in 0..Len(all)
    /\ times \in Seq(Nat) /\ Len(times) = Len(all) - k
    /\ \A i \in 1..Len(times) : times[i] = all[k + i]
    /\ \A i \in 1..k : all[i] + Window < now

Grows(all) ==
    /\ all \in Seq(Nat)
    /\ \A i, j \in 1..Len(all) : i <= j => all[i] <= all[j]
    /\ \A i \in 1..Len(all) : all[i] <= now

PtyInv ==
    /\ now \in Nat /\ events \in Seq(Nat) /\ reads \in Nat
    /\ Grows(errors) /\ \E k \in 0..Len(errors) : IsTheEnd(timestamps, errors, k)

(* After record the window is still such an end, and its length is the       *)
(* number of errors that are not older than the window.                      *)
LEMMA RecordsTheTail ==
    ASSUME PtyInv
    PROVE  LET all == Append(errors, now) IN
           \E k \in 0..Len(errors) :
               /\ IsTheEnd(Recorded(timestamps), all, k)
               /\ {i \in 1..Len(all) : all[i] + Window >= now} = (k + 1)..Len(all)
<1> DEFINE all == Append(errors, now)
<1> DEFINE l == Len(errors)
<1>1. now \in Nat /\ errors \in Seq(Nat) /\ l \in Nat /\ Window \in Nat
  BY PtyAssumption DEF PtyInv, Grows
<1>2. PICK j \in 0..l : IsTheEnd(timestamps, errors, j)
  BY DEF PtyInv
<1>3. timestamps \in Seq(Nat) /\ Len(timestamps) = l - j /\ j \in Nat /\ j <= l
  BY <1>1, <1>2 DEF IsTheEnd
<1> DEFINE o == OldOnes(timestamps)
<1>4. o \in 0..Len(timestamps) /\ AreOld(timestamps, o)
  BY <1>1, <1>3, OldOnesAre
<1> HIDE DEF o, l
<1> DEFINE k == j + o
<1>5. o \in Nat /\ k \in 0..l /\ k \in Nat /\ Len(timestamps) - o = l - k
  BY <1>1, <1>3, <1>4
<1>6. all \in Seq(Nat) /\ Len(all) = l + 1 /\ all[l + 1] = now
      /\ \A i \in 1..l : all[i] = errors[i]
  <2>1. all \in Seq(Nat) /\ Len(all) = Len(errors) + 1 /\ all[Len(errors) + 1] = now
        /\ \A i \in 1..Len(errors) : all[i] = errors[i]
    BY <1>1, AppendProperties
  <2> QED BY <2>1 DEF l
<1> HIDE DEF all
<1> DEFINE p == Pruned(timestamps)
<1>7. p \in Seq(Nat) /\ Len(p) = l - k /\ \A i \in 1..(l - k) : p[i] = timestamps[o + i]
  <2>1. Pruned(timestamps) = SubSeq(timestamps, o + 1, Len(timestamps))
    BY DEF Pruned, o
  <2>2. Len(timestamps) \in Nat /\ o + 1 \in 1..(Len(timestamps) + 1)
    BY <1>3, <1>4
  <2> DEFINE s == SubSeq(timestamps, o + 1, Len(timestamps))
  <2>3. s \in Seq(Nat)
    BY <1>3, <1>4, <2>2
  <2>4. Len(s) = Len(timestamps) - o
    BY <1>3, <1>4, <2>2
  <2>5. ASSUME NEW i \in 1..(Len(timestamps) - o) PROVE s[i] = timestamps[o + i]
    <3>1. i \in 1..((Len(timestamps) - (o + 1)) + 1) /\ (o + 1) + i - 1 = o + i
      BY <1>5, <2>2
    <3> QED BY <1>3, <2>2, <3>1, SMTT(30)
  <2> HIDE DEF s
  <2>6. p = s
    BY <2>1 DEF s
  <2> QED BY <1>5, <2>3, <2>4, <2>5, <2>6
<1> HIDE DEF p
<1> DEFINE r == Recorded(timestamps)
<1>8. r \in Seq(Nat) /\ Len(r) = (l - k) + 1 /\ r[(l - k) + 1] = now
      /\ \A i \in 1..(l - k) : r[i] = p[i]
  <2>1. r = Append(p, now)
    BY DEF Recorded, p
  <2>2. Append(p, now) \in Seq(Nat) /\ Len(Append(p, now)) = Len(p) + 1
        /\ Append(p, now)[Len(p) + 1] = now /\ \A i \in 1..Len(p) : Append(p, now)[i] = p[i]
    BY <1>1, <1>7, AppendProperties
  <2> QED BY <1>7, <2>1, <2>2
<1> HIDE DEF r
<1>9. \A i \in 1..(l - k) : r[i] = all[k + i]
  <2> SUFFICES ASSUME NEW i \in 1..(l - k) PROVE r[i] = all[k + i]
    OBVIOUS
  <2>1. o + i \in 1..Len(timestamps) /\ k + i \in 1..l /\ j + (o + i) = k + i
    BY <1>1, <1>3, <1>4, <1>5
  <2>2. timestamps[o + i] = errors[j + (o + i)]
    BY <1>2, <2>1 DEF IsTheEnd
  <2> QED BY <1>6, <1>7, <1>8, <2>1, <2>2
<1>10. \A i \in 1..k : all[i] + Window < now
  <2> SUFFICES ASSUME NEW i \in 1..k PROVE all[i] + Window < now
    OBVIOUS
  <2>1. i \in 1..l /\ i \in Nat
    BY <1>1, <1>5
  <2>2. CASE i <= j
    BY <1>2, <1>6, <2>1, <2>2 DEF IsTheEnd
  <2>3. CASE ~(i <= j)
    <3>1. i - j \in 1..o /\ i - j \in 1..Len(timestamps) /\ j + (i - j) = i
      BY <1>3, <1>4, <2>1, <2>3
    <3>2. timestamps[i - j] + Window < now
      BY <1>4, <3>1 DEF AreOld
    <3>3. timestamps[i - j] = errors[j + (i - j)]
      BY <1>2, <3>1 DEF IsTheEnd
    <3> QED BY <1>6, <2>1, <3>1, <3>2, <3>3
  <2> QED BY <2>2, <2>3
<1>11. IsTheEnd(r, all, k)
  <2>1. k \in 0..Len(all) /\ Len(r) = Len(all) - k
    BY <1>1, <1>5, <1>6, <1>8
  <2>2. ASSUME NEW i \in 1..Len(r) PROVE r[i] = all[k + i]
    <3>1. i \in 1..(l - k) \/ (i = (l - k) + 1 /\ k + i = l + 1)
      BY <1>1, <1>5, <1>8
    <3> QED BY <1>6, <1>8, <1>9, <3>1
  <2> QED BY <1>8, <1>10, <2>1, <2>2 DEF IsTheEnd
<1>12. ASSUME NEW i \in 1..Len(all) PROVE all[i] + Window >= now <=> i \in (k + 1)..Len(all)
  <2>1. all[i] \in Nat /\ i \in Nat /\ Len(all) = l + 1
    BY <1>6
  <2>2. CASE i <= k
    <3>1. all[i] + Window < now
      BY <1>10, <2>2
    <3> QED BY <1>1, <1>5, <2>1, <2>2, <3>1
  <2>3. CASE i = l + 1
    BY <1>1, <1>5, <1>6, <2>1, <2>3
  <2>4. CASE ~(i <= k) /\ i # l + 1
    <3>1. o + 1 \in 1..Len(timestamps) /\ o < Len(timestamps) /\ k + 1 \in 1..l /\ i \in 1..l
          /\ j + (o + 1) = k + 1 /\ k + 1 <= i
      BY <1>1, <1>3, <1>4, <1>5, <2>1, <2>4
    <3>2. timestamps[o + 1] + Window >= now
      BY <1>4, <3>1 DEF AreOld
    <3>3. timestamps[o + 1] = errors[k + 1]
      <4> DEFINE n == o + 1
      <4>1. n \in 1..Len(timestamps) /\ j + n = k + 1
        BY <3>1
      <4> HIDE DEF n, k
      <4>2. timestamps[n] = errors[j + n]
        BY <1>2, <4>1 DEF IsTheEnd
      <4> QED BY <4>1, <4>2 DEF n
    <3>4. errors[k + 1] <= errors[i] /\ errors[k + 1] \in Nat /\ errors[i] \in Nat
      BY <1>1, <3>1, SMTT(30) DEF PtyInv, Grows, l
    <3>5. all[i] = errors[i] /\ i \in (k + 1)..Len(all)
      BY <1>6, <1>5, <2>1, <3>1
    <3> QED BY <1>1, <3>2, <3>3, <3>4, <3>5
  <2> QED BY <2>2, <2>3, <2>4
<1>13. {i \in 1..Len(all) : all[i] + Window >= now} = (k + 1)..Len(all)
  <2>1. (k + 1)..Len(all) \subseteq 1..Len(all)
    BY <1>5, <1>6
  <2> QED BY <1>12, <2>1
<1> HIDE DEF k
<1> QED BY <1>5, <1>11, <1>13 DEF all, r, l

LEMMA PtyStarts == PtyInit => PtyInv
<1> SUFFICES ASSUME PtyInit PROVE PtyInv
  OBVIOUS
<1>1. now = 0 /\ errors = <<>> /\ timestamps = <<>> /\ reads = 0 /\ events = <<>>
  BY DEF PtyInit
<1>2. <<>> \in Seq(Nat) /\ Len(<<>>) = 0
  BY EmptySeq
<1>3. Grows(<<>>)
  BY <1>2 DEF Grows
<1>4. IsTheEnd(<<>>, <<>>, 0) /\ 0 \in 0..Len(<<>>)
  BY <1>2 DEF IsTheEnd
<1> QED BY <1>1, <1>2, <1>3, <1>4 DEF PtyInv

LEMMA PtyStep == PtyInv /\ [PtyNext]_ptyVars => PtyInv'
<1> SUFFICES ASSUME PtyInv, [PtyNext]_ptyVars PROVE PtyInv'
  OBVIOUS
<1>1. now \in Nat /\ events \in Seq(Nat) /\ reads \in Nat /\ errors \in Seq(Nat) /\ Window \in Nat
  BY PtyAssumption DEF PtyInv, Grows
<1>2. ASSUME UNCHANGED <<now, errors, timestamps>>, events' \in Seq(Nat), reads' \in Nat
      PROVE  PtyInv'
  BY <1>2 DEF PtyInv, Grows, IsTheEnd
<1>3. CASE Tick
  <2>1. now' = now + 1 /\ UNCHANGED <<errors, timestamps, reads, events>>
    BY <1>3 DEF Tick, readerVars
  <2>2. PICK k \in 0..Len(errors) : IsTheEnd(timestamps, errors, k)
    BY DEF PtyInv
  <2>3. \A i \in 1..Len(errors) : errors[i] \in Nat /\ errors[i] <= now
    BY <1>1 DEF PtyInv, Grows
  <2>4. Grows(errors)'
    <3>1. \A i \in 1..Len(errors) : errors[i] <= now + 1
      BY <1>1, <2>3
    <3> QED BY <2>1, <3>1 DEF PtyInv, Grows
  <2>5. IsTheEnd(timestamps, errors, k)'
    <3>1. \A i \in 1..k : i \in 1..Len(errors) /\ errors[i] + Window < now
      BY <1>1, <2>2 DEF IsTheEnd
    <3>2. \A i \in 1..k : errors[i] + Window < now + 1
      BY <1>1, <2>3, <3>1
    <3> QED BY <2>1, <2>2, <3>2 DEF IsTheEnd
  <2> QED BY <1>1, <2>1, <2>4, <2>5 DEF PtyInv
<1>4. CASE ReadsChunk
  <2>1. UNCHANGED <<now, errors, timestamps>> /\ reads' = reads + 1
        /\ events' = Append(events, reads + 1)
    BY <1>4 DEF ReadsChunk
  <2>2. reads + 1 \in Nat
    BY <1>1
  <2>3. Append(events, reads + 1) \in Seq(Nat)
    BY <1>1, <2>2, AppendProperties
  <2> QED BY <1>2, <2>1, <2>2, <2>3
<1>5. CASE ReadEnds
  <2>1. UNCHANGED <<now, errors, timestamps, reads>> /\ events' = Append(events, 0)
    BY <1>5 DEF ReadEnds, Exit
  <2>2. Append(events, 0) \in Seq(Nat)
    BY <1>1, AppendProperties
  <2> QED BY <1>1, <1>2, <2>1, <2>2
<1>6. CASE ReadFails
  <2>1. /\ errors' = Append(errors, now) /\ timestamps' = Recorded(timestamps)
        /\ now' = now /\ reads' = reads /\ (events' = events \/ events' = Append(events, 0))
    BY <1>6 DEF ReadFails, Exit
  <2>2. events' \in Seq(Nat)
    <3>1. Append(events, 0) \in Seq(Nat)
      BY <1>1, AppendProperties
    <3> QED BY <1>1, <2>1, <3>1
  <2> DEFINE all == Append(errors, now)
  <2>3. PICK k \in 0..Len(errors) : IsTheEnd(Recorded(timestamps), all, k)
    BY RecordsTheTail
  <2>4. all \in Seq(Nat) /\ Len(all) = Len(errors) + 1 /\ all[Len(errors) + 1] = now
        /\ \A i \in 1..Len(errors) : all[i] = errors[i]
    BY <1>1, AppendProperties
  <2>5. k \in 0..Len(all) /\ Len(errors) \in Nat
    BY <1>1, <2>4
  <2> HIDE DEF all
  <2>6. \A i \in 1..Len(all) : all[i] <= now /\ (i \in 1..Len(errors) \/ i = Len(errors) + 1)
    <3> SUFFICES ASSUME NEW i \in 1..Len(all)
                 PROVE  all[i] <= now /\ (i \in 1..Len(errors) \/ i = Len(errors) + 1)
      OBVIOUS
    <3>1. i \in 1..Len(errors) \/ i = Len(errors) + 1
      BY <2>4, <2>5
    <3>2. \A j \in 1..Len(errors) : errors[j] <= now
      BY DEF PtyInv, Grows
    <3>3. now <= now
      BY <1>1
    <3> QED BY <2>4, <3>1, <3>2, <3>3
  <2>7. ASSUME NEW i \in 1..Len(all), NEW j \in 1..Len(all), i <= j PROVE all[i] <= all[j]
    <3>1. CASE j = Len(errors) + 1
      BY <2>4, <2>6, <3>1
    <3>2. CASE j # Len(errors) + 1
      <4>1. i \in 1..Len(errors) /\ j \in 1..Len(errors)
        BY <2>4, <2>5, <2>7, <3>2
      <4>2. errors[i] <= errors[j]
        BY <2>7, <4>1 DEF PtyInv, Grows
      <4> QED BY <2>4, <4>1, <4>2
    <3> QED BY <3>1, <3>2
  <2>8. Grows(all)
    BY <2>4, <2>6, <2>7 DEF Grows
  <2>9. errors' = all
    BY <2>1 DEF all
  <2>10. Grows(errors)'
    BY <2>1, <2>8, <2>9 DEF Grows
  <2>11. IsTheEnd(timestamps, errors, k)'
    BY <2>1, <2>3, <2>9 DEF IsTheEnd
  <2>12. k \in 0..Len(errors')
    BY <2>5, <2>9
  <2> QED BY <1>1, <2>1, <2>2, <2>10, <2>11, <2>12 DEF PtyInv
<1>7. CASE UNCHANGED <<now, readerVars>>
  BY <1>1, <1>2, <1>7 DEF readerVars
<1>8. CASE UNCHANGED ptyVars
  BY <1>7, <1>8 DEF ptyVars
<1>9. CASE TypesInput \/ WritesChunk \/ Flushes
           \/ \E transient \in BOOLEAN : ChunkFails(transient) \/ FlushFails(transient)
  <2>1. UNCHANGED <<now, readerVars>>
    BY <1>9 DEF TypesInput, WritesChunk, Flushes, ChunkFails, FlushFails
  <2> QED BY <1>7, <2>1
<1> QED BY <1>3, <1>4, <1>5, <1>6, <1>8, <1>9 DEF PtyNext

(* A transient error ends the session when, and only when, more errors than  *)
(* the limit fell within one window, whatever the window and the limit are   *)
(* and however the errors are spread (TransientErrorWindow::record).         *)
THEOREM SessionsEndInABurst == PtySpec => EndsOnlyInABurst
<1>1. PtyInv /\ [PtyNext]_ptyVars =>
          [ReadFails => (events' # events <=> Cardinality(InWindow') > MaxErrors)]_ptyVars
  <2> SUFFICES ASSUME PtyInv, ReadFails
               PROVE  events' # events <=> Cardinality(InWindow') > MaxErrors
    OBVIOUS
  <2> DEFINE all == Append(errors, now)
  <2>1. now \in Nat /\ events \in Seq(Nat) /\ errors \in Seq(Nat) /\ MaxErrors \in Nat
    BY PtyAssumption DEF PtyInv, Grows
  <2>2. PICK k \in 0..Len(errors) :
           /\ IsTheEnd(Recorded(timestamps), all, k)
           /\ {i \in 1..Len(all) : all[i] + Window >= now} = (k + 1)..Len(all)
    BY RecordsTheTail
  <2>3. errors' = all /\ now' = now
    BY DEF ReadFails
  <2>4. InWindow' = (k + 1)..Len(all)
    BY <2>2, <2>3 DEF InWindow
  <2>5. Len(all) = Len(errors) + 1 /\ Len(errors) \in Nat /\ k \in Nat /\ k <= Len(errors)
    BY <2>1, AppendProperties
  <2> HIDE DEF all
  <2>6. Cardinality((k + 1)..Len(all)) = Len(all) - k
    <3>1. k + 1 \in Int /\ Len(all) \in Int /\ ~(k + 1 > Len(all))
      BY <2>5
    <3>2. Cardinality((k + 1)..Len(all)) = (Len(all) - (k + 1)) + 1
      BY <3>1, FS_Interval
    <3> QED BY <2>5, <3>2
  <2>7. Len(Recorded(timestamps)) = Len(all) - k
    BY <2>2 DEF IsTheEnd
  <2>8. TooMany(timestamps) <=> Cardinality(InWindow') > MaxErrors
    BY <2>4, <2>6, <2>7 DEF TooMany
  <2>9. events' = IF TooMany(timestamps) THEN Append(events, 0) ELSE events
    BY DEF ReadFails, Exit
  <2>10. Append(events, 0) # events
    <3>1. Len(Append(events, 0)) = Len(events) + 1 /\ Len(events) \in Nat
      BY <2>1, AppendProperties
    <3> QED BY <3>1
  <2> QED BY <2>8, <2>9, <2>10
<1> QED BY <1>1, PtyStarts, PtyStep, PTL DEF PtySpec, EndsOnlyInABurst

------------------------------------------------------------------------------
(* ModeTracker                                                                 *)

ModeSets == [set : [Modes -> BOOLEAN], modifyOtherKeys : BOOLEAN, kitty : {0, 1}]
States == {"Normal", "Escape", "Csi", "CsiQuestion", "CsiDigits", "CsiPrefixed",
           "CsiPrefixedDigits", "Osc", "OscDigit", "OscSemicolon"}
ParsedBytes == STRING \cup {"none"}
Trackers == [state : States, digits : Seq(STRING), prefix : ParsedBytes, seqLen : Nat,
             osc : Seq(STRING), content : ParsedBytes, cwd : ParsedBytes, stack : Seq({0, 1}),
             modes : ModeSets]

(* At most one mode of a group is on.                                        *)
Exclusive(set) == \A m, o \in Modes : set[m] /\ set[o] /\ o \in GroupOf(m) => m = o

GoodModes(modes) == modes \in ModeSets /\ Exclusive(modes.set)
GoodTracker(t) == t \in Trackers /\ Exclusive(t.modes.set)
ModesInv == GoodTracker(tracker)

(* What a function that is computed from its last value on comes to.         *)
StaysIn(G, n, S) == \A i \in 1..n, x \in S : G[i][x] \in S
IsRun(R, G, n, S, base) ==
    R \in [0..n -> S] /\ R[0] = base /\ \A i \in 1..n : R[i] = G[i][R[i - 1]]

LEMMA RunsThere ==
    ASSUME NEW n \in Nat, NEW S, NEW base \in S, NEW G, StaysIn(G, n, S)
    PROVE  \E R : IsRun(R, G, n, S, base)
<1> USE DEF StaysIn, IsRun
<1> DEFINE Run(R, k) == R \in [0..k -> S] /\ R[0] = base /\ \A i \in 1..k : R[i] = G[i][R[i - 1]]
<1> DEFINE T == {k \in 0..n : ~\E R : Run(R, k)}
<1> SUFFICES ASSUME T # {} PROVE FALSE
  OBVIOUS
<1>1. PICK k \in T : \A j \in T : ~(j < k)
  <2>1. T \in SUBSET Nat
    OBVIOUS
  <2> HIDE DEF T
  <2> QED BY <2>1, HasLeast
<1>2. k \in 0..n /\ k \in Nat /\ ~\E R : Run(R, k)
  OBVIOUS
<1>3. k # 0
  <2> SUFFICES ASSUME k = 0 PROVE FALSE
    OBVIOUS
  <2> DEFINE R == [i \in 0..0 |-> base]
  <2>1. R \in [0..0 -> S] /\ R[0] = base /\ 1..0 = {}
    OBVIOUS
  <2>2. Run(R, 0)
    BY <2>1
  <2> QED BY <1>2, <2>2
<1>4. k - 1 \in 0..n /\ k - 1 < k /\ k - 1 \in Nat
  BY <1>2, <1>3
<1>5. PICK R : Run(R, k - 1)
  BY <1>1, <1>4
<1> DEFINE Q == [i \in 0..k |-> IF i = k THEN G[k][R[k - 1]] ELSE R[i]]
<1>6. R[k - 1] \in S /\ k \in 1..n
  BY <1>2, <1>3, <1>4, <1>5
<1>7. G[k][R[k - 1]] \in S
  BY <1>6
<1>8. Q \in [0..k -> S]
  <2>1. \A i \in 0..k : i # k => i \in 0..(k - 1)
    BY <1>2
  <2> QED BY <1>5, <1>7, <2>1
<1>9. Q[0] = base
  BY <1>2, <1>3, <1>5
<1>10. ASSUME NEW i \in 1..k PROVE Q[i] = G[i][Q[i - 1]]
  <2>1. i - 1 \in 0..k /\ i - 1 # k /\ i \in 0..k
    BY <1>2
  <2>2. Q[i - 1] = R[i - 1]
    BY <2>1
  <2>3. CASE i = k
    BY <2>1, <2>2, <2>3
  <2>4. CASE i # k
    <3>1. i \in 1..(k - 1)
      BY <1>2, <2>4
    <3>2. R[i] = G[i][R[i - 1]] /\ Q[i] = R[i]
      BY <1>5, <2>1, <2>4, <3>1
    <3> QED BY <2>2, <3>2
  <2> QED BY <2>3, <2>4
<1> HIDE DEF Q
<1>11. Run(Q, k)
  BY <1>8, <1>9, <1>10
<1> QED BY <1>2, <1>11

LEMMA GroupsAre ==
    ASSUME NEW m \in Modes, NEW o \in GroupOf(m)
    PROVE  o \in Modes /\ m \in GroupOf(m) /\ m \in GroupOf(o) /\ (m \in PlainModes => o = m)
           /\ (m \notin PlainModes => o \notin PlainModes)
  BY TrackerAssumption DEF GroupOf, Modes

(* Setting a mode leaves at most one of its group on.                        *)
LEMMA SetsOne ==
    ASSUME NEW modes, GoodModes(modes), NEW mode \in Modes, NEW enabled \in BOOLEAN
    PROVE  GoodModes(SetMode(modes, mode, enabled))
<1> DEFINE set == [m \in Modes |->
                      IF m = mode THEN enabled
                      ELSE IF m \in GroupOf(mode) THEN FALSE ELSE modes.set[m]]
<1>1. modes \in ModeSets /\ Exclusive(modes.set)
  BY DEF GoodModes
<1>2. SetMode(modes, mode, enabled) = [modes EXCEPT !.set = set]
  BY <1>1 DEF SetMode, Cleared, ModeSets
<1>3. set \in [Modes -> BOOLEAN]
  BY <1>1 DEF ModeSets
<1>4. Exclusive(set)
  <2> SUFFICES ASSUME NEW m \in Modes, NEW o \in Modes, set[m], set[o], o \in GroupOf(m)
               PROVE  m = o
    BY DEF Exclusive
  <2>1. m \in GroupOf(o)
    BY GroupsAre
  <2>2. CASE m = mode \/ o = mode
    BY <2>1, <2>2
  <2>3. CASE m # mode /\ o # mode
    <3>1. modes.set[m] /\ modes.set[o]
      BY <2>3
    <3> QED BY <1>1, <3>1 DEF Exclusive
  <2> QED BY <2>2, <2>3
<1> HIDE DEF set
<1>5. [modes EXCEPT !.set = set] \in ModeSets /\ [modes EXCEPT !.set = set].set = set
  BY <1>1, <1>3 DEF ModeSets
<1> QED BY <1>2, <1>4, <1>5 DEF GoodModes

LEMMA AppliesModes ==
    ASSUME NEW t, GoodTracker(t), NEW enabled \in BOOLEAN
    PROVE  GoodTracker(ApplyModes(t, enabled))
<1> DEFINE n == Len(t.digits)
<1> DEFINE Next1(x, i) == IF t.digits[i] \in Modes THEN SetMode(x, t.digits[i], enabled) ELSE x
<1> DEFINE S == {modes \in ModeSets : GoodModes(modes)}
<1> DEFINE G == [i \in 1..n |-> [x \in S |-> Next1(x, i)]]
<1>1. t.digits \in Seq(STRING) /\ n \in Nat /\ t.modes \in S
  BY DEF GoodTracker, GoodModes, Trackers
<1>2. ASSUME NEW i \in 1..n, NEW x \in S PROVE G[i][x] \in S /\ G[i][x] = Next1(x, i)
  BY SetsOne DEF GoodModes
<1> DEFINE Run(f) == f = [i \in 0..n |-> IF i = 0 THEN t.modes ELSE Next1(f[i - 1], i)]
<1>3. PICK R : IsRun(R, G, n, S, t.modes)
  <2>1. StaysIn(G, n, S)
    BY <1>2 DEF StaysIn
  <2> HIDE DEF S, G, n, Next1
  <2> QED BY <1>1, <2>1, RunsThere
<1>4. \A i \in 1..n : i - 1 \in 0..n /\ i \in 0..n
  BY <1>1
<1>5. \A i \in 1..n : R[i] = Next1(R[i - 1], i)
  <2> HIDE DEF S, G, Next1
  <2> QED BY <1>2, <1>3, <1>4 DEF IsRun
<1>6. \A i \in 0..n : i # 0 => i \in 1..n
  BY <1>1
<1>7. Run(R)
  <2> HIDE DEF Next1, n, S
  <2> QED BY <1>3, <1>5, <1>6 DEF IsRun
<1> DEFINE after == CHOOSE f : Run(f)
<1>8. Run(after)
  <2> HIDE DEF Run
  <2> QED BY <1>7
<1>9. ApplyModes(t, enabled) = [t EXCEPT !.digits = <<>>, !.modes = after[n]]
  BY DEF ApplyModes
<1> HIDE DEF after
<1>10. after[n] \in S
  <2> DEFINE T == {i \in 0..n : after[i] \notin S}
  <2> SUFFICES ASSUME T # {} PROVE FALSE
    BY <1>1
  <2>1. PICK k \in T : \A j \in T : ~(j < k)
    <3>1. T \in SUBSET Nat
      OBVIOUS
    <3> HIDE DEF T
    <3> QED BY <3>1, HasLeast
  <2>2. k \in 0..n /\ after[k] \notin S
    OBVIOUS
  <2>3. k # 0
    <3>1. 0 \in 0..n
      BY <1>1
    <3>2. after[0] = t.modes
      BY <1>8, <3>1
    <3> QED BY <1>1, <2>2, <3>2
  <2>4. k \in 1..n /\ k - 1 \in 0..n /\ k - 1 < k
    BY <1>1, <2>2, <2>3
  <2>5. after[k - 1] \in S
    BY <2>1, <2>4
  <2>6. after[k] = Next1(after[k - 1], k)
    <3> HIDE DEF Next1, S
    <3> QED BY <1>8, <2>2, <2>3
  <2>7. Next1(after[k - 1], k) \in S
    <3> HIDE DEF Next1, S
    <3> QED BY <1>2, <2>4, <2>5
  <2> QED BY <2>2, <2>6, <2>7
<1> DEFINE new == after[n]
<1>11. new \in ModeSets /\ Exclusive(new.set)
  BY <1>10 DEF GoodModes
<1> HIDE DEF new
<1>12. ApplyModes(t, enabled) = [t EXCEPT !.digits = <<>>, !.modes = new]
  BY <1>9 DEF new
<1>13. <<>> \in Seq(STRING)
  BY EmptySeq
<1>14. [t EXCEPT !.digits = <<>>, !.modes = new] \in Trackers
       /\ [t EXCEPT !.digits = <<>>, !.modes = new].modes = new
  BY <1>11, <1>13 DEF GoodTracker, Trackers
<1> QED BY <1>11, <1>12, <1>14 DEF GoodTracker

LEMMA ParametersAreNumbers ==
    ASSUME NEW t, NEW i, NEW default \in Nat
    PROVE  Param(t, i, default) \in Nat
  BY DEF Param, ValueOf

LEMMA PushesFlags ==
    ASSUME NEW t, GoodTracker(t), NEW flags \in {0, 1}
    PROVE  GoodTracker(PushKitty(t, flags))
<1> DEFINE stack == IF Len(t.stack) < MaxStack THEN Append(t.stack, t.modes.kitty) ELSE t.stack
<1> DEFINE modes == [t.modes EXCEPT !.kitty = flags]
<1>1. t \in Trackers /\ Exclusive(t.modes.set) /\ t.modes \in ModeSets
  BY DEF GoodTracker, Trackers
<1>2. stack \in Seq({0, 1})
  <2>1. t.stack \in Seq({0, 1}) /\ t.modes.kitty \in {0, 1}
    BY <1>1 DEF Trackers, ModeSets
  <2>2. Append(t.stack, t.modes.kitty) \in Seq({0, 1})
    BY <2>1, AppendProperties
  <2> QED BY <2>1, <2>2
<1>3. modes \in ModeSets /\ modes.set = t.modes.set
  BY <1>1 DEF ModeSets
<1>4. PushKitty(t, flags) = [t EXCEPT !.stack = stack, !.modes = modes]
  BY <1>1 DEF PushKitty, Trackers
<1> HIDE DEF stack, modes
<1>5. [t EXCEPT !.stack = stack, !.modes = modes] \in Trackers
      /\ [t EXCEPT !.stack = stack, !.modes = modes].modes = modes
  BY <1>1, <1>2, <1>3 DEF Trackers
<1> QED BY <1>1, <1>3, <1>4, <1>5 DEF GoodTracker

LEMMA PopsFlags ==
    ASSUME NEW t, GoodTracker(t), NEW count \in Nat
    PROVE  GoodTracker(PopKitty(t, count))
<1>1. t \in Trackers /\ Exclusive(t.modes.set) /\ t.modes \in ModeSets /\ t.stack \in Seq({0, 1})
  BY DEF GoodTracker, Trackers
<1>2. ASSUME NEW stack \in Seq({0, 1}), NEW kitty \in {0, 1}
      PROVE  GoodTracker([t EXCEPT !.stack = stack, !.modes.kitty = kitty])
  <2> DEFINE modes == [t.modes EXCEPT !.kitty = kitty]
  <2>1. modes \in ModeSets /\ modes.set = t.modes.set
    BY <1>1 DEF ModeSets
  <2>2. [t EXCEPT !.stack = stack, !.modes.kitty = kitty] = [t EXCEPT !.stack = stack, !.modes = modes]
    BY <1>1 DEF Trackers
  <2> HIDE DEF modes
  <2>3. [t EXCEPT !.stack = stack, !.modes = modes] \in Trackers
        /\ [t EXCEPT !.stack = stack, !.modes = modes].modes = modes
    BY <1>1, <2>1 DEF Trackers
  <2> QED BY <1>1, <2>1, <2>2, <2>3 DEF GoodTracker
<1>3. CASE count = 0
  BY <1>3 DEF PopKitty
<1>4. CASE count # 0 /\ (count >= MaxStack \/ count > Len(t.stack))
  <2>1. PopKitty(t, count) = [t EXCEPT !.stack = <<>>, !.modes.kitty = 0]
    BY <1>4 DEF PopKitty
  <2>2. <<>> \in Seq({0, 1})
    BY EmptySeq
  <2> QED BY <1>2, <2>1, <2>2
<1>5. CASE count # 0 /\ ~(count >= MaxStack \/ count > Len(t.stack))
  <2> DEFINE n == Len(t.stack) - count
  <2>1. n \in Nat /\ n + 1 \in 1..Len(t.stack) /\ n <= Len(t.stack)
    BY <1>1, <1>5
  <2>2. SubSeq(t.stack, 1, n) \in Seq({0, 1})
    <3> HIDE DEF n
    <3> QED BY <1>1, <2>1
  <2>3. t.stack[n + 1] \in {0, 1}
    <3> HIDE DEF n
    <3> QED BY <1>1, <2>1
  <2>4. PopKitty(t, count) = [t EXCEPT !.stack = SubSeq(t.stack, 1, n), !.modes.kitty = t.stack[n + 1]]
    BY <1>1, <1>5 DEF PopKitty, Trackers
  <2> HIDE DEF n
  <2> QED BY <1>2, <2>2, <2>3, <2>4
<1> QED BY <1>3, <1>4, <1>5

LEMMA AppliesPrefixed ==
    ASSUME NEW t, GoodTracker(t), NEW final
    PROVE  GoodTracker(ApplyPrefixedCsi(t, final))
<1>1. t \in Trackers /\ Exclusive(t.modes.set) /\ t.modes \in ModeSets
  BY DEF GoodTracker, Trackers
<1>2. ASSUME NEW modes \in ModeSets, modes.set = t.modes.set
      PROVE  GoodTracker([t EXCEPT !.modes = modes])
  BY <1>1, <1>2 DEF GoodTracker, Trackers
<1> DEFINE flags == FlagsOf(Param(t, 1, 0))
<1>3. flags \in {0, 1}
  BY DEF FlagsOf
<1>4. GoodTracker(PushKitty(t, flags))
  <2> HIDE DEF flags
  <2> QED BY <1>3, PushesFlags
<1>5. ASSUME NEW kitty \in {0, 1} PROVE GoodTracker([t EXCEPT !.modes.kitty = kitty])
  <2> DEFINE modes == [t.modes EXCEPT !.kitty = kitty]
  <2>1. modes \in ModeSets /\ modes.set = t.modes.set
    BY <1>1 DEF ModeSets
  <2>2. [t EXCEPT !.modes.kitty = kitty] = [t EXCEPT !.modes = modes]
    BY <1>1 DEF Trackers
  <2> HIDE DEF modes
  <2> QED BY <1>2, <2>1, <2>2
<1>6. ASSUME NEW keys \in BOOLEAN PROVE GoodTracker([t EXCEPT !.modes.modifyOtherKeys = keys])
  <2> DEFINE modes == [t.modes EXCEPT !.modifyOtherKeys = keys]
  <2>1. modes \in ModeSets /\ modes.set = t.modes.set
    BY <1>1 DEF ModeSets
  <2>2. [t EXCEPT !.modes.modifyOtherKeys = keys] = [t EXCEPT !.modes = modes]
    BY <1>1 DEF Trackers
  <2> HIDE DEF modes
  <2> QED BY <1>2, <2>1, <2>2
<1>7. GoodTracker(PopKitty(t, Param(t, 1, 1)))
  BY ParametersAreNumbers, PopsFlags
<1> DEFINE kitty == CASE Param(t, 2, 1) = 1 -> flags
                      [] Param(t, 2, 1) = 2 -> (IF flags = 1 THEN 1 ELSE t.modes.kitty)
                      [] Param(t, 2, 1) = 3 -> IF flags = 1 THEN 0 ELSE t.modes.kitty
                      [] OTHER -> t.modes.kitty
<1>8. kitty \in {0, 1}
  <2>1. t.modes.kitty \in {0, 1}
    BY <1>1 DEF ModeSets
  <2> HIDE DEF flags
  <2> QED BY <1>3, <2>1
<1> DEFINE keys == Param(t, 1, 0) = 4 /\ Param(t, 2, 0) = 2
<1>9. keys \in BOOLEAN
  OBVIOUS
<1>10. CASE t.prefix = ">" /\ final = "u"
  BY <1>4, <1>10 DEF ApplyPrefixedCsi
<1>11. CASE t.prefix = "=" /\ final = "u"
  <2>1. ApplyPrefixedCsi(t, final) = [t EXCEPT !.modes.kitty = kitty]
    BY <1>1, <1>11 DEF ApplyPrefixedCsi, Trackers, ModeSets
  <2> HIDE DEF kitty
  <2> QED BY <1>5, <1>8, <2>1
<1>12. CASE t.prefix = "<" /\ final = "u"
  BY <1>7, <1>12 DEF ApplyPrefixedCsi
<1>13. CASE t.prefix = ">" /\ final = "m"
  <2>1. ApplyPrefixedCsi(t, final) = [t EXCEPT !.modes.modifyOtherKeys = keys]
    BY <1>13 DEF ApplyPrefixedCsi
  <2> HIDE DEF keys
  <2> QED BY <1>6, <1>9, <2>1
<1>14. CASE t.prefix = ">" /\ final = "n"
  BY <1>6, <1>14 DEF ApplyPrefixedCsi
<1>15. CASE /\ ~(t.prefix = ">" /\ final = "u") /\ ~(t.prefix = "=" /\ final = "u")
            /\ ~(t.prefix = "<" /\ final = "u") /\ ~(t.prefix = ">" /\ final = "m")
            /\ ~(t.prefix = ">" /\ final = "n")
  BY <1>15 DEF ApplyPrefixedCsi
<1> QED BY <1>10, <1>11, <1>12, <1>13, <1>14, <1>15

(* A tracker with one of its fields changed.                                 *)
WithState(t, x) == [t EXCEPT !.state = x]
WithDigits(t, x) == [t EXCEPT !.digits = x]
WithPrefix(t, x) == [t EXCEPT !.prefix = x]
WithLength(t, x) == [t EXCEPT !.seqLen = x]
WithOsc(t, x) == [t EXCEPT !.osc = x]
WithContent(t, x) == [t EXCEPT !.content = x]

LEMMA OneField ==
    /\ \A t, x : GoodTracker(t) /\ x \in States => GoodTracker(WithState(t, x))
    /\ \A t, x : GoodTracker(t) /\ x \in ParsedBytes => GoodTracker(WithPrefix(t, x))
    /\ \A t, x : GoodTracker(t) /\ x \in ParsedBytes => GoodTracker(WithContent(t, x))
    /\ \A t, x : GoodTracker(t) /\ x \in Seq(STRING) => GoodTracker(WithDigits(t, x))
    /\ \A t, x : GoodTracker(t) /\ x \in Seq(STRING) => GoodTracker(WithOsc(t, x))
    /\ \A t, x : GoodTracker(t) /\ x \in Nat => GoodTracker(WithLength(t, x))
<1> SUFFICES ASSUME NEW t, GoodTracker(t), NEW x
             PROVE  /\ x \in States => GoodTracker(WithState(t, x))
                    /\ x \in ParsedBytes => GoodTracker(WithPrefix(t, x)) /\ GoodTracker(WithContent(t, x))
                    /\ x \in Seq(STRING) => GoodTracker(WithDigits(t, x)) /\ GoodTracker(WithOsc(t, x))
                    /\ x \in Nat => GoodTracker(WithLength(t, x))
  OBVIOUS
<1>1. x \in States => GoodTracker(WithState(t, x))
  BY DEF GoodTracker, Trackers, WithState
<1>2. x \in ParsedBytes => GoodTracker(WithPrefix(t, x))
  BY DEF GoodTracker, Trackers, WithPrefix
<1>3. x \in ParsedBytes => GoodTracker(WithContent(t, x))
  BY DEF GoodTracker, Trackers, WithContent
<1>4. x \in Seq(STRING) => GoodTracker(WithDigits(t, x))
  BY DEF GoodTracker, Trackers, WithDigits
<1>5. x \in Seq(STRING) => GoodTracker(WithOsc(t, x))
  BY DEF GoodTracker, Trackers, WithOsc
<1>6. x \in Nat => GoodTracker(WithLength(t, x))
  BY DEF GoodTracker, Trackers, WithLength
<1> QED BY <1>1, <1>2, <1>3, <1>4, <1>5, <1>6

LEMMA Resets ==
    ASSUME NEW t, GoodTracker(t)
    PROVE  GoodTracker(ResetState(t))
<1>1. <<>> \in Seq(STRING)
  BY EmptySeq
<1> USE DEF States, ParsedBytes
<1>2. ResetState(t) =
        WithContent(WithOsc(WithDigits(WithLength(WithPrefix(WithState(t, "Normal"), "none"), 0),
                                       <<>>), <<>>), "none")
  BY DEF ResetState, WithState, WithDigits, WithPrefix, WithLength, WithOsc, WithContent
<1> DEFINE u == WithLength(WithPrefix(WithState(t, "Normal"), "none"), 0)
<1>3. GoodTracker(u)
  BY <1>1, OneField
<1> HIDE DEF u
<1>4. GoodTracker(WithOsc(WithDigits(u, <<>>), <<>>))
  BY <1>1, <1>3, OneField
<1> QED BY <1>1, <1>2, <1>4, OneField DEF u

LEMMA PushesDigits ==
    ASSUME NEW t, GoodTracker(t), NEW byte \in STRING
    PROVE  GoodTracker(PushDigit(t, byte))
<1>1. t.digits \in Seq(STRING)
  BY DEF GoodTracker, Trackers
<1>2. Append(t.digits, byte) \in Seq(STRING)
  BY <1>1, AppendProperties
<1>3. PushDigit(t, byte) = IF byte = ";" THEN t ELSE WithDigits(t, Append(t.digits, byte))
  BY DEF PushDigit, GoodTracker, Trackers, WithDigits
<1> QED BY <1>2, <1>3, OneField

LEMMA HandlesOsc ==
    ASSUME NEW t, GoodTracker(t)
    PROVE  GoodTracker(HandleOsc(t))
  BY DEF HandleOsc, GoodTracker, Trackers

LEMMA NumbersAreNoLetters ==
    \A byte : /\ IsNumber(byte) => byte \notin {"h", "l", "m", "n", "u", ";"}
              /\ byte = ";" => byte \notin {"h", "l", "m", "n", "u"}
  BY TrackerAssumption DEF IsNumber, Numbers

(* No byte, in whatever state of the parser, makes two modes of a group.     *)
LEMMA ParsesAByte ==
    ASSUME NEW t, GoodTracker(t), NEW byte \in STRING
    PROVE  GoodTracker(ParseByte(t, byte))
<1>1. /\ GoodTracker(ResetState(t))
      /\ GoodTracker(PushDigit(t, byte))
      /\ GoodTracker(ResetState(ApplyModes(t, byte = "h")))
      /\ GoodTracker(ResetState(ApplyPrefixedCsi(t, byte)))
      /\ GoodTracker(ResetState(HandleOsc(t)))
  <2>1. (byte = "h") \in BOOLEAN
    OBVIOUS
  <2> QED BY <2>1, Resets, PushesDigits, AppliesModes, AppliesPrefixed, HandlesOsc
<1>2. <<>> \in Seq(STRING) /\ <<byte>> \in Seq(STRING) /\ t.digits \in Seq(STRING)
  BY EmptySeq DEF GoodTracker, Trackers
<1> USE DEF States, ParsedBytes
<1>3. CASE t.state = "Normal"
  <2>1. ParseByte(t, byte) = WithLength(WithState(t, "Escape"), 1) \/ ParseByte(t, byte) = t
    BY <1>3 DEF ParseByte, WithState, WithLength
  <2> QED BY <2>1, OneField
<1>4. CASE t.state = "Escape"
  <2>1. \/ ParseByte(t, byte) = WithState(t, "Csi")
        \/ ParseByte(t, byte) = WithDigits(WithState(t, "Osc"), <<>>)
        \/ ParseByte(t, byte) = ResetState(t)
    BY <1>4 DEF ParseByte, WithState, WithDigits
  <2> QED BY <1>1, <1>2, <2>1, OneField
<1>5. CASE t.state = "Csi"
  <2>1. \/ ParseByte(t, byte) = WithDigits(WithState(t, "CsiQuestion"), <<>>)
        \/ ParseByte(t, byte) = WithDigits(WithPrefix(WithState(t, "CsiPrefixed"), byte), <<>>)
        \/ ParseByte(t, byte) = ResetState(t)
    BY <1>5 DEF ParseByte, WithState, WithPrefix, WithDigits
  <2> QED BY <1>1, <1>2, <2>1, OneField
<1>6. CASE t.state = "CsiQuestion"
  <2>1. \/ ParseByte(t, byte) = WithDigits(WithState(t, "CsiDigits"), <<byte>>)
        \/ ParseByte(t, byte) = ResetState(t)
    BY <1>6 DEF ParseByte, WithState, WithDigits
  <2> QED BY <1>1, <1>2, <2>1, OneField
<1>7. CASE t.state = "CsiDigits"
  <2>1. \/ ParseByte(t, byte) = PushDigit(t, byte)
        \/ ParseByte(t, byte) = ResetState(ApplyModes(t, byte = "h"))
        \/ ParseByte(t, byte) = ResetState(t)
    <3>1. CASE IsNumber(byte) \/ byte = ";"
      BY <1>7, <3>1, NumbersAreNoLetters DEF ParseByte
    <3>2. CASE ~(IsNumber(byte) \/ byte = ";") /\ byte \in {"h", "l"}
      BY <1>7, <3>2 DEF ParseByte
    <3>3. CASE ~(IsNumber(byte) \/ byte = ";") /\ byte \notin {"h", "l"}
      BY <1>7, <3>3 DEF ParseByte
    <3> QED BY <3>1, <3>2, <3>3
  <2> QED BY <1>1, <2>1
<1>8. CASE t.state \in {"CsiPrefixed", "CsiPrefixedDigits"}
  <2>1. \/ ParseByte(t, byte) = PushDigit(WithState(t, "CsiPrefixedDigits"), byte)
        \/ ParseByte(t, byte) = t
        \/ ParseByte(t, byte) = ResetState(ApplyPrefixedCsi(t, byte))
        \/ ParseByte(t, byte) = ResetState(t)
    <3> DEFINE isGap == byte = ";" /\ t.state = "CsiPrefixedDigits"
    <3>1. CASE IsNumber(byte)
      BY <1>8, <3>1, NumbersAreNoLetters DEF ParseByte, WithState
    <3>2. CASE ~IsNumber(byte) /\ isGap
      BY <1>8, <3>2 DEF ParseByte
    <3>3. CASE ~IsNumber(byte) /\ ~isGap /\ byte \in {"m", "n", "u"}
      BY <1>8, <3>3 DEF ParseByte
    <3>4. CASE ~IsNumber(byte) /\ ~isGap /\ byte \notin {"m", "n", "u"}
      BY <1>8, <3>4 DEF ParseByte
    <3> QED BY <3>1, <3>2, <3>3, <3>4
  <2> QED BY <1>1, <2>1, OneField, PushesDigits
<1>9. CASE t.state = "Osc"
  <2>1. \/ ParseByte(t, byte) = PushDigit(WithState(t, "OscDigit"), byte)
        \/ ParseByte(t, byte) = ResetState(t)
    BY <1>9 DEF ParseByte, WithState
  <2> QED BY <1>1, <2>1, OneField, PushesDigits
<1>10. CASE t.state = "OscDigit"
  <2>1. \/ ParseByte(t, byte) = PushDigit(t, byte)
        \/ ParseByte(t, byte) = WithContent(WithOsc(WithState(t, "OscSemicolon"), t.digits), "none")
        \/ ParseByte(t, byte) = ResetState(t)
    BY <1>10 DEF ParseByte, WithState, WithOsc, WithContent
  <2>2. GoodTracker(WithOsc(WithState(t, "OscSemicolon"), t.digits))
    BY <1>2, OneField
  <2> QED BY <1>1, <2>1, <2>2, OneField
<1>11. CASE t.state = "OscSemicolon"
  <2>1. \/ ParseByte(t, byte) = ResetState(HandleOsc(t))
        \/ ParseByte(t, byte) = WithContent(t, byte)
    BY <1>11 DEF ParseByte, WithContent
  <2> QED BY <1>1, <2>1, OneField
<1>12. t.state \in States
  BY DEF GoodTracker, Trackers
<1> QED BY <1>3, <1>4, <1>5, <1>6, <1>7, <1>8, <1>9, <1>10, <1>11, <1>12

LEMMA LimitsAByte ==
    ASSUME NEW t, GoodTracker(t), NEW byte \in STRING
    PROVE  GoodTracker(LimitedByte(t, byte))
<1>1. t.seqLen \in Nat
  BY DEF GoodTracker, Trackers
<1>2. GoodTracker(WithLength(t, t.seqLen + 1))
  BY <1>1, OneField
<1>3. WithLength(t, t.seqLen + 1) = [t EXCEPT !.seqLen = @ + 1]
  BY DEF WithLength, GoodTracker, Trackers
<1>4. GoodTracker(ParseByte(WithLength(t, t.seqLen + 1), byte))
  BY <1>2, ParsesAByte
<1> QED BY <1>3, <1>4, Resets DEF LimitedByte

(* The bytes of a read, however it was cut from the output.                  *)
LEMMA ProcessesARead ==
    ASSUME NEW t, GoodTracker(t), NEW data \in Seq(STRING)
    PROVE  GoodTracker(Processed(t, data))
<1> DEFINE n == Len(data)
<1> DEFINE S == {x \in Trackers : GoodTracker(x)}
<1> DEFINE G == [i \in 1..n |-> [x \in S |-> LimitedByte(x, data[i])]]
<1> DEFINE Run(f) == f = [i \in 0..n |-> IF i = 0 THEN t ELSE LimitedByte(f[i - 1], data[i])]
<1>1. n \in Nat /\ t \in S /\ \A i \in 1..n : data[i] \in STRING
  BY DEF GoodTracker
<1>2. ASSUME NEW i \in 1..n, NEW x \in S
      PROVE  LimitedByte(x, data[i]) \in S
  BY <1>1, LimitsAByte DEF GoodTracker
<1>3. PICK R : IsRun(R, G, n, S, t)
  <2>1. StaysIn(G, n, S)
    BY <1>2 DEF StaysIn
  <2> HIDE DEF S, G, n
  <2> QED BY <1>1, <2>1, RunsThere
<1>4. \A i \in 1..n : i - 1 \in 0..n /\ i \in 0..n
  BY <1>1
<1>5. \A i \in 1..n : R[i] = LimitedByte(R[i - 1], data[i])
  <2>1. \A i \in 1..n : R[i] = G[i][R[i - 1]] /\ R[i - 1] \in S
    BY <1>3, <1>4 DEF IsRun
  <2>2. \A i \in 1..n, x \in S : G[i][x] = LimitedByte(x, data[i])
    OBVIOUS
  <2> HIDE DEF S, G
  <2> QED BY <2>1, <2>2
<1>6. \A i \in 0..n : i # 0 => i \in 1..n
  BY <1>1
<1>7. Run(R)
  <2> HIDE DEF n, S
  <2> QED BY <1>3, <1>5, <1>6 DEF IsRun
<1> DEFINE after == CHOOSE f : Run(f)
<1>8. Run(after)
  <2> HIDE DEF Run
  <2> QED BY <1>7
<1>9. Processed(t, data) = after[n]
  BY DEF Processed
<1> HIDE DEF after
<1>10. after[n] \in S
  <2> DEFINE T == {i \in 0..n : after[i] \notin S}
  <2> SUFFICES ASSUME T # {} PROVE FALSE
    BY <1>1
  <2>1. PICK k \in T : \A j \in T : ~(j < k)
    <3>1. T \in SUBSET Nat
      OBVIOUS
    <3> HIDE DEF T
    <3> QED BY <3>1, HasLeast
  <2>2. k \in 0..n /\ after[k] \notin S
    OBVIOUS
  <2>3. k # 0
    <3>1. 0 \in 0..n
      BY <1>1
    <3>2. after[0] = t
      BY <1>8, <3>1
    <3> QED BY <1>1, <2>2, <3>2
  <2>4. k \in 1..n /\ k - 1 \in 0..n /\ k - 1 < k
    BY <1>1, <2>2, <2>3
  <2>5. after[k - 1] \in S
    BY <2>1, <2>4
  <2>6. after[k] = LimitedByte(after[k - 1], data[k])
    <3> HIDE DEF S
    <3> QED BY <1>8, <2>2, <2>3
  <2>7. LimitedByte(after[k - 1], data[k]) \in S
    <3> HIDE DEF S
    <3> QED BY <1>2, <2>4, <2>5
  <2> QED BY <2>2, <2>6, <2>7
<1> QED BY <1>9, <1>10

LEMMA ModesStart == ModesInit => ModesInv
<1>1. <<>> \in Seq(STRING) /\ <<>> \in Seq({0, 1})
  BY EmptySeq
<1>2. DefaultModes \in ModeSets
  BY DEF DefaultModes, ModeSets
<1>3. Exclusive(DefaultModes.set)
  <2> SUFFICES ASSUME NEW m \in Modes, NEW o \in Modes, m \in OnByDefault, o \in GroupOf(m)
               PROVE  m = o
    BY DEF Exclusive, DefaultModes
  <2>1. m \in PlainModes
    BY TrackerAssumption
  <2> QED BY <2>1, GroupsAre
<1>4. NewModeTracker \in Trackers /\ NewModeTracker.modes = DefaultModes
  BY <1>1, <1>2 DEF NewModeTracker, Trackers, States, ParsedBytes
<1> QED BY <1>3, <1>4 DEF ModesInit, ModesInv, GoodTracker

LEMMA ModesStep == ModesInv /\ [ModesNext]_modesVars => ModesInv'
<1> SUFFICES ASSUME ModesInv, [ModesNext]_modesVars PROVE ModesInv'
  OBVIOUS
<1>1. ASSUME NEW data \in Reads, Process(data) PROVE ModesInv'
  <2>1. data \in Seq(STRING)
    BY TrackerAssumption
  <2>2. GoodTracker(Processed(tracker, data))
    BY <2>1, ProcessesARead DEF ModesInv
  <2> QED BY <1>1, <2>2 DEF Process, ModesInv
<1>2. CASE UNCHANGED modesVars
  BY <1>2 DEF modesVars, ModesInv
<1> QED BY <1>1, <1>2 DEF ModesNext

(* What is written for a mode, and that nothing else is about one.           *)
LEMMA WrittenModes ==
    ASSUME ModesInv
    PROVE  LET on == tracker.modes.set
               emitted == {s \in RehydrateSequences : s.kind = "mode"}
           IN  /\ \A s \in emitted : s.number \in Modes /\ s.on = on[s.number]
                                     /\ on[s.number] # DefaultModes.set[s.number]
               /\ \A s, r \in emitted : s.number = r.number => s = r
               /\ \A m \in Modes : on[m] # DefaultModes.set[m] => \E s \in emitted : s.number = m
<1> DEFINE on == tracker.modes.set
<1> DEFINE Mode(m) == [kind |-> "mode", number |-> m, on |-> on[m]]
<1> DEFINE emitted == {s \in RehydrateSequences : s.kind = "mode"}
<1>1. \A s \in emitted : \E m \in Modes : s = Mode(m) /\ on[m] # DefaultModes.set[m]
  BY DEF RehydrateSequences
<1>2. \A m \in Modes : on[m] # DefaultModes.set[m] => Mode(m) \in emitted
  BY DEF RehydrateSequences
<1>3. \A m \in Modes : Mode(m).number = m /\ Mode(m).on = on[m]
  OBVIOUS
<1> HIDE DEF emitted, Mode
<1> QED BY <1>1, <1>2, <1>3 DEF emitted

LEMMA RehydratesTheModes == ModesInv => RehydrationRestores
<1> SUFFICES ASSUME ModesInv PROVE RehydrationRestores
  OBVIOUS
<1> DEFINE on == tracker.modes.set
<1> DEFINE emitted == {s \in RehydrateSequences : s.kind = "mode"}
<1> DEFINE Group(m) == {s \in emitted : s.number \in GroupOf(m)}
<1> DEFINE Last1(m) == CHOOSE s \in Group(m) :
                          \A o \in Group(m) : EmittedAt(s.number) >= EmittedAt(o.number)
<1> DEFINE set == [m \in Modes |-> IF Group(m) = {} THEN DefaultModes.set[m]
                                   ELSE Last1(m).number = m /\ Last1(m).on]
<1>1. tracker.modes \in ModeSets /\ on \in [Modes -> BOOLEAN] /\ Exclusive(on)
  BY DEF ModesInv, GoodTracker, Trackers, ModeSets
<1>2. /\ \A s \in emitted : s.number \in Modes /\ s.on = on[s.number]
                            /\ on[s.number] # DefaultModes.set[s.number]
      /\ \A s, r \in emitted : s.number = r.number => s = r
      /\ \A m \in Modes : on[m] # DefaultModes.set[m] => \E s \in emitted : s.number = m
  BY WrittenModes
<1>3. \A m \in Modes : DefaultModes.set[m] = (m \in OnByDefault)
  BY DEF DefaultModes
<1>4. \A m \in Modes : EmittedAt(m) \in Nat
  <2> SUFFICES ASSUME NEW m \in Modes PROVE EmittedAt(m) \in Nat
    OBVIOUS
  <2>1. Len(Emitted) \in Nat /\ \E i \in 1..Len(Emitted) : Emitted[i] = m
    <3>1. Emitted \in Seq(Modes)
      BY TrackerAssumption
    <3>2. Len(Emitted) \in Nat
      BY <3>1
    <3>3. \A mode \in Modes : \E i \in 1..Len(Emitted) : Emitted[i] = mode
      BY TrackerAssumption, Zenon
    <3> QED BY <3>2, <3>3
  <2>2. EmittedAt(m) \in 1..Len(Emitted)
    BY <2>1 DEF EmittedAt
  <2> QED BY <2>1, <2>2
<1> HIDE DEF emitted
<1>5. ASSUME NEW m \in Modes PROVE set[m] = on[m]
  <2>1. CASE Group(m) = {}
    <3>1. m \in GroupOf(m)
      BY DEF GroupOf
    <3>2. on[m] = DefaultModes.set[m]
      BY <1>2, <2>1, <3>1
    <3> QED BY <2>1, <3>2
  <2>2. CASE Group(m) # {}
    <3>1. \A s, r \in Group(m) : s = r
      <4> SUFFICES ASSUME NEW s \in Group(m), NEW r \in Group(m) PROVE s.number = r.number
        BY <1>2
      <4>1. s.number \in GroupOf(m) /\ r.number \in GroupOf(m)
            /\ s.number \in Modes /\ r.number \in Modes
        BY <1>2
      <4>2. CASE m \in PlainModes
        BY <4>1, <4>2, GroupsAre
      <4>3. CASE m \notin PlainModes
        <5>1. s.number \notin OnByDefault /\ r.number \notin OnByDefault
          BY <4>1, <4>3, GroupsAre, TrackerAssumption
        <5>2. on[s.number] /\ on[r.number]
          BY <1>1, <1>2, <1>3, <4>1, <5>1
        <5>3. r.number \in GroupOf(s.number)
          BY <4>1, <4>3, TrackerAssumption DEF GroupOf, Modes
        <5> QED BY <1>1, <4>1, <5>2, <5>3 DEF Exclusive
      <4> QED BY <4>2, <4>3
    <3>2. PICK s \in Group(m) : TRUE
      BY <2>2
    <3>3. s \in emitted /\ s.number \in GroupOf(m) /\ s.number \in Modes /\ s.on = on[s.number]
          /\ on[s.number] # DefaultModes.set[s.number]
      BY <1>2
    <3>4. EmittedAt(s.number) >= EmittedAt(s.number)
      BY <1>4, <3>3
    <3>5. Last1(m) = s
      <4> HIDE DEF Group
      <4> QED BY <3>1, <3>2, <3>4
    <3>6. set[m] = (s.number = m /\ on[s.number])
      <4> HIDE DEF Last1, Group
      <4> QED BY <2>2, <3>3, <3>5
    <3>7. CASE s.number = m
      BY <1>1, <3>6, <3>7
    <3>8. CASE s.number # m
      <4>1. m \notin PlainModes
        BY <3>3, <3>8, GroupsAre
      <4>2. s.number \notin OnByDefault
        BY <3>3, <4>1, GroupsAre, TrackerAssumption
      <4>3. on[s.number]
        BY <1>1, <1>3, <3>3, <4>2
      <4>4. ~on[m]
        BY <1>1, <3>3, <3>8, <4>3 DEF Exclusive
      <4> QED BY <1>1, <3>6, <3>8, <4>4
    <3> QED BY <3>7, <3>8
  <2> QED BY <2>1, <2>2
<1>6. set = on
  <2>1. set = [m \in Modes |-> set[m]] /\ on = [m \in Modes |-> on[m]]
    BY <1>1
  <2> HIDE DEF set
  <2> QED BY <1>5, <2>1
<1> DEFINE keys == \E s \in RehydrateSequences : s.kind = "keys"
<1>7. keys = tracker.modes.modifyOtherKeys
  <2>1. tracker.modes.modifyOtherKeys \in BOOLEAN
    BY <1>1 DEF ModeSets
  <2>2. ASSUME tracker.modes.modifyOtherKeys PROVE keys = TRUE
    <3>1. [kind |-> "keys"] \in RehydrateSequences
      BY <2>2 DEF RehydrateSequences
    <3>2. [kind |-> "keys"].kind = "keys"
      OBVIOUS
    <3> QED BY <2>2, <3>1, <3>2
  <2>3. ASSUME ~tracker.modes.modifyOtherKeys PROVE keys = FALSE
    <3>1. \A s \in RehydrateSequences : s.kind # "keys"
      BY <2>3 DEF RehydrateSequences
    <3> QED BY <2>3, <3>1
  <2> HIDE DEF keys
  <2> QED BY <2>1, <2>2, <2>3
<1> DEFINE kitty == IF \E s \in RehydrateSequences : s.kind = "kitty"
                    THEN (CHOOSE s \in RehydrateSequences : s.kind = "kitty").number ELSE 0
<1>8. kitty = tracker.modes.kitty
  <2>1. CASE tracker.modes.kitty = 0
    <3>1. ~\E s \in RehydrateSequences : s.kind = "kitty"
      BY <2>1 DEF RehydrateSequences
    <3> QED BY <2>1, <3>1
  <2>2. CASE tracker.modes.kitty # 0
    <3>1. \A s \in RehydrateSequences : s.kind = "kitty" => s.number = tracker.modes.kitty
      BY <2>2 DEF RehydrateSequences
    <3>2. \E s \in RehydrateSequences : s.kind = "kitty"
      <4> DEFINE k == [kind |-> "kitty", number |-> tracker.modes.kitty]
      <4>1. k \in RehydrateSequences
        BY <2>2 DEF RehydrateSequences
      <4>2. k.kind = "kitty"
        OBVIOUS
      <4> HIDE DEF k
      <4> QED BY <4>1, <4>2
    <3> QED BY <3>1, <3>2
  <2> QED BY <2>1, <2>2
<1>9. Rehydrated = [set |-> set, modifyOtherKeys |-> keys, kitty |-> kitty]
  BY DEF Rehydrated, emitted
<1> HIDE DEF set, keys, kitty
<1> QED BY <1>1, <1>6, <1>7, <1>8, <1>9 DEF RehydrationRestores, ModeSets

(* Whatever the program writes and however it is cut into reads, a client    *)
(* that attaches and reads the rehydration sequences has the modes of the    *)
(* tracker.  That no two modes of a group are ever on is what makes the      *)
(* order in which the sequences are written not matter.                      *)
THEOREM RehydrationIsExact == ModesSpec => []RehydrationRestores
  BY ModesStart, ModesStep, RehydratesTheModes, PTL DEF ModesSpec

------------------------------------------------------------------------------
(* GitStatus: parts of the output, one for a path, put together.               *)

(* Q[k] is what the first k parts come to.                                     *)
Joins(Q, f, S) ==
    Q \in [0..Len(f) -> Seq(S)] /\ Q[0] = <<>> /\ \A k \in 1..Len(f) : Q[k] = Q[k - 1] \o f[k]

LEMMA Joined ==
    ASSUME NEW S, NEW f \in Seq(Seq(S))
    PROVE  \E Q : Joins(Q, f, S) /\ FlattenSeq(f) = Q[Len(f)]
<1> DEFINE n == Len(f)
<1> DEFINE G == [i \in 1..n |-> [x \in Seq(S) |-> x \o f[i]]]
<1>1. n \in Nat /\ <<>> \in Seq(S)
  OBVIOUS
<1>2. ASSUME NEW i \in 1..n, NEW x \in Seq(S) PROVE f[i] \in Seq(S) /\ G[i][x] = x \o f[i]
  OBVIOUS
<1>3. PICK Q : IsRun(Q, G, n, Seq(S), <<>>)
  <2>1. StaysIn(G, n, Seq(S))
    <3> SUFFICES ASSUME NEW i \in 1..n, NEW x \in Seq(S) PROVE G[i][x] \in Seq(S)
      BY DEF StaysIn
    <3> HIDE DEF G, n
    <3>1. G[i][x] = x \o f[i] /\ f[i] \in Seq(S)
      BY <1>2
    <3> QED BY <3>1, ConcatProperties
  <2> HIDE DEF G, n
  <2> QED BY <1>1, <2>1, RunsThere
<1>4. \A i \in 1..n : i - 1 \in 0..n /\ i \in 0..n
  BY <1>1
<1>5. Joins(Q, f, S)
  <2>1. \A k \in 1..n : Q[k - 1] \in Seq(S)
    <3> HIDE DEF G, n
    <3> QED BY <1>3, <1>4 DEF IsRun
  <2>2. \A k \in 1..n : Q[k] = Q[k - 1] \o f[k]
    <3> HIDE DEF G, n
    <3> QED BY <1>2, <1>3, <2>1 DEF IsRun
  <2> HIDE DEF G
  <2> QED BY <1>3, <2>2 DEF IsRun, Joins
<1>7. \A i \in 1..n : f[i] \in Seq(S)
  OBVIOUS
<1>6. FlattenSeq(f) = Q[n]
  <2>1. CASE n = 0
    <3>1. FlattenSeq(f) = f /\ f = <<>>
      BY <2>1 DEF FlattenSeq
    <3> QED BY <1>5, <2>1, <3>1 DEF Joins
  <2>2. CASE n # 0
    <3> DEFINE Run(h) == h = [i \in 1..n |-> IF i = 1 THEN f[i] ELSE h[i - 1] \o f[i]]
    <3> DEFINE R == [i \in 1..n |-> Q[i]]
    <3>1. Run(R)
      <4>1. ASSUME NEW i \in 1..n PROVE R[i] = IF i = 1 THEN f[i] ELSE R[i - 1] \o f[i]
        <5>1. Q[i] = Q[i - 1] \o f[i] /\ Q[0] = <<>> /\ f[i] \in Seq(S)
          BY <1>5, <1>7, Zenon DEF Joins
        <5>2. i # 1 => i - 1 \in 1..n
          BY <1>1
        <5>3. i = 1 => Q[i] = <<>> \o f[i]
          <6> SUFFICES ASSUME i = 1 PROVE Q[i] = <<>> \o f[i]
            OBVIOUS
          <6>1. i - 1 = 0
            OBVIOUS
          <6> QED BY <5>1, <6>1, Zenon
        <5>4. <<>> \o f[i] = f[i]
          BY <5>1, ConcatEmptySeq
        <5> QED BY <5>1, <5>2, <5>3, <5>4
      <4> HIDE DEF n
      <4> QED BY <4>1
    <3> DEFINE flatten == CHOOSE h : Run(h)
    <3>2. Run(flatten)
      <4> HIDE DEF Run
      <4> QED BY <3>1
    <3>3. FlattenSeq(f) = flatten[n]
      BY <2>2 DEF FlattenSeq
    <3> HIDE DEF flatten
    <3> DEFINE T == {i \in 1..n : flatten[i] # Q[i]}
    <3>4. T = {}
      <4> SUFFICES ASSUME T # {} PROVE FALSE
        OBVIOUS
      <4>1. PICK k \in T : \A j \in T : ~(j < k)
        <5>1. T \in SUBSET Nat
          BY <1>1
        <5> HIDE DEF T
        <5> QED BY <5>1, HasLeast
      <4>2. k \in 1..n /\ flatten[k] # Q[k]
        OBVIOUS
      <4>3. flatten[k] = IF k = 1 THEN f[k] ELSE flatten[k - 1] \o f[k]
        BY <3>2, <4>2
      <4>4. Q[k] = Q[k - 1] \o f[k] /\ Q[0] = <<>> /\ f[k] \in Seq(S)
        BY <1>5, <1>7, <4>2, Zenon DEF Joins
      <4>5. <<>> \o f[k] = f[k]
        BY <4>4, ConcatEmptySeq
      <4>6. k # 1
        <5> SUFFICES ASSUME k = 1 PROVE FALSE
          OBVIOUS
        <5>1. k - 1 = 0
          OBVIOUS
        <5> QED BY <4>2, <4>3, <4>4, <4>5, <5>1
      <4>7. k - 1 \in 1..n /\ k - 1 < k
        BY <1>1, <4>2, <4>6
      <4>8. flatten[k - 1] = Q[k - 1]
        BY <4>1, <4>7
      <4> QED BY <4>2, <4>3, <4>4, <4>6, <4>8
    <3>5. n \in 1..n
      BY <1>1, <2>2
    <3> QED BY <3>3, <3>4, <3>5
  <2> QED BY <2>1, <2>2
<1> QED BY <1>5, <1>6

LEMMA Within ==
    ASSUME NEW a \in Nat, NEW b \in Nat, NEW c, c = a + b, NEW j \in 1..b
    PROVE  a + j \in 1..c
  OBVIOUS

(* Where the parts lie: each element in its place, and nothing else.           *)
LEMMA PartsLie ==
    ASSUME NEW S, NEW f \in Seq(Seq(S)), NEW Q, Joins(Q, f, S)
    PROVE  LET n == Len(f)  all == Q[n] IN
           /\ \A k \in 0..n : Q[k] \in Seq(S)
           /\ \A k \in 1..n : Len(Q[k]) = Len(Q[k - 1]) + Len(f[k])
           /\ \A k \in 1..n : \A j \in 1..Len(f[k]) :
                 Len(Q[k - 1]) + j \in 1..Len(all) /\ all[Len(Q[k - 1]) + j] = f[k][j]
           /\ \A i \in 1..Len(all) : \E k \in 1..n : Len(Q[k - 1]) < i /\ i <= Len(Q[k])
<1> DEFINE n == Len(f)
<1> DEFINE Lies(m) ==
      /\ \A k \in 1..m : \A j \in 1..Len(f[k]) :
            Len(Q[k - 1]) + j \in 1..Len(Q[m]) /\ Q[m][Len(Q[k - 1]) + j] = f[k][j]
      /\ \A i \in 1..Len(Q[m]) : \E k \in 1..m : Len(Q[k - 1]) < i /\ i <= Len(Q[k])
<1>1. n \in Nat /\ \A k \in 0..n : Q[k] \in Seq(S)
  <2>1. n \in Nat
    OBVIOUS
  <2>2. Q \in [0..n -> Seq(S)]
    BY Zenon DEF Joins
  <2> HIDE DEF n
  <2> QED BY <2>1, <2>2
<1>2. ASSUME NEW k \in 1..n
      PROVE  /\ k - 1 \in 0..n /\ k \in 0..n /\ Q[k - 1] \in Seq(S) /\ f[k] \in Seq(S)
             /\ Q[k] = Q[k - 1] \o f[k]
  <2>1. Q[k] = Q[k - 1] \o f[k]
    BY Zenon DEF Joins
  <2>2. f[k] \in Seq(S)
    OBVIOUS
  <2>3. k - 1 \in 0..n /\ k \in 0..n
    BY <1>1
  <2> QED BY <1>1, <2>1, <2>2, <2>3, Zenon
<1>3. ASSUME NEW k \in 1..n
      PROVE  /\ Len(Q[k]) = Len(Q[k - 1]) + Len(f[k])
             /\ Len(Q[k]) \in Nat /\ Len(Q[k - 1]) \in Nat /\ Len(f[k]) \in Nat
             /\ \A i \in 1..Len(Q[k - 1]) : Q[k][i] = Q[k - 1][i]
             /\ \A i \in 1..Len(f[k]) : Q[k][Len(Q[k - 1]) + i] = f[k][i]
  <2>1. Q[k - 1] \in Seq(S) /\ f[k] \in Seq(S) /\ Q[k] = Q[k - 1] \o f[k]
    BY <1>2
  <2> DEFINE a == Q[k - 1]
  <2> DEFINE b == f[k]
  <2> HIDE DEF a, b
  <2>2. a \in Seq(S) /\ b \in Seq(S)
    BY <2>1 DEF a, b
  <2>3. /\ Len(a \o b) = Len(a) + Len(b) /\ Len(a) \in Nat /\ Len(b) \in Nat
        /\ \A i \in 1..Len(a) : (a \o b)[i] = a[i]
        /\ \A i \in 1..Len(b) : (a \o b)[Len(a) + i] = b[i]
    BY <2>2
  <2>4. Q[k] = a \o b
    BY <2>1, Zenon DEF a, b
  <2> DEFINE c == a \o b
  <2> HIDE DEF c
  <2>5. /\ Len(c) = Len(a) + Len(b) /\ Len(c) \in Nat /\ Len(a) \in Nat /\ Len(b) \in Nat
        /\ \A i \in 1..Len(a) : c[i] = a[i]
        /\ \A i \in 1..Len(b) : c[Len(a) + i] = b[i]
    BY <2>3 DEF c
  <2>6. Q[k] = c /\ Q[k - 1] = a /\ f[k] = b
    BY <2>4, Zenon DEF a, b, c
  <2> QED BY <2>5, <2>6, Zenon
<1> DEFINE T == {m \in 0..n : ~Lies(m)}
<1>4. T = {}
  <2> SUFFICES ASSUME T # {} PROVE FALSE
    OBVIOUS
  <2>1. PICK m \in T : \A j \in T : ~(j < m)
    <3>1. T \in SUBSET Nat
      OBVIOUS
    <3> HIDE DEF T
    <3> QED BY <3>1, HasLeast
  <2>2. m \in 0..n /\ ~Lies(m)
    OBVIOUS
  <2>3. m # 0
    <3> SUFFICES ASSUME m = 0 PROVE FALSE
      OBVIOUS
    <3>1. Q[0] = <<>> /\ Len(Q[0]) = 0 /\ 1..0 = {}
      BY DEF Joins
    <3> QED BY <2>2, <3>1
  <2>4. m \in 1..n /\ m - 1 \in 0..n /\ m - 1 < m /\ m \in Nat
    BY <1>1, <2>2, <2>3
  <2>5. Lies(m - 1)
    BY <2>1, <2>4
  <2> HIDE DEF T
  <2>6. ASSUME NEW k \in 1..m, NEW j \in 1..Len(f[k])
        PROVE  Len(Q[k - 1]) + j \in 1..Len(Q[m]) /\ Q[m][Len(Q[k - 1]) + j] = f[k][j]
    <3>1. k \in 1..n
      BY <1>1, <2>4
    <3>2. CASE k = m
      <4>1. Len(Q[k - 1]) + j \in 1..Len(Q[k]) /\ Q[k][Len(Q[k - 1]) + j] = f[k][j]
        <5>1. /\ Len(Q[k]) = Len(Q[k - 1]) + Len(f[k])
              /\ Len(Q[k - 1]) \in Nat /\ Len(f[k]) \in Nat
          BY <1>3, <3>1, Zenon
        <5>2. Len(Q[k - 1]) + j \in 1..Len(Q[k])
          BY <5>1, Within, Zenon
        <5>3. Q[k][Len(Q[k - 1]) + j] = f[k][j]
          BY <1>3, <3>1, Zenon
        <5> QED BY <5>2, <5>3, Zenon
      <4>2. Q[k] = Q[m]
        BY <3>2, Zenon
      <4> QED BY <4>1, <4>2, Zenon
    <3>3. CASE k # m
      <4>1. k \in 1..(m - 1)
        BY <1>1, <2>4, <3>3
      <4>2. Len(Q[k - 1]) + j \in 1..Len(Q[m - 1]) /\ Q[m - 1][Len(Q[k - 1]) + j] = f[k][j]
        BY <2>5, <4>1
      <4>3. /\ Len(Q[m - 1]) \in Nat /\ Len(Q[m]) >= Len(Q[m - 1]) /\ Len(Q[m]) \in Nat
            /\ \A i \in 1..Len(Q[m - 1]) : Q[m][i] = Q[m - 1][i]
        <5>1. /\ Len(Q[m - 1]) \in Nat /\ Len(Q[m]) = Len(Q[m - 1]) + Len(f[m])
              /\ Len(Q[m]) \in Nat /\ Len(f[m]) \in Nat
          BY <1>3, <2>4, Zenon
        <5>2. \A i \in 1..Len(Q[m - 1]) : Q[m][i] = Q[m - 1][i]
          BY <1>3, <2>4, Zenon
        <5>3. \A a, b \in Nat : a + b >= a
          OBVIOUS
        <5> QED BY <5>1, <5>2, <5>3, Zenon
      <4>4. Len(Q[k - 1]) + j \in 1..Len(Q[m])
        BY <4>2, <4>3
      <4> QED BY <4>2, <4>3, <4>4, Zenon
    <3> QED BY <3>2, <3>3
  <2>7. ASSUME NEW i \in 1..Len(Q[m])
        PROVE  \E k \in 1..m : Len(Q[k - 1]) < i /\ i <= Len(Q[k])
    <3>1. Len(Q[m]) \in Nat /\ Len(Q[m - 1]) \in Nat /\ i \in Nat
      BY <1>3, <2>4
    <3>2. CASE i <= Len(Q[m - 1])
      <4>1. i \in 1..Len(Q[m - 1])
        BY <3>1, <3>2
      <4>2. PICK k \in 1..(m - 1) : Len(Q[k - 1]) < i /\ i <= Len(Q[k])
        BY <2>5, <4>1
      <4>3. k \in 1..m
        BY <2>4
      <4> QED BY <4>2, <4>3
    <3>3. CASE ~(i <= Len(Q[m - 1]))
      <4>1. m \in 1..m /\ Len(Q[m - 1]) < i /\ i <= Len(Q[m])
        BY <2>4, <3>1, <3>3
      <4> QED BY <4>1
    <3> QED BY <3>2, <3>3
  <2> QED BY <2>2, <2>6, <2>7
<1>5. Lies(n)
  <2>1. n \in 0..n
    BY <1>1
  <2> HIDE DEF Lies
  <2> QED BY <1>4, <2>1
<1> QED BY <1>1, <1>3, <1>5

Lays(at, f, all, S) ==
    /\ all \in Seq(S) /\ at \in [0..Len(f) -> Nat] /\ at[0] = 0 /\ at[Len(f)] = Len(all)
    /\ \A k \in 1..Len(f) : at[k] = at[k - 1] + Len(f[k])
    /\ \A k \in 1..Len(f) : \A j \in 1..Len(f[k]) :
          at[k - 1] + j \in 1..Len(all) /\ all[at[k - 1] + j] = f[k][j]
    /\ \A i \in 1..Len(all) : \E k \in 1..Len(f) : at[k - 1] < i /\ i <= at[k]

LEMMA Laid ==
    ASSUME NEW S, NEW f \in Seq(Seq(S))
    PROVE  \E at : Lays(at, f, FlattenSeq(f), S)
<1> DEFINE n == Len(f)
<1>1. PICK Q : Joins(Q, f, S) /\ FlattenSeq(f) = Q[n]
  BY Joined, Zenon
<1> DEFINE all == Q[n]
<1>2. /\ \A k \in 0..n : Q[k] \in Seq(S)
      /\ \A k \in 1..n : Len(Q[k]) = Len(Q[k - 1]) + Len(f[k])
      /\ \A k \in 1..n : \A j \in 1..Len(f[k]) :
            Len(Q[k - 1]) + j \in 1..Len(all) /\ all[Len(Q[k - 1]) + j] = f[k][j]
      /\ \A i \in 1..Len(all) : \E k \in 1..n : Len(Q[k - 1]) < i /\ i <= Len(Q[k])
  BY <1>1, PartsLie, Zenon
<1> DEFINE at == [k \in 0..n |-> Len(Q[k])]
<1>3. n \in Nat /\ n \in 0..n /\ 0 \in 0..n /\ \A k \in 1..n : k \in 0..n /\ k - 1 \in 0..n
  OBVIOUS
<1>4. \A k \in 0..n : at[k] = Len(Q[k]) /\ Len(Q[k]) \in Nat
  <2>1. \A s \in Seq(S) : Len(s) \in Nat
    OBVIOUS
  <2>2. \A k \in 0..n : Len(Q[k]) \in Nat
    BY <1>2, <2>1, Zenon
  <2> HIDE DEF n
  <2> QED BY <2>2, Zenon
<1>5. Len(Q[0]) = 0
  <2>1. Q[0] = <<>>
    BY <1>1, Zenon DEF Joins
  <2> QED BY <2>1
<1>6. at \in [0..n -> Nat] /\ at[0] = 0 /\ at[n] = Len(all) /\ all \in Seq(S)
  <2>1. at \in [0..n -> Nat]
    BY <1>4, Zenon
  <2> HIDE DEF at, n
  <2> QED BY <1>2, <1>3, <1>4, <1>5, <2>1, Zenon
<1> HIDE DEF at
<1>7. \A k \in 1..n : at[k] = Len(Q[k]) /\ at[k - 1] = Len(Q[k - 1])
  BY <1>3, <1>4, Zenon
<1>8. \A k \in 1..n : at[k] = at[k - 1] + Len(f[k])
  BY <1>2, <1>7, Zenon
<1>9. \A k \in 1..n : \A j \in 1..Len(f[k]) :
         at[k - 1] + j \in 1..Len(all) /\ all[at[k - 1] + j] = f[k][j]
  BY <1>2, <1>7, Zenon
<1>10. \A i \in 1..Len(all) : \E k \in 1..n : at[k - 1] < i /\ i <= at[k]
  BY <1>2, <1>7, Zenon
<1> QED BY <1>1, <1>6, <1>8, <1>9, <1>10, Zenon DEF Lays

(* A part is nothing, an entry, or an entry and the old path that it takes.    *)
GoodPart(part) ==
    \/ Len(part) = 0
    \/ Len(part) = 1 /\ ~TakesOldPath(part[1])
    \/ Len(part) = 2 /\ TakesOldPath(part[1])

(* The entries that are read are the first of the parts.                       *)
LEMMA EntriesStart ==
    ASSUME NEW S, NEW f \in Seq(Seq(S)), \A k \in 1..Len(f) : GoodPart(f[k]),
           NEW at, NEW out, Lays(at, f, out, S)
    PROVE  EntriesOf(out) = {at[k - 1] + 1 : k \in {l \in 1..Len(f) : Len(f[l]) # 0}}
<1> DEFINE n == Len(f)
<1> DEFINE N == Len(out)
<1> DEFINE Takes(i) == TakesOldPath(out[i])
<1> DEFINE Run(g) == g = [i \in 0..N |-> IF i = 0 THEN FALSE ELSE ~g[i - 1] /\ Takes(i)]
<1>1. /\ out \in Seq(S) /\ at \in [0..n -> Nat] /\ at[0] = 0 /\ at[n] = N
      /\ \A k \in 1..n : at[k] = at[k - 1] + Len(f[k])
      /\ \A k \in 1..n : \A j \in 1..Len(f[k]) :
            at[k - 1] + j \in 1..N /\ out[at[k - 1] + j] = f[k][j]
      /\ \A i \in 1..N : \E k \in 1..n : at[k - 1] < i /\ i <= at[k]
  BY Zenon DEF Lays
<1>2. n \in Nat /\ N \in Nat /\ \A k \in 1..n : k \in 0..n /\ k - 1 \in 0..n /\ Len(f[k]) \in Nat
  BY <1>1
<1>3. \A k \in 0..n : at[k] \in Nat
  BY <1>1, Zenon
<1>4. \E g : Run(g)
  <2> DEFINE G == [i \in 1..N |-> [x \in BOOLEAN |-> ~x /\ Takes(i)]]
  <2>1. \A i \in 1..N, x \in BOOLEAN : G[i][x] = (~x /\ Takes(i))
    BY Zenon
  <2>2. StaysIn(G, N, BOOLEAN)
    <3>1. \A x, y : (x /\ y) \in BOOLEAN
      OBVIOUS
    <3> HIDE DEF G, Takes
    <3> QED BY <2>1, <3>1, Zenon DEF StaysIn
  <2> HIDE DEF G, Takes
  <2>3. PICK R : IsRun(R, G, N, BOOLEAN, FALSE)
    <3>1. FALSE \in BOOLEAN
      OBVIOUS
    <3> QED BY <1>2, <2>2, <3>1, RunsThere, Zenon
  <2>4. \A i \in 0..N : i # 0 => i \in 1..N /\ i - 1 \in 0..N
    BY <1>2
  <2>5. /\ R \in [0..N -> BOOLEAN] /\ R[0] = FALSE
        /\ \A i \in 1..N : R[i] = G[i][R[i - 1]]
    BY <2>3, Zenon DEF IsRun
  <2>6. ASSUME NEW i \in 0..N
        PROVE  R[i] = IF i = 0 THEN FALSE ELSE ~R[i - 1] /\ Takes(i)
    <3>1. CASE i = 0
      BY <2>5, <3>1, Zenon
    <3>2. CASE i # 0
      <4>1. i \in 1..N /\ i - 1 \in 0..N
        BY <2>4, <3>2, Zenon
      <4>2. R[i - 1] \in BOOLEAN
        BY <2>5, <4>1, Zenon
      <4>3. R[i] = (~R[i - 1] /\ Takes(i))
        BY <2>1, <2>5, <4>1, <4>2, Zenon
      <4> QED BY <3>2, <4>3, Zenon
    <3> QED BY <3>1, <3>2, Zenon
  <2> HIDE DEF N
  <2> QED BY <2>5, <2>6, Zenon
<1> DEFINE taken == CHOOSE g : Run(g)
<1>5. Run(taken)
  <2> HIDE DEF Run
  <2> QED BY <1>4, Zenon
<1>6. EntriesOf(out) = {i \in DOMAIN out : ~taken[i - 1]}
  BY Zenon DEF EntriesOf
<1> HIDE DEF taken
<1>7. DOMAIN out = 1..N
  BY <1>1
<1>8. 0 \in 0..N /\ \A i \in 1..N : i \in 0..N /\ i # 0
  BY <1>2
<1>9. taken[0] = FALSE
  <2> HIDE DEF N, Takes
  <2> QED BY <1>5, <1>8, Zenon
<1>10. \A i \in 1..N : taken[i] = (~taken[i - 1] /\ Takes(i))
  <2> HIDE DEF N, Takes
  <2> QED BY <1>5, <1>8, Zenon
(* The step over a part.                                                      *)
<1>11. ASSUME NEW k \in 1..n, taken[at[k - 1]] = FALSE
       PROVE  /\ taken[at[k]] = FALSE
              /\ Len(f[k]) = 2 => taken[at[k - 1] + 1]
              /\ Len(f[k]) \in {0, 1, 2}
  <2> DEFINE a == at[k - 1]
  <2> DEFINE b == Len(f[k])
  <2>1. a \in Nat /\ at[k] = a + b
    BY <1>1, <1>2, <1>3, Zenon
  <2>2. \A j \in 1..b : a + j \in 1..N /\ out[a + j] = f[k][j]
    BY <1>1, Zenon
  <2>3. taken[a] = FALSE
    BY <1>11
  <2>4. GoodPart(f[k])
    BY Zenon
  <2>5. \/ b = 0
        \/ b = 1 /\ ~TakesOldPath(f[k][1])
        \/ b = 2 /\ TakesOldPath(f[k][1])
    BY <2>4, Zenon DEF GoodPart
  <2> HIDE DEF a, b, Takes, N, n
  <2>6. CASE b = 0
    <3>1. at[k] = a
      BY <2>1, <2>6
    <3> QED BY <2>3, <2>6, <3>1 DEF a, b
  <2>7. CASE b = 1 /\ ~TakesOldPath(f[k][1])
    <3>1. at[k] = a + 1 /\ (a + 1) - 1 = a /\ 1 \in 1..b
      BY <2>1, <2>7
    <3>2. a + 1 \in 1..N /\ ~Takes(a + 1)
      BY <2>2, <2>7, <3>1, Zenon DEF Takes
    <3>3. taken[a + 1] = FALSE
      BY <1>10, <3>1, <3>2, Zenon
    <3> QED BY <2>7, <3>1, <3>3 DEF a, b
  <2>8. CASE b = 2 /\ TakesOldPath(f[k][1])
    <3>1. at[k] = a + 2 /\ (a + 1) - 1 = a /\ (a + 2) - 1 = a + 1 /\ 1 \in 1..b /\ 2 \in 1..b
      BY <2>1, <2>8
    <3>2. a + 1 \in 1..N /\ Takes(a + 1) /\ a + 2 \in 1..N
      BY <2>2, <2>8, <3>1, Zenon DEF Takes
    <3>3. taken[a + 1] = TRUE
      BY <1>10, <2>3, <3>1, <3>2, Zenon
    <3>4. taken[a + 2] = FALSE
      BY <1>10, <3>1, <3>2, <3>3, Zenon
    <3> QED BY <2>8, <3>1, <3>3, <3>4 DEF a, b
  <2> QED BY <2>5, <2>6, <2>7, <2>8
<1>12. \A k \in 0..n : taken[at[k]] = FALSE
  <2> DEFINE T == {k \in 0..n : taken[at[k]] # FALSE}
  <2> SUFFICES ASSUME T # {} PROVE FALSE
    OBVIOUS
  <2>1. PICK k \in T : \A j \in T : ~(j < k)
    <3>1. T \in SUBSET Nat
      <4>1. \A k \in 0..n : k \in Nat
        BY <1>2
      <4> HIDE DEF n
      <4> QED BY <4>1, Zenon
    <3> HIDE DEF T
    <3> QED BY <3>1, HasLeast, Zenon
  <2>2. k \in 0..n /\ taken[at[k]] # FALSE
    BY Zenon
  <2>3. k # 0
    BY <1>1, <1>9, <2>2, Zenon
  <2>4. k \in 1..n /\ k - 1 \in 0..n /\ k - 1 < k
    BY <1>2, <2>2, <2>3
  <2>5. taken[at[k - 1]] = FALSE
    BY <2>1, <2>4, Zenon
  <2> HIDE DEF T
  <2> QED BY <1>11, <2>2, <2>4, <2>5, Zenon
<1>13. ASSUME NEW i \in 1..N, ~taken[i - 1]
       PROVE  \E k \in 1..n : Len(f[k]) # 0 /\ i = at[k - 1] + 1
  <2>1. PICK k \in 1..n : at[k - 1] < i /\ i <= at[k]
    BY <1>1, Zenon
  <2> DEFINE a == at[k - 1]
  <2> DEFINE b == Len(f[k])
  <2>2. a \in Nat /\ at[k] = a + b /\ a < i /\ i <= a + b /\ i \in Nat
    <3>1. i \in Nat
      BY <1>2
    <3> QED BY <1>1, <1>2, <1>3, <2>1, <3>1, Zenon
  <2>3. b \in {0, 1, 2} /\ (b = 2 => taken[a + 1])
    BY <1>2, <1>11, <1>12, Zenon
  <2>4. ~taken[i - 1]
    BY <1>13
  <2>5. b # 0 /\ i = a + 1
    <3> HIDE DEF a, b, N, n
    <3>1. i = a + 1 \/ (i = a + 2 /\ b = 2)
      BY <2>2, <2>3
    <3>2. i = a + 2 => i - 1 = a + 1
      BY <2>2
    <3>3. ~(i = a + 2 /\ b = 2)
      BY <2>3, <2>4, <3>2, Zenon
    <3> QED BY <2>2, <3>1, <3>3
  <2> QED BY <2>5, Zenon
<1>14. ASSUME NEW k \in 1..n, Len(f[k]) # 0
       PROVE  at[k - 1] + 1 \in 1..N /\ ~taken[(at[k - 1] + 1) - 1]
  <2>1. at[k - 1] \in Nat /\ (at[k - 1] + 1) - 1 = at[k - 1]
    <3>1. at[k - 1] \in Nat
      BY <1>2, <1>3, Zenon
    <3> QED BY <3>1
  <2>2. 1 \in 1..Len(f[k])
    BY <1>2, <1>14
  <2> QED BY <1>1, <1>2, <1>12, <2>1, <2>2, Zenon
<1> HIDE DEF N, n
<1>15. EntriesOf(out) = {i \in 1..N : ~taken[i - 1]}
  BY <1>6, <1>7, Zenon
<1>16. {i \in 1..N : ~taken[i - 1]} = {at[k - 1] + 1 : k \in {l \in 1..n : Len(f[l]) # 0}}
  BY <1>13, <1>14, Zenon
<1> QED BY <1>15, <1>16, Zenon DEF n

(* The words: the provers know of no string that it is in STRING.             *)
Text == STRING \cup {"quote", "=>", "lbrace", "rbrace", "/", "?", "1", "2", "u", "U", "0", ".",
                     "A", "D", "M", "R"}

OldOf(part) == IF TakesOldPath(part[1]) THEN part[2] ELSE <<>>
ChangedPart(part) == Len(part) # 0 /\ (IsOrdinary(part[1]) \/ IsRename(part[1]))

(* What parse_porcelain_v2 makes of them, part by part.                        *)
LEMMA Parsed ==
    ASSUME NEW f \in Seq(Seq(Seq(Text))), \A k \in 1..Len(f) : GoodPart(f[k])
    PROVE  LET lists == ParsePorcelain(FlattenSeq(f)) IN
           /\ lists.staged = {File(PathOf(f[k][1]), OldOf(f[k]), f[k][1][2]) :
                 k \in {l \in 1..Len(f) : ChangedPart(f[l]) /\ f[l][1][2] # "."}}
           /\ lists.unstaged = {File(PathOf(f[k][1]), <<>>, f[k][1][3]) :
                 k \in {l \in 1..Len(f) : ChangedPart(f[l]) /\ f[l][1][3] # "."}}
           /\ lists.untracked = {File(Rest(f[k][1], 1), <<>>, "?") :
                 k \in {l \in 1..Len(f) : Len(f[l]) # 0 /\ f[l][1][1] = "?"}}
<1> DEFINE n == Len(f)
<1> DEFINE out == FlattenSeq(f)
<1>1. PICK at : Lays(at, f, out, Seq(Text))
  BY Laid, Zenon
<1> DEFINE E == EntriesOf(out)
<1> DEFINE K == {l \in 1..n : Len(f[l]) # 0}
<1> DEFINE At(k) == at[k - 1] + 1
<1> HIDE DEF out
<1>2. E = {At(k) : k \in K}
  BY <1>1, EntriesStart, Zenon
<1>3. ASSUME NEW k \in K
      PROVE  At(k) \in E /\ out[At(k)] = f[k][1] /\ OldPath(out, At(k)) = OldOf(f[k])
  <2>1. At(k) \in E
    BY <1>2, Zenon
  <2>2. k \in 1..n /\ Len(f[k]) # 0 /\ GoodPart(f[k])
    BY Zenon
  <2> DEFINE a == at[k - 1]
  <2> DEFINE b == Len(f[k])
  <2>3. /\ a \in Nat /\ b \in {1, 2}
        /\ b = 2 <=> TakesOldPath(f[k][1])
    <3>1. k - 1 \in 0..n
      OBVIOUS
    <3>2. a \in Nat
      BY <1>1, <3>1, Zenon DEF Lays
    <3>3. 1 # 2
      OBVIOUS
    <3> QED BY <2>2, <3>2, <3>3, Zenon DEF GoodPart
  <2>4. \A j \in 1..b : a + j \in 1..Len(out) /\ out[a + j] = f[k][j]
    BY <1>1, <2>2, Zenon DEF Lays
  <2>5. Len(out) \in Nat
    <3>1. out \in Seq(Seq(Text))
      BY <1>1, Zenon DEF Lays
    <3> QED BY <3>1
  <2> HIDE DEF a, b
  <2>6. 1 \in 1..b /\ (b = 2 => 2 \in 1..b)
    BY <2>3
  <2>7. out[a + 1] = f[k][1]
    BY <2>4, <2>6, Zenon
  <2>8. b = 2 => a + 1 < Len(out) /\ (a + 1) + 1 = a + 2 /\ out[a + 2] = f[k][2]
    <3> SUFFICES ASSUME b = 2 PROVE a + 1 < Len(out) /\ (a + 1) + 1 = a + 2 /\ out[a + 2] = f[k][2]
      OBVIOUS
    <3>1. a + 2 \in 1..Len(out) /\ out[a + 2] = f[k][2]
      BY <2>4, <2>6, Zenon
    <3>2. a + 1 < Len(out) /\ (a + 1) + 1 = a + 2
      BY <2>3, <2>5, <3>1
    <3> QED BY <3>1, <3>2
  <2>9. OldPath(out, a + 1) = OldOf(f[k])
    <3>1. CASE IsRename(f[k][1])
      <4>1. b = 2
        BY <2>3, <3>1, Zenon DEF TakesOldPath
      <4>2. a + 1 < Len(out) /\ (a + 1) + 1 = a + 2 /\ out[a + 2] = f[k][2]
        BY <2>8, <4>1, Zenon
      <4>3. OldPath(out, a + 1) = f[k][2]
        BY <2>7, <3>1, <4>2, Zenon DEF OldPath
      <4> QED BY <3>1, <4>3, Zenon DEF OldOf, TakesOldPath
    <3>2. CASE ~IsRename(f[k][1])
      BY <2>7, <3>2, Zenon DEF OldPath, OldOf, TakesOldPath
    <3> QED BY <3>1, <3>2
  <2> QED BY <2>1, <2>7, <2>9, Zenon DEF a
<1>4. \A i \in E : \E k \in K : i = At(k)
  BY <1>2, Zenon
<1>5. \A k \in K : k \in 1..n /\ Len(f[k]) # 0
  BY Zenon
<1>6. \A k \in 1..n : Len(f[k]) # 0 => k \in K
  BY Zenon
<1> DEFINE changed == {i \in E : IsOrdinary(out[i]) \/ IsRename(out[i])}
<1> HIDE DEF E, K, n, At
<1>7. \A k \in K : At(k) \in changed <=> ChangedPart(f[k])
  BY <1>3, <1>5, Zenon DEF ChangedPart
<1>8. \A i \in changed : \E k \in K : i = At(k) /\ ChangedPart(f[k])
  BY <1>4, <1>7, Zenon
<1> HIDE DEF changed
<1>9. {File(PathOf(out[i]), OldPath(out, i), out[i][2]) : i \in {j \in changed : out[j][2] # "."}}
      = {File(PathOf(f[k][1]), OldOf(f[k]), f[k][1][2]) :
            k \in {l \in 1..n : ChangedPart(f[l]) /\ f[l][1][2] # "."}}
  <2> DEFINE A == {File(PathOf(out[i]), OldPath(out, i), out[i][2]) :
                      i \in {j \in changed : out[j][2] # "."}}
  <2> DEFINE B == {File(PathOf(f[k][1]), OldOf(f[k]), f[k][1][2]) :
                      k \in {l \in 1..n : ChangedPart(f[l]) /\ f[l][1][2] # "."}}
  <2>1. ASSUME NEW x \in A PROVE x \in B
    <3>1. PICK i \in changed : out[i][2] # "." /\ x = File(PathOf(out[i]), OldPath(out, i), out[i][2])
      BY Zenon
    <3>2. PICK k \in K : i = At(k) /\ ChangedPart(f[k])
      BY <1>8, Zenon
    <3>3. x = File(PathOf(f[k][1]), OldOf(f[k]), f[k][1][2]) /\ f[k][1][2] # "."
      BY <1>3, <3>1, <3>2, Zenon
    <3> QED BY <1>5, <3>2, <3>3, Zenon
  <2>2. ASSUME NEW x \in B PROVE x \in A
    <3>1. PICK k \in 1..n : /\ ChangedPart(f[k]) /\ f[k][1][2] # "."
                            /\ x = File(PathOf(f[k][1]), OldOf(f[k]), f[k][1][2])
      BY Zenon
    <3>2. k \in K
      BY <1>6, <3>1, Zenon DEF ChangedPart
    <3>3. /\ At(k) \in changed /\ out[At(k)][2] # "."
          /\ x = File(PathOf(out[At(k)]), OldPath(out, At(k)), out[At(k)][2])
      BY <1>3, <1>7, <3>1, <3>2, Zenon
    <3> QED BY <3>3, Zenon
  <2> HIDE DEF A, B
  <2>3. A = B
    BY <2>1, <2>2
  <2> QED BY <2>3, Zenon DEF A, B
<1>10. {File(PathOf(out[i]), <<>>, out[i][3]) : i \in {j \in changed : out[j][3] # "."}}
       = {File(PathOf(f[k][1]), <<>>, f[k][1][3]) :
             k \in {l \in 1..n : ChangedPart(f[l]) /\ f[l][1][3] # "."}}
  <2> DEFINE A == {File(PathOf(out[i]), <<>>, out[i][3]) :
                      i \in {j \in changed : out[j][3] # "."}}
  <2> DEFINE B == {File(PathOf(f[k][1]), <<>>, f[k][1][3]) :
                      k \in {l \in 1..n : ChangedPart(f[l]) /\ f[l][1][3] # "."}}
  <2>1. ASSUME NEW x \in A PROVE x \in B
    <3>1. PICK i \in changed : out[i][3] # "." /\ x = File(PathOf(out[i]), <<>>, out[i][3])
      BY Zenon
    <3>2. PICK k \in K : i = At(k) /\ ChangedPart(f[k])
      BY <1>8, Zenon
    <3>3. x = File(PathOf(f[k][1]), <<>>, f[k][1][3]) /\ f[k][1][3] # "."
      BY <1>3, <3>1, <3>2, Zenon
    <3> QED BY <1>5, <3>2, <3>3, Zenon
  <2>2. ASSUME NEW x \in B PROVE x \in A
    <3>1. PICK k \in 1..n : /\ ChangedPart(f[k]) /\ f[k][1][3] # "."
                            /\ x = File(PathOf(f[k][1]), <<>>, f[k][1][3])
      BY Zenon
    <3>2. k \in K
      BY <1>6, <3>1, Zenon DEF ChangedPart
    <3>3. /\ At(k) \in changed /\ out[At(k)][3] # "."
          /\ x = File(PathOf(out[At(k)]), <<>>, out[At(k)][3])
      BY <1>3, <1>7, <3>1, <3>2, Zenon
    <3> QED BY <3>3, Zenon
  <2> HIDE DEF A, B
  <2>3. A = B
    BY <2>1, <2>2
  <2> QED BY <2>3, Zenon DEF A, B
<1>11. {File(Rest(out[i], 1), <<>>, "?") : i \in {j \in E : out[j][1] = "?"}}
       = {File(Rest(f[k][1], 1), <<>>, "?") :
             k \in {l \in 1..n : Len(f[l]) # 0 /\ f[l][1][1] = "?"}}
  <2> DEFINE A == {File(Rest(out[i], 1), <<>>, "?") : i \in {j \in E : out[j][1] = "?"}}
  <2> DEFINE B == {File(Rest(f[k][1], 1), <<>>, "?") :
                      k \in {l \in 1..n : Len(f[l]) # 0 /\ f[l][1][1] = "?"}}
  <2>1. ASSUME NEW x \in A PROVE x \in B
    <3>1. PICK i \in E : out[i][1] = "?" /\ x = File(Rest(out[i], 1), <<>>, "?")
      BY Zenon
    <3>2. PICK k \in K : i = At(k)
      BY <1>4, Zenon
    <3>3. x = File(Rest(f[k][1], 1), <<>>, "?") /\ f[k][1][1] = "?"
      BY <1>3, <3>1, <3>2, Zenon
    <3> QED BY <1>5, <3>2, <3>3, Zenon
  <2>2. ASSUME NEW x \in B PROVE x \in A
    <3>1. PICK k \in 1..n : /\ Len(f[k]) # 0 /\ f[k][1][1] = "?"
                            /\ x = File(Rest(f[k][1], 1), <<>>, "?")
      BY Zenon
    <3>2. k \in K
      BY <1>6, <3>1, Zenon
    <3>3. At(k) \in E /\ out[At(k)][1] = "?" /\ x = File(Rest(out[At(k)], 1), <<>>, "?")
      BY <1>3, <3>1, <3>2, Zenon
    <3> QED BY <3>3, Zenon
  <2> HIDE DEF A, B
  <2>3. A = B
    BY <2>1, <2>2
  <2> QED BY <2>3, Zenon DEF A, B
<1>12. /\ ParsePorcelain(out).staged = {File(PathOf(out[i]), OldPath(out, i), out[i][2]) :
             i \in {j \in changed : out[j][2] # "."}}
       /\ ParsePorcelain(out).unstaged = {File(PathOf(out[i]), <<>>, out[i][3]) :
             i \in {j \in changed : out[j][3] # "."}}
       /\ ParsePorcelain(out).untracked = {File(Rest(out[i], 1), <<>>, "?") :
             i \in {j \in E : out[j][1] = "?"}}
  BY DEF ParsePorcelain, changed, E
<1> QED BY <1>9, <1>10, <1>11, <1>12, Zenon DEF out, n

(* What git prints of a path, where none is in conflict.                       *)
GitTypes == /\ head \in [Paths -> Nat] /\ index \in [Paths -> Nat] /\ work \in [Paths -> Nat]
            /\ unmerged = {}

LEMMA PathsAre ==
    ASSUME NEW p \in Paths
    PROVE  /\ p \in Seq(Text) /\ Len(p) \in Nat /\ Len(p) >= 1 /\ p[1] # "quote"
           /\ \A i \in 1..Len(p) : p[i] # "=>" /\ p[i] # "lbrace" /\ p[i] # "rbrace"
<1>1. p \in Seq(STRING) /\ p # <<>> /\ p[1] # "quote" /\ \A i \in 1..Len(p) : p[i] \notin {"=>", "lbrace", "rbrace"}
  BY GitAssumption, Zenon
<1>2. Len(p) \in Nat /\ Len(p) >= 1
  BY <1>1
<1>3. p \in Seq(Text)
  BY <1>1, SeqMonotonic DEF Text
<1> QED BY <1>1, <1>2, <1>3

(* The rest of an entry after the words before the path is the path.           *)
LEMMA RestIs ==
    ASSUME NEW S, NEW a \in Seq(S), NEW p \in Seq(S)
    PROVE  /\ Rest(a \o p, Len(a)) = p
           /\ a \o p \in Seq(S) /\ Len(a \o p) = Len(a) + Len(p)
           /\ \A i \in 1..Len(a) : (a \o p)[i] = a[i]
<1>1. /\ a \o p \in Seq(S) /\ Len(a \o p) = Len(a) + Len(p)
      /\ \A i \in 1..Len(a) : (a \o p)[i] = a[i]
      /\ \A i \in 1..Len(p) : (a \o p)[Len(a) + i] = p[i]
      /\ Len(a) \in Nat /\ Len(p) \in Nat
  OBVIOUS
<1> DEFINE c == a \o p
<1> DEFINE r == SubSeq(c, Len(a) + 1, Len(c))
<1>2. c \in Seq(S) /\ Len(c) = Len(a) + Len(p) /\ \A i \in 1..Len(p) : c[Len(a) + i] = p[i]
  BY <1>1
<1> HIDE DEF c
<1>3. r \in Seq(S) /\ Len(r) = Len(p) /\ \A i \in 1..Len(p) : r[i] = c[Len(a) + i]
  BY <1>1, <1>2
<1>4. \A i \in 1..Len(p) : r[i] = p[i]
  BY <1>2, <1>3, Zenon
<1> HIDE DEF r
<1>5. r = p
  BY <1>3, <1>4, SeqEqual
<1> QED BY <1>1, <1>5 DEF Rest, c, r

Entry(a, b, c, n, p) == <<a, b, c>> \o Words(n) \o p
ReadsAs(entry, a, b, c, n, p) ==
    /\ entry \in Seq(Text) /\ Len(entry) = 3 + n + Len(p)
    /\ entry[1] = a /\ entry[2] = b /\ entry[3] = c
    /\ Rest(entry, 3 + n) = p

LEMMA WordsBefore ==
    ASSUME NEW a \in Text, NEW b \in Text, NEW c \in Text, NEW n \in Nat,
           NEW p \in Seq(Text)
    PROVE  ReadsAs(Entry(a, b, c, n, p), a, b, c, n, p)
<1> DEFINE w == Words(n)
<1> DEFINE t == <<a, b, c>>
<1>1. w \in Seq(Text) /\ Len(w) = n
  <2>1. "0" \in Text
    BY DEF Text
  <2> QED BY <2>1 DEF Words
<1>2. t \in Seq(Text) /\ Len(t) = 3 /\ t[1] = a /\ t[2] = b /\ t[3] = c
  OBVIOUS
<1> HIDE DEF w, t
<1> DEFINE u == t \o w
<1>3. /\ u \in Seq(Text) /\ Len(u) = 3 + n
      /\ u[1] = a /\ u[2] = b /\ u[3] = c
  <2>1. u \in Seq(Text) /\ Len(u) = Len(t) + Len(w) /\ \A i \in 1..Len(t) : u[i] = t[i]
    BY <1>1, <1>2, RestIs, Zenon
  <2>2. 1 \in 1..Len(t) /\ 2 \in 1..Len(t) /\ 3 \in 1..Len(t)
    BY <1>2
  <2> HIDE DEF u
  <2>3. u[1] = a /\ u[2] = b /\ u[3] = c
    BY <1>2, <2>1, <2>2, Zenon
  <2>4. Len(u) = 3 + n
    BY <1>1, <1>2, <2>1, Zenon
  <2> QED BY <2>1, <2>3, <2>4, Zenon
<1> HIDE DEF u
<1>4. /\ u \o p \in Seq(Text) /\ Len(u \o p) = Len(u) + Len(p) /\ Rest(u \o p, Len(u)) = p
      /\ \A i \in 1..Len(u) : (u \o p)[i] = u[i]
  BY <1>3, RestIs
<1>5. 1 \in 1..Len(u) /\ 2 \in 1..Len(u) /\ 3 \in 1..Len(u)
  BY <1>3
<1> DEFINE en == u \o p
<1>6. /\ en \in Seq(Text) /\ Len(en) = Len(u) + Len(p) /\ Rest(en, Len(u)) = p
      /\ en[1] = a /\ en[2] = b /\ en[3] = c
  BY <1>3, <1>4, <1>5, Zenon
<1> HIDE DEF en
<1>7. /\ en \in Seq(Text) /\ Len(en) = 3 + n + Len(p) /\ Rest(en, 3 + n) = p
      /\ en[1] = a /\ en[2] = b /\ en[3] = c
  BY <1>3, <1>6
<1> QED BY <1>7, Zenon DEF ReadsAs, Entry, en, u, t, w

LEMMA OneOrTwo ==
    ASSUME NEW S, NEW a \in S, NEW b \in S
    PROVE  /\ <<a>> \in Seq(S) /\ Len(<<a>>) = 1 /\ <<a>>[1] = a
           /\ <<a, b>> \in Seq(S) /\ Len(<<a, b>>) = 2 /\ <<a, b>>[1] = a /\ <<a, b>>[2] = b
  OBVIOUS

LEMMA CodesAre ==
    ASSUME NEW a, NEW b
    PROVE  Code(a, b) \in Text /\ (Code(a, b) = "." <=> a = b)
  BY DEF Code, Text

(* The ends of a rename.                                                       *)
LEMMA RenamesAre ==
    ASSUME NEW p \in Paths
    PROVE  /\ Renamed(p) # {} => /\ Source(p) \in Paths /\ Source(p) \in Renamed(p)
                                 /\ head[p] = 0 /\ index[p] # 0
           /\ IsSource(p) => head[p] # 0 /\ index[p] = 0
<1>1. ASSUME NEW q \in Paths, NEW o \in Renamed(q)
      PROVE  o \in Paths /\ head[q] = 0 /\ index[q] # 0 /\ head[o] # 0 /\ index[o] = 0
  <2>1. o \in Paths /\ RenamedTo(o) = {q}
    BY Zenon DEF Renamed
  <2>2. q \in RenamedTo(o)
    BY <2>1, Zenon
  <2> QED BY <2>1, <2>2, Zenon DEF RenamedTo
<1>2. Renamed(p) # {} => Source(p) \in Renamed(p)
  BY Zenon DEF Source
<1>3. IsSource(p) => \E q \in Paths : p \in Renamed(q)
  BY Zenon DEF IsSource
<1> QED BY <1>1, <1>2, <1>3, Zenon

(* An entry of two columns and a path, which is no rename; and of a rename.    *)
ReadsOrdinary(e, x, y, p) ==
    /\ e \in Seq(Text) /\ e[1] = "1" /\ e[2] = x /\ e[3] = y
    /\ IsOrdinary(e) /\ ~IsRename(e) /\ PathOf(e) = p
ReadsRename(e, y, p) ==
    /\ e \in Seq(Text) /\ e[1] = "2" /\ e[2] = "R" /\ e[3] = y
    /\ IsRename(e) /\ PathOf(e) = p
PartReads(part, x, y, p, old) ==
    /\ part \in Seq(Seq(Text)) /\ Len(part) # 0 /\ ChangedPart(part) /\ GoodPart(part)
    /\ PathOf(part[1]) = p /\ OldOf(part) = old
    /\ part[1][1] \in {"1", "2"} /\ part[1][2] = x /\ part[1][3] = y

LEMMA OrdinaryEntries ==
    ASSUME NEW x \in Text, NEW y \in Text, NEW p \in Paths,
           NEW e, e = Entry("1", x, y, 6, p)
    PROVE  ReadsOrdinary(e, x, y, p)
<1>1. p \in Seq(Text) /\ Len(p) \in Nat /\ Len(p) >= 1
  BY PathsAre, Zenon
<1>2. "1" \in Text /\ 6 \in Nat /\ "1" # "2"
  BY DEF Text
<1>3. /\ e \in Seq(Text) /\ Len(e) = 3 + 6 + Len(p)
      /\ e[1] = "1" /\ e[2] = x /\ e[3] = y /\ Rest(e, 3 + 6) = p
  <2>1. ReadsAs(Entry("1", x, y, 6, p), "1", x, y, 6, p)
    BY <1>1, <1>2, WordsBefore, Zenon
  <2> QED BY <2>1, Zenon DEF ReadsAs
<1>4. Len(e) >= 10 /\ Rest(e, 9) = p
  BY <1>1, <1>3
<1>5. IsOrdinary(e) /\ ~IsRename(e)
  BY <1>2, <1>3, <1>4 DEF IsOrdinary, IsRename
<1>6. PathOf(e) = p
  BY <1>4, <1>5, Zenon DEF PathOf
<1> QED BY <1>3, <1>5, <1>6, Zenon DEF ReadsOrdinary

LEMMA OrdinaryParts ==
    ASSUME NEW x \in Text, NEW y \in Text, NEW p \in Paths
    PROVE  PartReads(<<Entry("1", x, y, 6, p)>>, x, y, p, <<>>)
<1> DEFINE e == Entry("1", x, y, 6, p)
<1>1. /\ e \in Seq(Text) /\ e[1] = "1" /\ e[2] = x /\ e[3] = y
      /\ IsOrdinary(e) /\ ~IsRename(e) /\ PathOf(e) = p
  <2>1. ReadsOrdinary(e, x, y, p)
    BY OrdinaryEntries, Zenon
  <2> QED BY <2>1, Zenon DEF ReadsOrdinary
<1> DEFINE part == <<e>>
<1> HIDE DEF e
<1>2. part \in Seq(Seq(Text)) /\ Len(part) = 1 /\ part[1] = e
  BY <1>1, OneOrTwo, Zenon
<1>3. 1 # 0
  OBVIOUS
<1> HIDE DEF part
<1>4. ChangedPart(part) /\ GoodPart(part) /\ OldOf(part) = <<>>
  BY <1>1, <1>2, <1>3, Zenon DEF ChangedPart, GoodPart, OldOf, TakesOldPath
<1> QED BY <1>1, <1>2, <1>3, <1>4, Zenon DEF PartReads, part, e

LEMMA RenameEntries ==
    ASSUME NEW y \in Text, NEW p \in Paths, NEW e, e = Entry("2", "R", y, 7, p)
    PROVE  ReadsRename(e, y, p)
<1>1. p \in Seq(Text) /\ Len(p) \in Nat /\ Len(p) >= 1
  BY PathsAre, Zenon
<1>2. "2" \in Text /\ "R" \in Text /\ 7 \in Nat
  BY DEF Text
<1>3. /\ e \in Seq(Text) /\ Len(e) = 3 + 7 + Len(p)
      /\ e[1] = "2" /\ e[2] = "R" /\ e[3] = y /\ Rest(e, 3 + 7) = p
  <2>1. ReadsAs(Entry("2", "R", y, 7, p), "2", "R", y, 7, p)
    BY <1>1, <1>2, WordsBefore, Zenon
  <2> QED BY <2>1, Zenon DEF ReadsAs
<1>4. Len(e) >= 11 /\ Rest(e, 10) = p
  BY <1>1, <1>3
<1>5. IsRename(e)
  BY <1>3, <1>4 DEF IsRename
<1>6. PathOf(e) = p
  BY <1>4, <1>5, Zenon DEF PathOf
<1> QED BY <1>3, <1>5, <1>6, Zenon DEF ReadsRename

LEMMA RenameParts ==
    ASSUME NEW y \in Text, NEW p \in Paths, NEW o \in Paths
    PROVE  PartReads(<<Entry("2", "R", y, 7, p), o>>, "R", y, p, o)
<1> DEFINE e == Entry("2", "R", y, 7, p)
<1>1. /\ e \in Seq(Text) /\ e[1] = "2" /\ e[2] = "R" /\ e[3] = y
      /\ IsRename(e) /\ PathOf(e) = p
  <2>1. ReadsRename(e, y, p)
    BY RenameEntries, Zenon
  <2> QED BY <2>1, Zenon DEF ReadsRename
<1> HIDE DEF e
<1> DEFINE part == <<e, o>>
<1>2. o \in Seq(Text)
  BY PathsAre, Zenon
<1>3. part \in Seq(Seq(Text)) /\ Len(part) = 2 /\ part[1] = e /\ part[2] = o
  BY <1>1, <1>2, OneOrTwo, Zenon
<1>4. 2 # 0
  OBVIOUS
<1> HIDE DEF part
<1>5. ChangedPart(part) /\ GoodPart(part) /\ OldOf(part) = o
  BY <1>1, <1>3, <1>4, Zenon DEF ChangedPart, GoodPart, OldOf, TakesOldPath
<1> QED BY <1>1, <1>3, <1>4, <1>5, Zenon DEF PartReads, part, e

StagedPaths == {p \in Paths : head[p] # index[p] /\ ~IsSource(p)}
UnstagedPaths == {p \in Paths : index[p] # 0 /\ index[p] # work[p]}
StagedFile(p) == File(p, IF Renamed(p) # {} THEN Source(p) ELSE <<>>,
                      IF Renamed(p) # {} THEN "R" ELSE Code(head[p], index[p]))
UnstagedFile(p) == File(p, <<>>, Code(index[p], work[p]))

LEMMA TrackedAre ==
    ASSUME GitTypes, NEW p \in Paths
    PROVE  LET part == TrackedEntries(p) IN
           /\ part \in Seq(Seq(Text)) /\ GoodPart(part)
           /\ (ChangedPart(part) /\ part[1][2] # ".") <=> p \in StagedPaths
           /\ p \in StagedPaths => File(PathOf(part[1]), OldOf(part), part[1][2]) = StagedFile(p)
           /\ (ChangedPart(part) /\ part[1][3] # ".") <=> p \in UnstagedPaths
           /\ p \in UnstagedPaths => File(PathOf(part[1]), <<>>, part[1][3]) = UnstagedFile(p)
           /\ Len(part) # 0 => part[1][1] # "?"
<1> DEFINE x == Code(head[p], index[p])
<1> DEFINE y == IF index[p] = 0 THEN "." ELSE Code(index[p], work[p])
<1>1. /\ x \in Text /\ (x = "." <=> head[p] = index[p])
      /\ y \in Text /\ (y = "." <=> ~(index[p] # 0 /\ index[p] # work[p]))
      /\ index[p] # 0 => y = Code(index[p], work[p])
  <2>1. /\ Code(head[p], index[p]) \in Text /\ (Code(head[p], index[p]) = "." <=> head[p] = index[p])
        /\ Code(index[p], work[p]) \in Text /\ (Code(index[p], work[p]) = "." <=> index[p] = work[p])
    BY CodesAre, Zenon
  <2>2. x \in Text /\ (x = "." <=> head[p] = index[p])
    BY <2>1, Zenon
  <2>3. CASE index[p] = 0
    <3>1. y = "." /\ "." \in Text
      BY <2>3 DEF Text
    <3> HIDE DEF x, y
    <3> QED BY <2>2, <2>3, <3>1, Zenon
  <2>4. CASE index[p] # 0
    <3>1. y = Code(index[p], work[p])
      BY <2>4, Zenon
    <3> HIDE DEF x, y
    <3> QED BY <2>1, <2>2, <2>4, <3>1, Zenon
  <2> QED BY <2>3, <2>4, Zenon
<1> HIDE DEF x, y
<1>2. p \notin unmerged
  BY DEF GitTypes
<1>3. /\ Renamed(p) # {} => Source(p) \in Paths /\ head[p] # index[p] /\ index[p] # 0
      /\ IsSource(p) => head[p] # 0 /\ index[p] = 0
  BY RenamesAre, Zenon
<1> DEFINE part == TrackedEntries(p)
<1>4. CASE IsSource(p)
  <2>1. part = <<>>
    BY <1>2, <1>4, Zenon DEF TrackedEntries
  <2>2. part \in Seq(Seq(Text)) /\ Len(part) = 0
    BY <2>1
  <2>3. p \notin StagedPaths /\ p \notin UnstagedPaths
    BY <1>3, <1>4, Zenon DEF StagedPaths, UnstagedPaths
  <2> QED BY <2>2, <2>3, Zenon DEF GoodPart, ChangedPart
<1>5. CASE ~IsSource(p) /\ Renamed(p) # {}
  <2>1. part = <<Entry("2", "R", y, 7, p), Source(p)>>
    BY <1>2, <1>5, Zenon DEF TrackedEntries, Entry, y
  <2>2. PartReads(part, "R", y, p, Source(p))
    <3>1. PartReads(<<Entry("2", "R", y, 7, p), Source(p)>>, "R", y, p, Source(p))
      BY <1>1, <1>3, <1>5, RenameParts, Zenon
    <3> QED BY <2>1, <3>1, Zenon
  <2>3. "R" # "." /\ "2" # "?" /\ "1" # "?"
    OBVIOUS
  <2>4. p \in StagedPaths
    BY <1>3, <1>5, Zenon DEF StagedPaths
  <2>5. p \in UnstagedPaths <=> y # "."
    BY <1>1, Zenon DEF UnstagedPaths
  <2>6. File(PathOf(part[1]), OldOf(part), part[1][2]) = StagedFile(p)
    BY <1>5, <2>2, Zenon DEF PartReads, StagedFile
  <2>7. p \in UnstagedPaths => File(PathOf(part[1]), <<>>, part[1][3]) = UnstagedFile(p)
    BY <1>1, <2>2, <1>3, <1>5, Zenon DEF PartReads, UnstagedFile
  <2> QED BY <1>1, <2>2, <2>3, <2>4, <2>5, <2>6, <2>7, Zenon DEF PartReads
<1>6. CASE ~IsSource(p) /\ Renamed(p) = {} /\ (x # "." \/ y # ".")
  <2>1. part = <<Entry("1", x, y, 6, p)>>
    <3>1. <<x, y>> # <<".", ".">>
      BY <1>6
    <3> QED BY <1>2, <1>6, <3>1, Zenon DEF TrackedEntries, Entry, x, y
  <2>2. PartReads(part, x, y, p, <<>>)
    <3>1. PartReads(<<Entry("1", x, y, 6, p)>>, x, y, p, <<>>)
      BY <1>1, OrdinaryParts, Zenon
    <3> QED BY <2>1, <3>1, Zenon
  <2>3. "1" # "?" /\ "2" # "?"
    OBVIOUS
  <2>4. p \in StagedPaths <=> x # "."
    BY <1>1, <1>6, Zenon DEF StagedPaths
  <2>5. p \in UnstagedPaths <=> y # "."
    BY <1>1, Zenon DEF UnstagedPaths
  <2>6. File(PathOf(part[1]), OldOf(part), part[1][2]) = StagedFile(p)
    BY <1>6, <2>2, Zenon DEF PartReads, StagedFile, x
  <2>7. p \in UnstagedPaths => File(PathOf(part[1]), <<>>, part[1][3]) = UnstagedFile(p)
    BY <1>1, <2>2, Zenon DEF PartReads, UnstagedFile, UnstagedPaths
  <2> QED BY <1>1, <2>2, <2>3, <2>4, <2>5, <2>6, <2>7, Zenon DEF PartReads
<1>7. CASE ~IsSource(p) /\ Renamed(p) = {} /\ x = "." /\ y = "."
  <2>1. part = <<>>
    <3>1. <<x, y>> = <<".", ".">>
      BY <1>7, Zenon
    <3> QED BY <1>2, <1>7, <3>1, Zenon DEF TrackedEntries, x, y
  <2>2. part \in Seq(Seq(Text)) /\ Len(part) = 0
    BY <2>1
  <2>3. p \notin StagedPaths /\ p \notin UnstagedPaths
    BY <1>1, <1>7, Zenon DEF StagedPaths, UnstagedPaths
  <2> QED BY <2>2, <2>3, Zenon DEF GoodPart, ChangedPart
<1> QED BY <1>4, <1>5, <1>6, <1>7, Zenon

LEMMA UntrackedAre ==
    ASSUME GitTypes, NEW p \in Paths
    PROVE  LET part == UntrackedEntries(p) IN
           /\ part \in Seq(Seq(Text)) /\ GoodPart(part) /\ ~ChangedPart(part)
           /\ (Len(part) # 0 /\ part[1][1] = "?") <=> p \in UntrackedPaths
           /\ p \in UntrackedPaths => Rest(part[1], 1) = p
<1> DEFINE part == UntrackedEntries(p)
<1>1. p \notin unmerged
  BY DEF GitTypes
<1>2. CASE p \in UntrackedPaths
  <2> DEFINE e == <<"?">> \o p
  <2>1. part = <<e>>
    BY <1>1, <1>2, Zenon DEF UntrackedEntries, UntrackedPaths
  <2>2. <<"?">> \in Seq(Text) /\ Len(<<"?">>) = 1 /\ p \in Seq(Text) /\ <<"?">>[1] = "?" /\ 1 \in 1..1
    <3>1. "?" \in Text
      BY DEF Text
    <3>2. p \in Seq(Text)
      BY PathsAre, Zenon
    <3> QED BY <3>1, <3>2
  <2>3. e \in Seq(Text) /\ Rest(e, 1) = p /\ e[1] = "?"
    BY <2>2, RestIs, Zenon
  <2> HIDE DEF e
  <2>4. part \in Seq(Seq(Text)) /\ Len(part) = 1 /\ part[1] = e
    BY <2>1, <2>3
  <2>5. ~IsOrdinary(e) /\ ~IsRename(e)
    BY <2>3 DEF IsOrdinary, IsRename
  <2> HIDE DEF part
  <2>6. GoodPart(part) /\ ~ChangedPart(part)
    BY <2>4, <2>5, Zenon DEF GoodPart, ChangedPart, TakesOldPath
  <2>7. Len(part) # 0
    BY <2>4
  <2> QED BY <1>2, <2>3, <2>4, <2>6, <2>7, Zenon DEF part
<1>3. CASE p \notin UntrackedPaths
  <2>1. part = <<>>
    BY <1>3, Zenon DEF UntrackedEntries, UntrackedPaths
  <2>2. part \in Seq(Seq(Text)) /\ Len(part) = 0
    BY <2>1
  <2> QED BY <1>3, <2>2, Zenon DEF GoodPart, ChangedPart
<1> QED BY <1>2, <1>3, Zenon

Adjoins(c, a, b, S) ==
    /\ c \in Seq(S)
    /\ \A k \in 1..Len(c) : \/ k \in 1..Len(a) /\ c[k] = a[k]
                            \/ \E j \in 1..Len(b) : c[k] = b[j]
    /\ \A j \in 1..Len(a) : j \in 1..Len(c) /\ c[j] = a[j]
    /\ \A j \in 1..Len(b) : \E k \in 1..Len(c) : c[k] = b[j]

LEMMA BothParts ==
    ASSUME NEW S, NEW a \in Seq(S), NEW b \in Seq(S)
    PROVE  Adjoins(a \o b, a, b, S)
<1> DEFINE c == a \o b
<1>1. /\ c \in Seq(S) /\ Len(c) = Len(a) + Len(b)
      /\ \A i \in 1..Len(a) : c[i] = a[i]
      /\ \A i \in 1..Len(b) : c[Len(a) + i] = b[i]
      /\ Len(a) \in Nat /\ Len(b) \in Nat
  OBVIOUS
<1> HIDE DEF c
<1>2. ASSUME NEW k \in 1..Len(c)
      PROVE  \/ k \in 1..Len(a) /\ c[k] = a[k]
             \/ \E j \in 1..Len(b) : c[k] = b[j]
  <2>1. CASE k \in 1..Len(a)
    BY <1>1, <2>1
  <2>2. CASE k \notin 1..Len(a)
    <3>1. k - Len(a) \in 1..Len(b) /\ Len(a) + (k - Len(a)) = k
      BY <1>1, <2>2
    <3>2. c[Len(a) + (k - Len(a))] = b[k - Len(a)]
      BY <1>1, <3>1, Zenon
    <3>3. c[k] = b[k - Len(a)]
      BY <3>1, <3>2, Zenon
    <3> QED BY <3>1, <3>3, Zenon
  <2> QED BY <2>1, <2>2
<1>3. ASSUME NEW j \in 1..Len(a) PROVE j \in 1..Len(c) /\ c[j] = a[j]
  BY <1>1
<1>4. ASSUME NEW j \in 1..Len(b) PROVE \E k \in 1..Len(c) : c[k] = b[j]
  <2>1. Len(a) + j \in 1..Len(c)
    BY <1>1
  <2>2. c[Len(a) + j] = b[j]
    BY <1>1, Zenon
  <2> QED BY <2>1, <2>2, Zenon
<1> QED BY <1>1, <1>2, <1>3, <1>4, Zenon DEF Adjoins, c

LEMMA OrderIs ==
    /\ Order \in Seq(Paths) /\ Len(Order) \in Nat /\ DOMAIN Order = 1..Len(Order)
    /\ \A i \in 1..Len(Order) : Order[i] \in Paths
    /\ \A p \in Paths : \E i \in 1..Len(Order) : Order[i] = p
    /\ \A i, j \in 1..Len(Order) : Order[i] = Order[j] => i = j
<1>1. /\ Order \in Seq(Paths) /\ \A p \in Paths : \E i \in 1..Len(Order) : Order[i] = p
      /\ \A i, j \in 1..Len(Order) : Order[i] = Order[j] => i = j
  BY GitAssumption, Zenon
<1>2. Len(Order) \in Nat /\ DOMAIN Order = 1..Len(Order) /\ \A i \in 1..Len(Order) : Order[i] \in Paths
  BY <1>1
<1> QED BY <1>1, <1>2, Zenon

(* One part for each path, in git's order.                                     *)
IsInOrder(f, L) == f = [i \in DOMAIN Order |-> L[Order[i]]]
PartsInOrder(f, L, S) ==
    f \in Seq(S) /\ Len(f) = Len(Order) /\ \A k \in 1..Len(Order) : f[k] = L[Order[k]]

LEMMA InListOrder ==
    ASSUME NEW S, NEW L \in [Paths -> S], NEW f, IsInOrder(f, L)
    PROVE  PartsInOrder(f, L, S)
<1> DEFINE n == Len(Order)
<1>1. n \in Nat /\ f = [i \in 1..n |-> L[Order[i]]]
  BY OrderIs, Zenon DEF IsInOrder
<1>2. \A i \in 1..n : Order[i] \in Paths
  BY OrderIs, Zenon
<1> HIDE DEF n
<1>3. \A i \in 1..n : L[Order[i]] \in S
  BY <1>2, Zenon
<1>4. f \in Seq(S) /\ Len(f) = n /\ \A k \in 1..n : f[k] = L[Order[k]]
  BY <1>1, <1>3
<1> QED BY <1>4, Zenon DEF n, PartsInOrder

(* git's status, read: the files that changed, each under its path.            *)
LEMMA StatusRead ==
    ASSUME GitTypes
    PROVE  LET lists == ParsePorcelain(FlattenSeq(StatusEntries)) IN
           /\ lists.staged = {StagedFile(p) : p \in StagedPaths}
           /\ lists.unstaged = {UnstagedFile(p) : p \in UnstagedPaths}
           /\ {x.path : x \in lists.untracked} = UntrackedPaths
<1> DEFINE S == Seq(Seq(Text))
<1> DEFINE T == [p \in Paths |-> TrackedEntries(p)]
<1> DEFINE U == [p \in Paths |-> UntrackedEntries(p)]
<1> DEFINE a == [i \in DOMAIN Order |-> T[Order[i]]]
<1> DEFINE b == [i \in DOMAIN Order |-> U[Order[i]]]
<1> DEFINE n == Len(Order)
<1>1. T \in [Paths -> S] /\ U \in [Paths -> S]
  <2>1. \A p \in Paths : TrackedEntries(p) \in S /\ UntrackedEntries(p) \in S
    BY TrackedAre, UntrackedAre, Zenon
  <2> HIDE DEF S
  <2> QED BY <2>1, Zenon
<1>2. /\ \A i \in DOMAIN Order : Order[i] \in Paths
      /\ \A i \in 1..n : Order[i] \in Paths
      /\ \A p \in Paths : \E i \in 1..n : Order[i] = p
  BY OrderIs, Zenon
<1>3. StatusEntries = a \o b
  <2>1. a = [i \in DOMAIN Order |-> TrackedEntries(Order[i])]
    BY <1>2, Zenon
  <2>2. b = [i \in DOMAIN Order |-> UntrackedEntries(Order[i])]
    BY <1>2, Zenon
  <2> HIDE DEF a, b
  <2> QED BY <2>1, <2>2, Zenon DEF StatusEntries
<1> HIDE DEF S, T, U
<1>14. IsInOrder(a, T) /\ IsInOrder(b, U)
  BY Zenon DEF IsInOrder
<1> HIDE DEF a, b, n
<1>4. /\ a \in Seq(S) /\ b \in Seq(S) /\ Len(a) = n /\ Len(b) = n
      /\ \A k \in 1..n : a[k] = T[Order[k]] /\ b[k] = U[Order[k]]
  <2>1. /\ a \in Seq(S) /\ Len(a) = Len(Order)
        /\ \A k \in 1..Len(Order) : a[k] = T[Order[k]]
    <3>1. PartsInOrder(a, T, S)
      BY <1>1, <1>14, InListOrder
    <3> QED BY <3>1, Zenon DEF PartsInOrder
  <2>2. /\ b \in Seq(S) /\ Len(b) = Len(Order)
        /\ \A k \in 1..Len(Order) : b[k] = U[Order[k]]
    <3>1. PartsInOrder(b, U, S)
      BY <1>1, <1>14, InListOrder
    <3> QED BY <3>1, Zenon DEF PartsInOrder
  <2> QED BY <2>1, <2>2, Zenon DEF n
<1>5. \A k \in 1..n : a[k] = TrackedEntries(Order[k]) /\ b[k] = UntrackedEntries(Order[k])
  <2>1. \A p \in Paths : T[p] = TrackedEntries(p) /\ U[p] = UntrackedEntries(p)
    BY Zenon DEF T, U
  <2>2. \A k \in 1..n : Order[k] \in Paths
    BY <1>2, Zenon DEF n
  <2> QED BY <1>4, <2>1, <2>2, Zenon
<1> DEFINE f == a \o b
<1>6. /\ f \in Seq(S)
      /\ \A k \in 1..Len(f) : \/ k \in 1..n /\ f[k] = a[k]
                              \/ \E j \in 1..n : f[k] = b[j]
      /\ \A j \in 1..n : j \in 1..Len(f) /\ f[j] = a[j]
      /\ \A j \in 1..n : \E k \in 1..Len(f) : f[k] = b[j]
  <2>1. /\ f \in Seq(S)
        /\ \A k \in 1..Len(f) : \/ k \in 1..Len(a) /\ f[k] = a[k]
                                \/ \E j \in 1..Len(b) : f[k] = b[j]
        /\ \A j \in 1..Len(a) : j \in 1..Len(f) /\ f[j] = a[j]
        /\ \A j \in 1..Len(b) : \E k \in 1..Len(f) : f[k] = b[j]
    <3>1. Adjoins(a \o b, a, b, S)
      BY <1>4, BothParts, Zenon
    <3> QED BY <3>1, Zenon DEF Adjoins
  <2> HIDE DEF f
  <2>2. Len(a) = n /\ Len(b) = n
    BY <1>4, Zenon
  <2> QED BY <2>1, <2>2
<1> HIDE DEF f
<1>15. \A k \in 1..n : Order[k] \in Paths
  BY <1>2, Zenon DEF n
<1>7. ASSUME NEW k \in 1..Len(f)
      PROVE  \E p \in Paths : f[k] = TrackedEntries(p) \/ f[k] = UntrackedEntries(p)
  <2>1. CASE k \in 1..n /\ f[k] = a[k]
    BY <1>5, <1>15, <2>1, Zenon
  <2>2. CASE \E j \in 1..n : f[k] = b[j]
    BY <1>5, <1>15, <2>2, Zenon
  <2> QED BY <1>6, <2>1, <2>2, Zenon
<1>8. ASSUME NEW p \in Paths
      PROVE  /\ \E k \in 1..Len(f) : f[k] = TrackedEntries(p)
             /\ \E k \in 1..Len(f) : f[k] = UntrackedEntries(p)
  <2>1. PICK i \in 1..n : Order[i] = p
    BY <1>2, Zenon DEF n
  <2>2. a[i] = TrackedEntries(p) /\ b[i] = UntrackedEntries(p)
    BY <1>5, <2>1, Zenon
  <2> QED BY <1>6, <2>1, <2>2, Zenon
<1>9. \A k \in 1..Len(f) : GoodPart(f[k])
  BY <1>7, TrackedAre, UntrackedAre, Zenon
<1> DEFINE lists == ParsePorcelain(FlattenSeq(f))
<1>10. /\ lists.staged = {File(PathOf(f[k][1]), OldOf(f[k]), f[k][1][2]) :
             k \in {l \in 1..Len(f) : ChangedPart(f[l]) /\ f[l][1][2] # "."}}
       /\ lists.unstaged = {File(PathOf(f[k][1]), <<>>, f[k][1][3]) :
             k \in {l \in 1..Len(f) : ChangedPart(f[l]) /\ f[l][1][3] # "."}}
       /\ lists.untracked = {File(Rest(f[k][1], 1), <<>>, "?") :
             k \in {l \in 1..Len(f) : Len(f[l]) # 0 /\ f[l][1][1] = "?"}}
  BY <1>6, <1>9, Parsed, Zenon DEF S
<1> HIDE DEF lists
<1>11. lists.staged = {StagedFile(p) : p \in StagedPaths}
  <2>1. ASSUME NEW x \in lists.staged PROVE \E p \in StagedPaths : x = StagedFile(p)
    <3>1. PICK k \in 1..Len(f) : /\ ChangedPart(f[k]) /\ f[k][1][2] # "."
                                 /\ x = File(PathOf(f[k][1]), OldOf(f[k]), f[k][1][2])
      BY <1>10, Zenon
    <3> QED BY <1>7, <3>1, TrackedAre, UntrackedAre, Zenon
  <2>2. ASSUME NEW p \in StagedPaths PROVE StagedFile(p) \in lists.staged
    <3>1. p \in Paths
      BY Zenon DEF StagedPaths
    <3>2. PICK k \in 1..Len(f) : f[k] = TrackedEntries(p)
      BY <1>8, <3>1, Zenon
    <3>3. /\ ChangedPart(f[k]) /\ f[k][1][2] # "."
          /\ StagedFile(p) = File(PathOf(f[k][1]), OldOf(f[k]), f[k][1][2])
      BY <3>1, <3>2, TrackedAre, Zenon
    <3> QED BY <1>10, <3>3, Zenon
  <2> QED BY <2>1, <2>2, Zenon
<1>12. lists.unstaged = {UnstagedFile(p) : p \in UnstagedPaths}
  <2>1. ASSUME NEW x \in lists.unstaged PROVE \E p \in UnstagedPaths : x = UnstagedFile(p)
    <3>1. PICK k \in 1..Len(f) : /\ ChangedPart(f[k]) /\ f[k][1][3] # "."
                                 /\ x = File(PathOf(f[k][1]), <<>>, f[k][1][3])
      BY <1>10, Zenon
    <3> QED BY <1>7, <3>1, TrackedAre, UntrackedAre, Zenon
  <2>2. ASSUME NEW p \in UnstagedPaths PROVE UnstagedFile(p) \in lists.unstaged
    <3>1. p \in Paths
      BY Zenon DEF UnstagedPaths
    <3>2. PICK k \in 1..Len(f) : f[k] = TrackedEntries(p)
      BY <1>8, <3>1, Zenon
    <3>3. /\ ChangedPart(f[k]) /\ f[k][1][3] # "."
          /\ UnstagedFile(p) = File(PathOf(f[k][1]), <<>>, f[k][1][3])
      BY <3>1, <3>2, TrackedAre, Zenon
    <3> QED BY <1>10, <3>3, Zenon
  <2> QED BY <2>1, <2>2, Zenon
<1>13. {x.path : x \in lists.untracked} = UntrackedPaths
  <2>0. \A p : File(p, <<>>, "?").path = p
    BY DEF File
  <2>1. ASSUME NEW x \in lists.untracked PROVE x.path \in UntrackedPaths
    <3>1. PICK k \in 1..Len(f) : /\ Len(f[k]) # 0 /\ f[k][1][1] = "?"
                                 /\ x = File(Rest(f[k][1], 1), <<>>, "?")
      BY <1>10, Zenon
    <3>2. PICK p \in UntrackedPaths : Rest(f[k][1], 1) = p
      BY <1>7, <3>1, TrackedAre, UntrackedAre, Zenon
    <3> QED BY <2>0, <3>1, <3>2, Zenon
  <2>2. ASSUME NEW p \in UntrackedPaths PROVE \E x \in lists.untracked : x.path = p
    <3>1. p \in Paths
      BY Zenon DEF UntrackedPaths
    <3>2. PICK k \in 1..Len(f) : f[k] = UntrackedEntries(p)
      BY <1>8, <3>1, Zenon
    <3>3. Len(f[k]) # 0 /\ f[k][1][1] = "?" /\ Rest(f[k][1], 1) = p
      BY <3>1, <3>2, UntrackedAre, Zenon
    <3>4. File(Rest(f[k][1], 1), <<>>, "?") \in lists.untracked
      BY <1>10, <3>3, Zenon
    <3> QED BY <2>0, <3>3, <3>4, Zenon
  <2> QED BY <2>1, <2>2, Zenon
<1> QED BY <1>3, <1>11, <1>12, <1>13, Zenon DEF lists, f

(* The lines of diff --numstat.                                                *)
LinesOf == [path : Seq(Text), counts : Nat \X Nat]
NoArrow(line) == line \in Seq(Text) /\ \A i \in 1..Len(line) : line[i] # "=>"

LEMMA PlainPath ==
    ASSUME NEW line, NoArrow(line)
    PROVE  PathsOf(line) = {line}
<1>1. {i \in DOMAIN line : line[i] = "=>"} = {}
  <2>1. DOMAIN line = 1..Len(line)
    BY DEF NoArrow
  <2> QED BY <2>1, Zenon DEF NoArrow
<1> QED BY <1>1, Zenon DEF PathsOf

Follows(c, a, b, S) ==
    /\ c \in Seq(S) /\ Len(c) = Len(a) + Len(b)
    /\ \A i \in 1..Len(a) : c[i] = a[i]
    /\ \A i \in 1..Len(b) : c[Len(a) + i] = b[i]

LEMMA ConcatIs ==
    ASSUME NEW S, NEW a \in Seq(S), NEW b \in Seq(S)
    PROVE  Follows(a \o b, a, b, S)
  BY DEF Follows

(* Around the first arrow.                                                     *)
LEMMA BothPaths ==
    ASSUME NEW a, NoArrow(a), NEW b \in Seq(Text)
    PROVE  /\ a \o <<"=>">> \o b \in Seq(Text)
           /\ PathsOf(a \o <<"=>">> \o b) = {a, b}
<1> DEFINE t == <<"=>">>
<1> DEFINE u == a \o t
<1> DEFINE line == u \o b
<1> DEFINE m == Len(a)
<1>1. a \in Seq(Text) /\ m \in Nat /\ \A i \in 1..m : a[i] # "=>"
  BY DEF NoArrow
<1>2. t \in Seq(Text) /\ Len(t) = 1 /\ t[1] = "=>"
  BY DEF Text
<1> HIDE DEF t
<1>3. u \in Seq(Text) /\ Len(u) = m + 1 /\ u[m + 1] = "=>" /\ \A i \in 1..m : u[i] = a[i]
  <2>1. Follows(u, a, t, Text)
    BY <1>1, <1>2, ConcatIs, Zenon
  <2> HIDE DEF u
  <2>2. /\ u \in Seq(Text) /\ Len(u) = m + 1
        /\ \A i \in 1..m : u[i] = a[i]
        /\ \A i \in 1..1 : u[m + i] = t[i]
    BY <1>2, <2>1, Zenon DEF Follows
  <2>3. 1 \in 1..1
    OBVIOUS
  <2> QED BY <1>2, <2>2, <2>3, Zenon
<1> HIDE DEF u
<1>4. /\ Rest(u \o b, Len(u)) = b
      /\ u \o b \in Seq(Text) /\ Len(u \o b) = Len(u) + Len(b)
      /\ \A i \in 1..Len(u) : (u \o b)[i] = u[i]
  BY <1>3, RestIs, Zenon
<1>5. /\ Rest(line, Len(u)) = b
      /\ line \in Seq(Text) /\ Len(line) = Len(u) + Len(b) /\ Len(b) \in Nat
      /\ \A i \in 1..Len(u) : line[i] = u[i]
  BY <1>4
<1> HIDE DEF line, m
<1>6. 1..m \subseteq 1..Len(u) /\ m + 1 \in 1..Len(u) /\ Len(u) = m + 1
  BY <1>1, <1>3
<1>7. line[m + 1] = "=>" /\ \A i \in 1..m : line[i] = a[i]
  BY <1>3, <1>5, <1>6, Zenon
<1>8. DOMAIN line = 1..Len(line) /\ m + 1 \in DOMAIN line
  BY <1>1, <1>5, <1>6
<1> DEFINE arrows == {i \in DOMAIN line : line[i] = "=>"}
<1>9. m + 1 \in arrows
  BY <1>7, <1>8, Zenon
<1>10. \A i \in arrows : m + 1 <= i
  <2> SUFFICES ASSUME NEW i \in arrows PROVE m + 1 <= i
    OBVIOUS
  <2>1. i \in Nat /\ i >= 1
    BY <1>5, <1>6, <1>8, <1>1
  <2>2. i \notin 1..m
    BY <1>1, <1>7, Zenon
  <2> HIDE DEF arrows
  <2> QED BY <1>1, <2>1, <2>2
<1>11. arrows \subseteq Int
  BY <1>8
<1> DEFINE first == CHOOSE i \in arrows : \A j \in arrows : i <= j
<1> HIDE DEF arrows
<1>12. first = m + 1
  <2>1. first \in arrows /\ first <= m + 1
    BY <1>9, <1>10, Zenon
  <2>2. first \in Int /\ m + 1 <= first
    BY <1>10, <1>11, <2>1, Zenon
  <2> HIDE DEF first
  <2> QED BY <1>1, <2>1, <2>2
<1>13. arrows # {}
  BY <1>9, Zenon
<1>14. PathsOf(line) = {SubSeq(line, 1, first - 1), Rest(line, first)}
  BY <1>13, Zenon DEF PathsOf, arrows
<1>15. SubSeq(line, 1, m) = a
  <2> DEFINE s == SubSeq(line, 1, m)
  <2>1. s \in Seq(Text) /\ Len(s) = m /\ \A i \in 1..m : s[i] = line[i]
    BY <1>1, <1>3, <1>5
  <2>2. \A i \in 1..m : s[i] = a[i]
    BY <1>7, <2>1, Zenon
  <2> HIDE DEF s
  <2>3. s = a
    BY <1>1, <2>1, <2>2, SeqEqual DEF m
  <2> QED BY <2>3, Zenon DEF s
<1>16. (m + 1) - 1 = m
  BY <1>1
<1>17. PathsOf(line) = {a, b}
  <2> HIDE DEF first
  <2>1. first - 1 = m
    BY <1>12, <1>16, Zenon
  <2> QED BY <1>5, <1>6, <1>12, <1>14, <1>15, <2>1, Zenon
<1> QED BY <1>5, <1>17, Zenon DEF line, u, t

LEMMA PrintedIs ==
    ASSUME NEW p \in Paths
    PROVE  /\ NoArrow(Printed(p))
           /\ \A q \in Paths : Printed(p) = q <=> p = q /\ p \notin Quoted
<1>1. /\ p \in Seq(Text) /\ Len(p) \in Nat
      /\ \A q \in Paths : q[1] # "quote"
      /\ \A i \in 1..Len(p) : p[i] # "=>"
  BY PathsAre, Zenon
<1>2. CASE p \in Quoted
  <2> DEFINE t == <<"quote">>
  <2>1. t \in Seq(Text) /\ Len(t) = 1 /\ t[1] = "quote"
    BY DEF Text
  <2> HIDE DEF t
  <2> DEFINE c == t \o p
  <2>2. /\ c \in Seq(Text) /\ Len(c) = 1 + Len(p) /\ c[1] = "quote"
        /\ \A i \in 1..Len(p) : c[1 + i] = p[i]
    <3>1. Follows(c, t, p, Text)
      BY <1>1, <2>1, ConcatIs, Zenon
    <3> HIDE DEF c
    <3>2. 1 \in 1..1
      OBVIOUS
    <3>3. c[1] = t[1]
      BY <2>1, <3>1, <3>2, Zenon DEF Follows
    <3> QED BY <2>1, <3>1, <3>3, Zenon DEF Follows
  <2> HIDE DEF c
  <2>3. ASSUME NEW i \in 1..Len(c) PROVE c[i] # "=>"
    <3>1. CASE i = 1
      <4>1. "quote" # "=>"
        OBVIOUS
      <4> QED BY <2>2, <3>1, <4>1, Zenon
    <3>2. CASE i # 1
      <4>1. i - 1 \in 1..Len(p) /\ 1 + (i - 1) = i
        BY <1>1, <2>2, <3>2
      <4>2. c[1 + (i - 1)] = p[i - 1]
        BY <2>2, <4>1, Zenon
      <4> QED BY <1>1, <4>1, <4>2, Zenon
    <3> QED BY <3>1, <3>2
  <2>4. Printed(p) = c
    BY <1>2, Zenon DEF Printed, c, t
  <2>5. \A q \in Paths : c # q
    BY <1>1, <2>2, Zenon
  <2> QED BY <1>2, <2>2, <2>3, <2>4, <2>5, Zenon DEF NoArrow
<1>3. CASE p \notin Quoted
  <2>1. Printed(p) = p
    BY <1>3, Zenon DEF Printed
  <2> QED BY <1>1, <1>3, <2>1, Zenon DEF NoArrow
<1> QED BY <1>2, <1>3

(* What is put together of parts without an arrow, and the words it holds.     *)
Holds(line, word) == \E i \in 1..Len(line) : line[i] = word

LEMMA Together ==
    ASSUME NEW a, NoArrow(a), NEW b, NoArrow(b)
    PROVE  /\ NoArrow(a \o b)
           /\ \A word : Holds(a, word) \/ Holds(b, word) => Holds(a \o b, word)
<1>1. a \in Seq(Text) /\ b \in Seq(Text)
  BY DEF NoArrow
<1> DEFINE c == a \o b
<1>2. Adjoins(c, a, b, Text)
  BY <1>1, BothParts, Zenon
<1>3. /\ c \in Seq(Text)
      /\ \A k \in 1..Len(c) : \/ k \in 1..Len(a) /\ c[k] = a[k]
                              \/ \E j \in 1..Len(b) : c[k] = b[j]
      /\ \A j \in 1..Len(a) : j \in 1..Len(c) /\ c[j] = a[j]
      /\ \A j \in 1..Len(b) : \E k \in 1..Len(c) : c[k] = b[j]
  BY <1>2, Zenon DEF Adjoins
<1> HIDE DEF c
<1>4. NoArrow(c)
  <2>1. ASSUME NEW k \in 1..Len(c) PROVE c[k] # "=>"
    BY <1>3, Zenon DEF NoArrow
  <2> QED BY <1>3, <2>1, Zenon DEF NoArrow
<1>5. \A word : Holds(a, word) \/ Holds(b, word) => Holds(c, word)
  BY <1>3, Zenon DEF Holds
<1> QED BY <1>4, <1>5, Zenon DEF c

LEMMA PieceIs ==
    ASSUME NEW line, NoArrow(line), NEW i \in Nat, NEW j \in Nat,
           1 <= i, i <= j + 1, j <= Len(line)
    PROVE  NoArrow(SubSeq(line, i, j))
<1>1. line \in Seq(Text) /\ Len(line) \in Nat
  BY DEF NoArrow
<1> DEFINE s == SubSeq(line, i, j)
<1>2. s \in Seq(Text) /\ Len(s) = j - i + 1 /\ \A k \in 1..Len(s) : s[k] = line[i + k - 1]
  BY <1>1
<1> HIDE DEF s
<1>3. ASSUME NEW k \in 1..Len(s) PROVE s[k] # "=>"
  <2>1. i + k - 1 \in 1..Len(line)
    BY <1>1, <1>2
  <2> QED BY <1>2, <2>1, Zenon DEF NoArrow
<1> QED BY <1>2, <1>3, Zenon DEF NoArrow, s

LEMMA LargestIs ==
    ASSUME NEW n \in Nat, NEW B, B \subseteq 1..n
    PROVE  Max({0} \cup B) \in {0} \cup B
<1> DEFINE S == {0} \cup B
<1> DEFINE U == {k \in Nat : \A x \in S : x <= k}
<1>1. S \subseteq Nat /\ n \in U
  OBVIOUS
<1>2. PICK k \in U : \A j \in U : ~(j < k)
  <2>1. U \in SUBSET Nat /\ U # {}
    BY <1>1
  <2> HIDE DEF U
  <2> QED BY <2>1, HasLeast
<1>3. k \in S
  <2> SUFFICES ASSUME k \notin S PROVE FALSE
    OBVIOUS
  <2>1. k \in Nat /\ k # 0 /\ \A x \in S : x <= k
    OBVIOUS
  <2> HIDE DEF S
  <2>2. k - 1 \in Nat /\ \A x \in S : x <= k - 1
    BY <1>1, <2>1
  <2>3. k - 1 \in U /\ k - 1 < k
    BY <2>1, <2>2
  <2> QED BY <1>2, <2>3
<1>4. \A x \in S : k >= x
  BY <1>1
<1> HIDE DEF S
<1>5. Max(S) \in S
  BY <1>3, <1>4, Zenon DEF Max
<1> QED BY <1>5 DEF S

LEMMA SharedIs ==
    ASSUME NEW p \in Paths, NEW q \in Paths
    PROVE  /\ SharedStart(p, q) \in Nat /\ SharedStart(p, q) <= Len(p) /\ SharedStart(p, q) <= Len(q)
           /\ SharedEnd(p, q) \in Nat /\ SharedEnd(p, q) <= Len(p) /\ SharedEnd(p, q) <= Len(q)
<1>1. /\ Len(p) \in Nat /\ Len(q) \in Nat
      /\ DOMAIN p = 1..Len(p) /\ DOMAIN q = 1..Len(q)
  BY PathsAre
<1>2. Beginnings(p, q) \subseteq 1..Len(p) /\ Beginnings(p, q) \subseteq 1..Len(q)
  BY <1>1, Zenon DEF Beginnings
<1>3. Endings(p, q) \subseteq 1..Len(p) /\ Endings(p, q) \subseteq 1..Len(q)
  BY <1>1, Zenon DEF Endings
<1>4. SharedStart(p, q) \in {0} \cup Beginnings(p, q)
  BY <1>1, <1>2, LargestIs DEF SharedStart
<1>5. SharedEnd(p, q) \in {0} \cup Endings(p, q)
  BY <1>1, <1>3, LargestIs DEF SharedEnd
<1> HIDE DEF SharedStart, SharedEnd
<1> QED BY <1>1, <1>2, <1>3, <1>4, <1>5

(* Neither half of an abbreviated rename is a path: each holds a brace.        *)
LEMMA AbbreviatedIs ==
    ASSUME NEW p \in Paths, NEW q \in Paths, Abbreviated(p, q)
    PROVE  /\ RenameLine(p, q) \in Seq(Text)
           /\ \A o \in Paths : o \notin PathsOf(RenameLine(p, q))
<1>1. /\ NoArrow(p) /\ NoArrow(q) /\ Len(p) \in Nat /\ Len(q) \in Nat
      /\ \A o \in Paths : ~Holds(o, "lbrace") /\ ~Holds(o, "rbrace")
  BY PathsAre, Zenon DEF NoArrow, Holds
<1> DEFINE b == SharedStart(p, q)
<1> DEFINE e == SharedEnd(p, q)
<1>2. /\ b \in Nat /\ b <= Len(p) /\ b <= Len(q)
      /\ e \in Nat /\ e <= Len(p) /\ e <= Len(q)
  BY SharedIs, Zenon
<1>3. NoArrow(<<"lbrace">>) /\ Holds(<<"lbrace">>, "lbrace") /\ NoArrow(<<"rbrace">>) /\ Holds(<<"rbrace">>, "rbrace")
  <2>1. "lbrace" \in Text /\ "rbrace" \in Text /\ "lbrace" # "=>" /\ "rbrace" # "=>"
    BY DEF Text
  <2> QED BY <2>1 DEF NoArrow, Holds
<1>4. NoArrow(SubSeq(p, 1, b))
  <2>1. 1 \in Nat /\ 1 <= 1 /\ 1 <= b + 1
    BY <1>2
  <2> HIDE DEF b
  <2> QED BY <1>1, <1>2, <2>1, PieceIs, Zenon
<1>5. NoArrow(Ending(p, e))
  <2>1. Len(p) - e + 1 \in Nat /\ 1 <= Len(p) - e + 1 /\ Len(p) - e + 1 <= Len(p) + 1 /\ Len(p) <= Len(p)
    BY <1>1, <1>2
  <2> HIDE DEF e
  <2> QED BY <1>1, <1>2, <2>1, PieceIs, Zenon DEF Ending
<1>6. ASSUME NEW path \in {p, q} PROVE NoArrow(Middle(path, p, q))
  <2>1. NoArrow(path) /\ Len(path) \in Nat /\ e <= Len(path)
    BY <1>1, <1>2, Zenon
  <2>2. CASE b + e >= Len(path)
    <3>1. NoArrow(<<>>)
      BY DEF NoArrow
    <3> QED BY <2>2, <3>1, Zenon DEF Middle
  <2>3. CASE ~(b + e >= Len(path))
    <3>1. /\ b + 1 \in Nat /\ Len(path) - e \in Nat /\ 1 <= b + 1
          /\ b + 1 <= (Len(path) - e) + 1 /\ Len(path) - e <= Len(path)
      BY <1>2, <2>1, <2>3
    <3> HIDE DEF b, e
    <3>2. NoArrow(SubSeq(path, b + 1, Len(path) - e))
      BY <2>1, <3>1, PieceIs, Zenon
    <3> QED BY <2>3, <3>2, Zenon DEF Middle, b, e
  <2> QED BY <2>2, <2>3
<1> DEFINE l == (SubSeq(p, 1, b) \o <<"lbrace">>) \o Middle(p, p, q)
<1> DEFINE r == Middle(q, p, q) \o <<"rbrace">> \o Ending(p, e)
<1>7. NoArrow(l) /\ Holds(l, "lbrace")
  <2>1. NoArrow(SubSeq(p, 1, b) \o <<"lbrace">>) /\ Holds(SubSeq(p, 1, b) \o <<"lbrace">>, "lbrace")
    BY <1>3, <1>4, Together, Zenon
  <2>2. NoArrow(Middle(p, p, q))
    BY <1>6, Zenon
  <2> QED BY <2>1, <2>2, Together, Zenon
<1>8. NoArrow(r) /\ Holds(r, "rbrace")
  <2>1. NoArrow(Middle(q, p, q))
    BY <1>6, Zenon
  <2>2. NoArrow(Middle(q, p, q) \o <<"rbrace">>) /\ Holds(Middle(q, p, q) \o <<"rbrace">>, "rbrace")
    BY <1>3, <2>1, Together, Zenon
  <2> QED BY <1>5, <2>2, Together, Zenon
<1>9. RenameLine(p, q) = l \o <<"=>">> \o r
  BY Zenon DEF RenameLine
<1> HIDE DEF l, r
<1>10. r \in Seq(Text)
  BY <1>8, Zenon DEF NoArrow
<1>11. l \o <<"=>">> \o r \in Seq(Text) /\ PathsOf(l \o <<"=>">> \o r) = {l, r}
  BY <1>7, <1>10, BothPaths, Zenon
<1>12. \A o \in Paths : o \notin {l, r}
  <2> SUFFICES ASSUME NEW o \in Paths, o \in {l, r} PROVE FALSE
    OBVIOUS
  <2>1. ~Holds(o, "lbrace") /\ ~Holds(o, "rbrace")
    BY <1>1, Zenon
  <2>2. o = l \/ o = r
    OBVIOUS
  <2> QED BY <1>7, <1>8, <2>1, <2>2, Zenon
<1> QED BY <1>9, <1>11, <1>12, Zenon

(* Each file finds the counts of its line, but for the lost ones.             *)
LinesFit(L, P, F, X) ==
    /\ L \in [Paths -> Seq(LinesOf)] /\ \A p \in Paths : Len(L[p]) \in {0, 1}
    /\ P \in SUBSET Paths /\ \A p \in P : F[p].path = p
    /\ \A p \in P : p \notin X => Len(L[p]) = 1 /\ p \in PathsOf(L[p][1].path)
    /\ \A p \in P, q \in Paths :
          Len(L[q]) = 1 /\ p \in PathsOf(L[q][1].path) => q = p /\ p \notin X

FindsCounts(L, P, F, X) ==
    ApplyNumstat({F[p] : p \in P}, FlattenSeq([i \in DOMAIN Order |-> L[Order[i]]]))
    = {IF p \in X THEN F[p] ELSE [F[p] EXCEPT !.counts = L[p][1].counts] : p \in P}

LEMMA CountsFound ==
    ASSUME NEW L, NEW P, NEW F, NEW X, LinesFit(L, P, F, X)
    PROVE  FindsCounts(L, P, F, X)
<1>0. /\ L \in [Paths -> Seq(LinesOf)] /\ \A p \in Paths : Len(L[p]) \in {0, 1}
      /\ P \in SUBSET Paths /\ \A p \in P : F[p].path = p
      /\ \A p \in P : p \notin X => Len(L[p]) = 1 /\ p \in PathsOf(L[p][1].path)
      /\ \A p \in P, q \in Paths :
            Len(L[q]) = 1 /\ p \in PathsOf(L[q][1].path) => q = p /\ p \notin X
  BY Zenon DEF LinesFit
<1> DEFINE n == Len(Order)
<1> DEFINE f == [i \in DOMAIN Order |-> L[Order[i]]]
<1> DEFINE lines == FlattenSeq(f)
<1>1. f \in Seq(Seq(LinesOf)) /\ Len(f) = n /\ \A k \in 1..n : f[k] = L[Order[k]]
  <2>1. IsInOrder(f, L)
    BY Zenon DEF IsInOrder
  <2> HIDE DEF f
  <2>2. PartsInOrder(f, L, Seq(LinesOf))
    BY <1>0, <2>1, InListOrder
  <2> QED BY <2>2, Zenon DEF PartsInOrder, n
<1> HIDE DEF f
<1>2. PICK at : Lays(at, f, lines, LinesOf)
  BY <1>1, Laid, Zenon
<1> HIDE DEF lines
<1>3. n \in Nat /\ \A k \in 1..n : Order[k] \in Paths
  BY OrderIs, Zenon
<1>4. /\ \A k \in 1..n : at[k] = at[k - 1] + Len(f[k])
      /\ \A k \in 1..n : \A j \in 1..Len(f[k]) :
            at[k - 1] + j \in 1..Len(lines) /\ lines[at[k - 1] + j] = f[k][j]
      /\ \A i \in 1..Len(lines) : \E k \in 1..n : at[k - 1] < i /\ i <= at[k]
      /\ \A k \in 0..n : at[k] \in Nat
      /\ lines \in Seq(LinesOf)
  BY <1>1, <1>2, Zenon DEF Lays
<1>5. DOMAIN lines = 1..Len(lines) /\ Len(lines) \in Nat
  BY <1>4
<1> HIDE DEF n
<1>6. ASSUME NEW i \in DOMAIN lines
      PROVE  \E k \in 1..n : /\ i = at[k - 1] + 1 /\ Len(L[Order[k]]) = 1
                             /\ lines[i] = L[Order[k]][1]
  <2>1. PICK k \in 1..n : at[k - 1] < i /\ i <= at[k]
    BY <1>4, <1>5, Zenon
  <2> DEFINE a == at[k - 1]
  <2> DEFINE b == Len(f[k])
  <2>2. k - 1 \in 0..n
    BY <1>3
  <2>3. a \in Nat /\ a < i /\ i <= a + b
    BY <1>4, <2>1, <2>2, Zenon
  <2>4. b \in {0, 1}
    BY <1>0, <1>1, <1>3, Zenon
  <2>5. i \in Nat
    BY <1>5
  <2> HIDE DEF a, b
  <2>6. i = a + 1 /\ b = 1 /\ 1 \in 1..b
    BY <2>3, <2>4, <2>5
  <2>7. lines[a + 1] = f[k][1]
    BY <1>4, <2>6, Zenon DEF a, b
  <2> QED BY <1>1, <2>6, <2>7, Zenon DEF a, b
<1>7. ASSUME NEW k \in 1..n, Len(L[Order[k]]) = 1
      PROVE  at[k - 1] + 1 \in DOMAIN lines /\ lines[at[k - 1] + 1] = L[Order[k]][1]
  <2>1. f[k] = L[Order[k]]
    BY <1>1, Zenon
  <2>2. 1 \in 1..Len(f[k])
    <3>1. Len(f[k]) = 1
      BY <1>7, <2>1, Zenon
    <3> QED BY <3>1
  <2>3. at[k - 1] + 1 \in 1..Len(lines) /\ lines[at[k - 1] + 1] = f[k][1]
    BY <1>4, <2>2, Zenon
  <2>4. f[k][1] = L[Order[k]][1]
    BY <2>1, Zenon
  <2> QED BY <1>5, <2>3, <2>4, Zenon
<1> DEFINE Of(x) == {i \in DOMAIN lines : x.path \in PathsOf(lines[i].path)}
<1> DEFINE LastOf(x) == CHOOSE i \in Of(x) : \A j \in Of(x) : j <= i
<1> DEFINE Now(x) == IF Of(x) = {} THEN x ELSE [x EXCEPT !.counts = lines[LastOf(x)].counts]
<1>8. ApplyNumstat({F[p] : p \in P}, lines) = {Now(x) : x \in {F[p] : p \in P}}
  BY Zenon DEF ApplyNumstat
<1>9. ASSUME NEW p \in P, p \in X PROVE Now(F[p]) = F[p]
  <2>1. F[p].path = p
    BY <1>0, Zenon
  <2>2. ASSUME NEW i \in Of(F[p]) PROVE FALSE
    <3>1. i \in DOMAIN lines /\ p \in PathsOf(lines[i].path)
      BY <2>1, Zenon
    <3>2. PICK k \in 1..n : Len(L[Order[k]]) = 1 /\ lines[i] = L[Order[k]][1]
      BY <1>6, <3>1, Zenon
    <3>3. Order[k] \in Paths /\ p \in PathsOf(L[Order[k]][1].path)
      BY <1>3, <3>1, <3>2, Zenon
    <3> QED BY <1>0, <1>9, <3>2, <3>3, Zenon
  <2>3. Of(F[p]) = {}
    BY <2>2, Zenon
  <2> QED BY <2>3, Zenon
<1>10. ASSUME NEW p \in P, p \notin X
       PROVE  Now(F[p]) = [F[p] EXCEPT !.counts = L[p][1].counts]
  <2>1. F[p].path = p /\ Len(L[p]) = 1 /\ p \in PathsOf(L[p][1].path) /\ p \in Paths
    BY <1>0, <1>10, Zenon
  <2>2. PICK k \in 1..n : Order[k] = p
    BY <2>1, OrderIs, Zenon DEF n
  <2> DEFINE i == at[k - 1] + 1
  <2>3. i \in DOMAIN lines /\ lines[i] = L[p][1]
    BY <1>7, <2>1, <2>2, Zenon
  <2> HIDE DEF i
  <2>4. i \in Of(F[p])
    BY <2>1, <2>3, Zenon
  <2>5. ASSUME NEW j \in Of(F[p]) PROVE j = i
    <3>1. j \in DOMAIN lines /\ p \in PathsOf(lines[j].path)
      BY <2>1, Zenon
    <3>2. PICK l \in 1..n : /\ j = at[l - 1] + 1
                            /\ Len(L[Order[l]]) = 1 /\ lines[j] = L[Order[l]][1]
      BY <1>6, <3>1, Zenon
    <3>3. Order[l] \in Paths /\ p \in PathsOf(L[Order[l]][1].path)
      BY <1>3, <3>1, <3>2, Zenon
    <3>4. Order[l] = p
      BY <1>0, <3>2, <3>3, Zenon
    <3>5. l = k
      BY <2>2, <3>4, OrderIs, Zenon DEF n
    <3> QED BY <3>2, <3>5, Zenon DEF i
  <2>6. Of(F[p]) = {i}
    BY <2>4, <2>5, Zenon
  <2>7. i <= i
    BY <1>5, <2>3
  <2> HIDE DEF Of
  <2>8. LastOf(F[p]) = i
    <3>1. \E x \in Of(F[p]) : \A j \in Of(F[p]) : j <= x
      BY <2>6, <2>7, Zenon
    <3>2. LastOf(F[p]) \in Of(F[p])
      BY <3>1, Zenon
    <3> HIDE DEF LastOf
    <3> QED BY <2>6, <3>2, Zenon
  <2> HIDE DEF LastOf
  <2> QED BY <2>3, <2>4, <2>8, Zenon
<1> HIDE DEF Now
<1>11. {Now(x) : x \in {F[p] : p \in P}}
       = {IF p \in X THEN F[p] ELSE [F[p] EXCEPT !.counts = L[p][1].counts] : p \in P}
  <2>1. ASSUME NEW p \in P
        PROVE  Now(F[p]) = IF p \in X THEN F[p] ELSE [F[p] EXCEPT !.counts = L[p][1].counts]
    BY <1>9, <1>10, Zenon
  <2> DEFINE A == {Now(x) : x \in {F[p] : p \in P}}
  <2> DEFINE E(p) == IF p \in X THEN F[p] ELSE [F[p] EXCEPT !.counts = L[p][1].counts]
  <2>2. \A p \in P : Now(F[p]) = E(p)
    BY <2>1, Zenon
  <2> HIDE DEF E
  <2>3. A = {E(p) : p \in P}
    <3>1. ASSUME NEW y \in A PROVE y \in {E(p) : p \in P}
      <4>1. PICK x \in {F[p] : p \in P} : y = Now(x)
        BY Zenon
      <4>2. PICK p \in P : x = F[p]
        BY Zenon
      <4> QED BY <2>2, <4>1, <4>2, Zenon
    <3>2. ASSUME NEW p \in P PROVE E(p) \in A
      <4>1. E(p) = Now(F[p]) /\ F[p] \in {F[q] : q \in P}
        BY <2>2, Zenon
      <4> QED BY <4>1, Zenon
    <3> DEFINE B == {E(p) : p \in P}
    <3>3. \A y \in B : y \in A
      BY <3>2, Zenon
    <3>4. \A y \in A : y \in B
      BY <3>1, Zenon
    <3> HIDE DEF A, B
    <3>5. A = B
      BY <3>3, <3>4
    <3> QED BY <3>5, Zenon DEF B
  <2> QED BY <2>3, Zenon DEF E
<1> QED BY <1>8, <1>11, Zenon DEF FindsCounts, lines, f

IsLine(part, path, counts) ==
    /\ part \in Seq(LinesOf) /\ Len(part) = 1
    /\ part[1].path = path /\ part[1].counts = counts

LEMMA LineIs ==
    ASSUME NEW path \in Seq(Text), NEW a \in Nat, NEW b \in Nat
    PROVE  IsLine(<<[path |-> path, counts |-> <<a, b>>]>>, path, <<a, b>>)
<1> DEFINE line == [path |-> path, counts |-> <<a, b>>]
<1>1. line \in LinesOf /\ line.path = path /\ line.counts = <<a, b>>
  BY DEF LinesOf
<1> HIDE DEF line
<1>2. <<line>> \in Seq(LinesOf) /\ Len(<<line>>) = 1 /\ <<line>>[1] = line
  BY <1>1, OneOrTwo, Zenon
<1> QED BY <1>1, <1>2, Zenon DEF IsLine, line

LEMMA NoLine ==
    ASSUME NEW part, part = <<>>
    PROVE  part \in Seq(LinesOf) /\ Len(part) = 0
  OBVIOUS

(* A rename of which git prints what both paths share only once.               *)
Shortened(p) == Renamed(p) # {} /\ Abbreviated(Source(p), p)

LEMMA StagedLinesAre ==
    ASSUME GitTypes, NEW p \in Paths
    PROVE  LET part == StagedLines(p) IN
           /\ part \in Seq(LinesOf) /\ Len(part) \in {0, 1}
           /\ Len(part) = 1 <=> p \in StagedPaths
           /\ p \in StagedPaths =>
                 /\ part[1].counts = StagedCounts(p)
                 /\ Shortened(p) => \A o \in Paths : o \notin PathsOf(part[1].path)
                 /\ ~Shortened(p) => \A o \in Paths :
                       o \in PathsOf(part[1].path)
                       <=> o = Printed(p) \/ (Renamed(p) # {} /\ o = Printed(Source(p)))
<1> DEFINE part == StagedLines(p)
<1>1. p \notin unmerged /\ 0 # 1
  BY DEF GitTypes
<1>2. head[p] \in Nat /\ index[p] \in Nat /\ \A o \in Paths : head[o] \in Nat
  BY DEF GitTypes
<1>3. Renamed(p) # {} => Source(p) \in Paths
  BY RenamesAre, Zenon
<1>4. CASE p \notin StagedPaths
  <2>1. part = <<>>
    BY <1>4, Zenon DEF StagedLines, StagedPaths
  <2>2. part \in Seq(LinesOf) /\ Len(part) = 0
    BY <2>1, NoLine, Zenon
  <2> QED BY <1>1, <1>4, <2>2, Zenon
<1>5. CASE p \in StagedPaths /\ Renamed(p) = {}
  <2>1. part = <<[path |-> Printed(p), counts |-> <<head[p], index[p]>>]>>
    BY <1>1, <1>5, Zenon DEF StagedLines, StagedPaths
  <2>2. NoArrow(Printed(p)) /\ Printed(p) \in Seq(Text)
    BY PrintedIs, Zenon DEF NoArrow
  <2>3. /\ part \in Seq(LinesOf) /\ Len(part) = 1
        /\ part[1].path = Printed(p) /\ part[1].counts = <<head[p], index[p]>>
    <3>1. IsLine(<<[path |-> Printed(p), counts |-> <<head[p], index[p]>>]>>, Printed(p), <<head[p], index[p]>>)
      BY <1>2, <2>2, LineIs, Zenon
    <3> QED BY <2>1, <3>1, Zenon DEF IsLine
  <2>4. PathsOf(part[1].path) = {Printed(p)}
    BY <2>2, <2>3, PlainPath, Zenon
  <2> QED BY <1>5, <2>3, <2>4, Zenon DEF StagedCounts, Shortened
<1>6. CASE p \in StagedPaths /\ Renamed(p) # {}
  <2> DEFINE o == Source(p)
  <2> DEFINE path == RenameLine(o, p)
  <2>1. part = <<[path |-> path, counts |-> <<head[o], index[p]>>]>>
    BY <1>1, <1>6, Zenon DEF StagedLines, StagedPaths
  <2>2. o \in Paths
    BY <1>3, <1>6, Zenon
  <2>3. NoArrow(Printed(o)) /\ Printed(p) \in Seq(Text)
    BY <2>2, PrintedIs, Zenon DEF NoArrow
  <2>4. /\ path \in Seq(Text)
        /\ Abbreviated(o, p) => \A r \in Paths : r \notin PathsOf(path)
        /\ ~Abbreviated(o, p) => PathsOf(path) = {Printed(o), Printed(p)}
    <3>1. CASE Abbreviated(o, p)
      BY <2>2, <3>1, AbbreviatedIs, Zenon
    <3>2. CASE ~Abbreviated(o, p)
      <4>1. path = Printed(o) \o <<"=>">> \o Printed(p)
        BY <3>2, Zenon DEF RenameLine
      <4> QED BY <2>3, <3>2, <4>1, BothPaths, Zenon
    <3> QED BY <3>1, <3>2, Zenon
  <2> HIDE DEF path, o
  <2>5. /\ part \in Seq(LinesOf) /\ Len(part) = 1
        /\ part[1].path = path /\ part[1].counts = <<head[o], index[p]>>
    <3>1. IsLine(<<[path |-> path, counts |-> <<head[o], index[p]>>]>>, path, <<head[o], index[p]>>)
      BY <1>2, <2>2, <2>4, LineIs, Zenon
    <3> QED BY <2>1, <3>1, Zenon DEF IsLine
  <2>6. Shortened(p) <=> Abbreviated(o, p)
    BY <1>6, Zenon DEF Shortened, o
  <2> QED BY <1>6, <2>4, <2>5, <2>6, Zenon DEF StagedCounts, o
<1> QED BY <1>4, <1>5, <1>6, Zenon

LEMMA UnstagedLinesAre ==
    ASSUME GitTypes, NEW p \in Paths
    PROVE  LET part == UnstagedLines(p) IN
           /\ part \in Seq(LinesOf) /\ Len(part) \in {0, 1}
           /\ Len(part) = 1 <=> p \in UnstagedPaths
           /\ p \in UnstagedPaths =>
                 /\ part[1].counts = <<index[p], work[p]>>
                 /\ \A o : o \in PathsOf(part[1].path) <=> o = Printed(p)
<1> DEFINE part == UnstagedLines(p)
<1>1. p \notin unmerged /\ 0 # 1
  BY DEF GitTypes
<1>2. work[p] \in Nat /\ index[p] \in Nat
  BY DEF GitTypes
<1>3. CASE p \notin UnstagedPaths
  <2>1. part = <<>>
    <3>1. index[p] \in {0, work[p]}
      BY <1>3, Zenon DEF UnstagedPaths
    <3> QED BY <3>1, Zenon DEF UnstagedLines
  <2>2. part \in Seq(LinesOf) /\ Len(part) = 0
    BY <2>1, NoLine, Zenon
  <2> QED BY <1>1, <1>3, <2>2, Zenon
<1>4. CASE p \in UnstagedPaths
  <2>1. part = <<[path |-> Printed(p), counts |-> <<index[p], work[p]>>]>>
    <3>1. index[p] \notin {0, work[p]}
      BY <1>4, Zenon DEF UnstagedPaths
    <3> QED BY <1>1, <3>1, Zenon DEF UnstagedLines
  <2>2. NoArrow(Printed(p)) /\ Printed(p) \in Seq(Text)
    BY PrintedIs, Zenon DEF NoArrow
  <2>3. /\ part \in Seq(LinesOf) /\ Len(part) = 1
        /\ part[1].path = Printed(p) /\ part[1].counts = <<index[p], work[p]>>
    <3>1. IsLine(<<[path |-> Printed(p), counts |-> <<index[p], work[p]>>]>>, Printed(p), <<index[p], work[p]>>)
      BY <1>2, <2>2, LineIs, Zenon
    <3> QED BY <2>1, <3>1, Zenon DEF IsLine
  <2>4. PathsOf(part[1].path) = {Printed(p)}
    BY <2>2, <2>3, PlainPath, Zenon
  <2> QED BY <1>4, <2>3, <2>4, Zenon
<1> QED BY <1>3, <1>4, Zenon

Counts(x, p, old, code) ==
    /\ x.path = p
    /\ \A c : [x EXCEPT !.counts = c]
              = [path |-> p, old |-> old, status |-> code, counts |-> c]
    /\ x = [path |-> p, old |-> old, status |-> code, counts |-> <<0, 0>>]

LEMMA Counted ==
    ASSUME NEW p, NEW old, NEW code
    PROVE  Counts(File(p, old, code), p, old, code)
  BY DEF File, Counts

LEMMA StagedCounted ==
    ASSUME GitTypes
    PROVE  ApplyNumstat({StagedFile(p) : p \in StagedPaths},
                        FlattenSeq([i \in DOMAIN Order |-> StagedLines(Order[i])])) = StagedFiles
<1> DEFINE P == StagedPaths
<1> DEFINE L == [p \in Paths |-> StagedLines(p)]
<1> DEFINE F == [p \in P |-> StagedFile(p)]
<1> DEFINE N == {p \in Paths : Lost(p)}
<1>1. P \in SUBSET Paths /\ \A p \in P : p \in N <=> Lost(p)
  BY Zenon DEF StagedPaths
<1>12. \A p \in Paths : p \in N <=> p \in Quoted \/ Shortened(p)
  BY Zenon DEF Lost, Shortened
<1> HIDE DEF P, N
<1>2. L \in [Paths -> Seq(LinesOf)] /\ \A p \in Paths : L[p] = StagedLines(p) /\ Len(L[p]) \in {0, 1}
  <2>1. \A p \in Paths : StagedLines(p) \in Seq(LinesOf) /\ Len(StagedLines(p)) \in {0, 1}
    BY StagedLinesAre, Zenon
  <2> QED BY <2>1, Zenon
<1>3. \A p \in P : F[p] = StagedFile(p) /\ F[p].path = p
  <2>1. \A p \in P : StagedFile(p).path = p
    BY Counted, Zenon DEF StagedFile, Counts
  <2> QED BY <2>1, Zenon
<1>4. [i \in DOMAIN Order |-> StagedLines(Order[i])] = [i \in DOMAIN Order |-> L[Order[i]]]
  <2>1. \A i \in DOMAIN Order : Order[i] \in Paths
    BY OrderIs, Zenon
  <2> QED BY <2>1, Zenon
<1>5. {StagedFile(p) : p \in P} = {F[p] : p \in P}
  BY <1>3, Zenon
<1> HIDE DEF L, F
<1>6. ASSUME NEW p \in P, p \notin N PROVE Len(L[p]) = 1 /\ p \in PathsOf(L[p][1].path)
  <2>1. p \in Paths /\ p \notin Quoted /\ ~Shortened(p)
    BY <1>1, <1>6, <1>12, Zenon
  <2>2. Printed(p) = p
    BY <2>1, Zenon DEF Printed
  <2> QED BY <1>2, <2>1, <2>2, StagedLinesAre, Zenon DEF P
<1>7. ASSUME NEW p \in P, NEW q \in Paths, Len(L[q]) = 1, p \in PathsOf(L[q][1].path)
      PROVE  q = p /\ p \notin N
  <2>1. p \in Paths /\ ~IsSource(p)
    BY Zenon DEF P, StagedPaths
  <2>2. /\ ~Shortened(q)
        /\ p = Printed(q) \/ (Renamed(q) # {} /\ p = Printed(Source(q)))
    BY <1>2, <1>7, <2>1, StagedLinesAre, Zenon
  <2>3. ~(Renamed(q) # {} /\ p = Printed(Source(q)))
    <3> SUFFICES ASSUME Renamed(q) # {}, p = Printed(Source(q)) PROVE FALSE
      OBVIOUS
    <3>1. Source(q) \in Paths /\ Source(q) \in Renamed(q)
      BY RenamesAre, Zenon
    <3>2. Source(q) = p
      BY <2>1, <3>1, PrintedIs, Zenon
    <3> QED BY <2>1, <3>1, <3>2, Zenon DEF IsSource
  <2>4. Printed(q) = p
    BY <2>2, <2>3, Zenon
  <2> QED BY <1>12, <2>1, <2>2, <2>4, PrintedIs, Zenon
<1>8. ApplyNumstat({F[p] : p \in P}, FlattenSeq([i \in DOMAIN Order |-> L[Order[i]]]))
      = {IF p \in N THEN F[p] ELSE [F[p] EXCEPT !.counts = L[p][1].counts] : p \in P}
  <2>1. LinesFit(L, P, F, N)
    BY <1>1, <1>2, <1>3, <1>6, <1>7, Zenon DEF LinesFit
  <2>2. FindsCounts(L, P, F, N)
    BY <2>1, CountsFound, Zenon
  <2> QED BY <2>2, Zenon DEF FindsCounts
<1> DEFINE X(p) == [path |-> p, status |-> IF Renamed(p) # {} THEN "R" ELSE Code(head[p], index[p]),
                    old |-> Old(p),
                    counts |-> IF Lost(p) THEN <<0, 0>> ELSE StagedCounts(p)]
<1>9. ASSUME NEW p \in P
      PROVE  (IF p \in N THEN F[p] ELSE [F[p] EXCEPT !.counts = L[p][1].counts]) = X(p)
  <2> DEFINE code == IF Renamed(p) # {} THEN "R" ELSE Code(head[p], index[p])
  <2>1. F[p] = File(p, Old(p), code)
    BY <1>3, Zenon DEF StagedFile, Old
  <2>7. Counts(F[p], p, Old(p), code)
    BY <2>1, Counted, Zenon
  <2>2. X(p) = [path |-> p, old |-> Old(p), status |-> code,
                counts |-> IF Lost(p) THEN <<0, 0>> ELSE StagedCounts(p)]
    OBVIOUS
  <2>3. p \in Paths
    BY <1>1, Zenon
  <2>4. L[p][1].counts = StagedCounts(p)
    BY <1>2, <2>3, StagedLinesAre, Zenon DEF P
  <2> HIDE DEF code, X
  <2>5. CASE p \in N
    <3>1. Lost(p)
      BY <1>1, <2>5, Zenon
    <3>2. F[p] = [path |-> p, old |-> Old(p), status |-> code, counts |-> <<0, 0>>]
      BY <2>7, Zenon DEF Counts
    <3> QED BY <2>2, <2>5, <3>1, <3>2, Zenon
  <2>6. CASE p \notin N
    <3>1. ~Lost(p)
      BY <1>1, <2>6, Zenon
    <3>2. [F[p] EXCEPT !.counts = StagedCounts(p)]
          = [path |-> p, old |-> Old(p), status |-> code, counts |-> StagedCounts(p)]
      BY <2>7, Zenon DEF Counts
    <3> QED BY <2>2, <2>4, <2>6, <3>1, <3>2, Zenon
  <2> QED BY <2>5, <2>6
<1>10. StagedFiles = {X(p) : p \in P}
  BY Zenon DEF StagedFiles, P, StagedPaths
<1> HIDE DEF X
<1>11. {IF p \in N THEN F[p] ELSE [F[p] EXCEPT !.counts = L[p][1].counts] : p \in P}
       = {X(p) : p \in P}
  BY <1>9, Zenon
<1> QED BY <1>4, <1>5, <1>8, <1>10, <1>11, Zenon DEF P

LEMMA UnstagedCounted ==
    ASSUME GitTypes
    PROVE  ApplyNumstat({UnstagedFile(p) : p \in UnstagedPaths},
                        FlattenSeq([i \in DOMAIN Order |-> UnstagedLines(Order[i])])) = UnstagedFiles
<1> DEFINE P == UnstagedPaths
<1> DEFINE L == [p \in Paths |-> UnstagedLines(p)]
<1> DEFINE F == [p \in P |-> UnstagedFile(p)]
<1>1. P \in SUBSET Paths
  BY Zenon DEF UnstagedPaths
<1> HIDE DEF P
<1>2. L \in [Paths -> Seq(LinesOf)] /\ \A p \in Paths : L[p] = UnstagedLines(p) /\ Len(L[p]) \in {0, 1}
  <2>1. \A p \in Paths : UnstagedLines(p) \in Seq(LinesOf) /\ Len(UnstagedLines(p)) \in {0, 1}
    BY UnstagedLinesAre, Zenon
  <2> QED BY <2>1, Zenon
<1>3. \A p \in P : F[p] = UnstagedFile(p) /\ F[p].path = p
  <2>1. \A p \in P : UnstagedFile(p).path = p
    BY Counted, Zenon DEF UnstagedFile, Counts
  <2> QED BY <2>1, Zenon
<1>4. [i \in DOMAIN Order |-> UnstagedLines(Order[i])] = [i \in DOMAIN Order |-> L[Order[i]]]
  <2>1. \A i \in DOMAIN Order : Order[i] \in Paths
    BY OrderIs, Zenon
  <2> QED BY <2>1, Zenon
<1>5. {UnstagedFile(p) : p \in P} = {F[p] : p \in P}
  BY <1>3, Zenon
<1> HIDE DEF L, F
<1>6. ASSUME NEW p \in P, p \notin Quoted PROVE Len(L[p]) = 1 /\ p \in PathsOf(L[p][1].path)
  <2>1. p \in Paths
    BY <1>1, Zenon
  <2>2. Printed(p) = p
    BY <1>6, Zenon DEF Printed
  <2> QED BY <1>2, <2>1, <2>2, UnstagedLinesAre, Zenon DEF P
<1>7. ASSUME NEW p \in P, NEW q \in Paths, Len(L[q]) = 1, p \in PathsOf(L[q][1].path)
      PROVE  q = p /\ p \notin Quoted
  <2>1. p \in Paths
    BY <1>1, Zenon
  <2>2. p = Printed(q)
    BY <1>2, <1>7, UnstagedLinesAre, Zenon
  <2> QED BY <2>1, <2>2, PrintedIs, Zenon
<1>8. ApplyNumstat({F[p] : p \in P}, FlattenSeq([i \in DOMAIN Order |-> L[Order[i]]]))
      = {IF p \in Quoted THEN F[p] ELSE [F[p] EXCEPT !.counts = L[p][1].counts] : p \in P}
  <2>1. LinesFit(L, P, F, Quoted)
    BY <1>1, <1>2, <1>3, <1>6, <1>7, Zenon DEF LinesFit
  <2>2. FindsCounts(L, P, F, Quoted)
    BY <2>1, CountsFound, Zenon
  <2> QED BY <2>2, Zenon DEF FindsCounts
<1> DEFINE X(p) == [path |-> p, old |-> <<>>, status |-> Code(index[p], work[p]),
                    counts |-> IF p \in Quoted THEN <<0, 0>> ELSE <<index[p], work[p]>>]
<1>9. ASSUME NEW p \in P
      PROVE  (IF p \in Quoted THEN F[p] ELSE [F[p] EXCEPT !.counts = L[p][1].counts]) = X(p)
  <2> DEFINE code == Code(index[p], work[p])
  <2> DEFINE counts == <<index[p], work[p]>>
  <2>1. F[p] = File(p, <<>>, code)
    BY <1>3, Zenon DEF UnstagedFile
  <2>7. Counts(F[p], p, <<>>, code)
    BY <2>1, Counted, Zenon
  <2>2. X(p) = [path |-> p, old |-> <<>>, status |-> code, 
                counts |-> IF p \in Quoted THEN <<0, 0>> ELSE counts]
    BY Zenon
  <2>3. p \in Paths
    BY <1>1, Zenon
  <2>4. L[p][1].counts = counts
    BY <1>2, <2>3, UnstagedLinesAre, Zenon DEF P
  <2>5. CASE p \in Quoted
    <3>1. F[p] = [path |-> p, old |-> <<>>, status |-> code, counts |-> <<0, 0>>]
      BY <2>7, Zenon DEF Counts
    <3> HIDE DEF code, counts, X
    <3> QED BY <2>2, <2>5, <3>1, Zenon
  <2>6. CASE p \notin Quoted
    <3>1. [F[p] EXCEPT !.counts = counts]
          = [path |-> p, old |-> <<>>, status |-> code, counts |-> counts]
      BY <2>7, Zenon DEF Counts
    <3> HIDE DEF code, counts, X
    <3> QED BY <2>2, <2>4, <2>6, <3>1, Zenon
  <2> QED BY <2>5, <2>6
<1>10. UnstagedFiles = {X(p) : p \in P}
  BY Zenon DEF UnstagedFiles, P, UnstagedPaths
<1> HIDE DEF X
<1>11. {IF p \in Quoted THEN F[p] ELSE [F[p] EXCEPT !.counts = L[p][1].counts] : p \in P}
       = {X(p) : p \in P}
  BY <1>9, Zenon
<1> QED BY <1>4, <1>5, <1>8, <1>10, <1>11, Zenon DEF P

(* The files without their counts: what git's status tells of them, which the  *)
(* counts that are looked up for them leave as it is.                          *)
IsFile(x) == x = File(x.path, x.old, x.status)

LEMMA FilesAre ==
    ASSUME NEW p, NEW old, NEW code
    PROVE  IsFile(File(p, old, code))
  BY DEF IsFile, File

LEMMA ListsAreFiles ==
    ASSUME NEW out
    PROVE  /\ \A x \in ParsePorcelain(out).staged : IsFile(x)
           /\ \A x \in ParsePorcelain(out).unstaged : IsFile(x)
<1> DEFINE changed == {i \in EntriesOf(out) : IsOrdinary(out[i]) \/ IsRename(out[i])}
<1>1. /\ ParsePorcelain(out).staged = {File(PathOf(out[i]), OldPath(out, i), out[i][2]) :
             i \in {j \in changed : out[j][2] # "."}}
      /\ ParsePorcelain(out).unstaged = {File(PathOf(out[i]), <<>>, out[i][3]) :
             i \in {j \in changed : out[j][3] # "."}}
  BY DEF ParsePorcelain
<1> HIDE DEF changed
<1>2. ASSUME NEW x \in ParsePorcelain(out).staged PROVE IsFile(x)
  <2>1. PICK i \in changed : x = File(PathOf(out[i]), OldPath(out, i), out[i][2])
    BY <1>1, Zenon
  <2>2. IsFile(File(PathOf(out[i]), OldPath(out, i), out[i][2]))
    BY FilesAre, Zenon
  <2> QED BY <2>1, <2>2, Zenon
<1>3. ASSUME NEW x \in ParsePorcelain(out).unstaged PROVE IsFile(x)
  <2>1. PICK i \in changed : x = File(PathOf(out[i]), <<>>, out[i][3])
    BY <1>1, Zenon
  <2>2. IsFile(File(PathOf(out[i]), <<>>, out[i][3]))
    BY FilesAre, Zenon
  <2> QED BY <2>1, <2>2, Zenon
<1> QED BY <1>2, <1>3, Zenon

LEMMA UncountedStays ==
    ASSUME NEW X, \A x \in X : IsFile(x), NEW lines
    PROVE  Uncounted(ApplyNumstat(X, lines)) = X
<1> DEFINE Of(f) == {i \in DOMAIN lines : f.path \in PathsOf(lines[i].path)}
<1> DEFINE LastOf(f) == CHOOSE i \in Of(f) : \A j \in Of(f) : j <= i
<1> DEFINE Now(f) == IF Of(f) = {} THEN f ELSE [f EXCEPT !.counts = lines[LastOf(f)].counts]
<1> DEFINE Bare(f) == File(f.path, f.old, f.status)
<1>1. ApplyNumstat(X, lines) = {Now(f) : f \in X}
  BY Zenon DEF ApplyNumstat
<1> HIDE DEF Of, LastOf
<1>2. ASSUME NEW f \in X PROVE Bare(Now(f)) = f
  <2>1. f = File(f.path, f.old, f.status)
    BY Zenon DEF IsFile
  <2>2. Now(f).path = f.path /\ Now(f).old = f.old /\ Now(f).status = f.status
    BY <2>1 DEF File
  <2> HIDE DEF Now
  <2> QED BY <2>1, <2>2, Zenon
<1>3. Uncounted({Now(f) : f \in X}) = {Bare(x) : x \in {Now(f) : f \in X}}
  BY Zenon DEF Uncounted
<1> HIDE DEF Now, Bare
<1>4. {Bare(x) : x \in {Now(f) : f \in X}} = X
  BY <1>2
<1> QED BY <1>1, <1>3, <1>4, Zenon

LEMMA DiffersAsPrinted ==
    ASSUME GitTypes
    PROVE  LET lists == ParsePorcelain(FlattenSeq(StatusEntries)) IN
           /\ lists.staged = Differing.staged /\ lists.unstaged = Differing.unstaged
           /\ {x.path : x \in lists.untracked} = Differing.untracked
<1> DEFINE lists == ParsePorcelain(FlattenSeq(StatusEntries))
<1> DEFINE cached == FlattenSeq([i \in DOMAIN Order |-> StagedLines(Order[i])])
<1> DEFINE unstaged == FlattenSeq([i \in DOMAIN Order |-> UnstagedLines(Order[i])])
<1>1. /\ lists.staged = {StagedFile(p) : p \in StagedPaths}
      /\ lists.unstaged = {UnstagedFile(p) : p \in UnstagedPaths}
      /\ {x.path : x \in lists.untracked} = UntrackedPaths
  BY StatusRead, Zenon
<1>2. /\ ApplyNumstat({StagedFile(p) : p \in StagedPaths}, cached) = StagedFiles
      /\ ApplyNumstat({UnstagedFile(p) : p \in UnstagedPaths}, unstaged) = UnstagedFiles
  BY StagedCounted, UnstagedCounted, Zenon
<1>3. /\ \A x \in lists.staged : IsFile(x)
      /\ \A x \in lists.unstaged : IsFile(x)
  BY ListsAreFiles, Zenon
<1> HIDE DEF lists, cached, unstaged
<1>4. /\ Uncounted(ApplyNumstat(lists.staged, cached)) = lists.staged
      /\ Uncounted(ApplyNumstat(lists.unstaged, unstaged)) = lists.unstaged
  BY <1>3, UncountedStays
<1>5. Uncounted(StagedFiles) = lists.staged /\ Uncounted(UnstagedFiles) = lists.unstaged
  BY <1>1, <1>2, <1>4, Zenon
<1>6. /\ Differing.staged = Uncounted(StagedFiles)
      /\ Differing.unstaged = Uncounted(UnstagedFiles)
      /\ Differing.untracked = UntrackedPaths
  BY DEF Differing
<1> QED BY <1>1, <1>5, <1>6, Zenon DEF lists

(* What a command prints does not depend on when it runs if nothing changes.   *)
LEMMA PrintsTheSame ==
    ASSUME UNCHANGED repoVars
    PROVE  \A c \in Commands : Output(c)' = Output(c)
<1>1. /\ head' = head /\ index' = index /\ work' = work /\ unmerged' = unmerged
      /\ commits' = commits /\ pushed' = pushed
  BY DEF repoVars
<1>2. ASSUME NEW p PROVE RenamedTo(p)' = RenamedTo(p)
  BY <1>1, Zenon DEF RenamedTo
<1>3. ASSUME NEW p PROVE Renamed(p)' = Renamed(p)
  BY <1>2, Zenon DEF Renamed
<1>4. ASSUME NEW p PROVE IsSource(p)' = IsSource(p) /\ Source(p)' = Source(p)
  BY <1>3, Zenon DEF IsSource, Source
<1>5. ASSUME NEW p
      PROVE  /\ TrackedEntries(p)' = TrackedEntries(p) /\ UntrackedEntries(p)' = UntrackedEntries(p)
             /\ StagedLines(p)' = StagedLines(p) /\ UnstagedLines(p)' = UnstagedLines(p)
  <2>1. TrackedEntries(p)' = TrackedEntries(p)
    BY <1>1, <1>3, <1>4, Zenon DEF TrackedEntries
  <2>2. UntrackedEntries(p)' = UntrackedEntries(p)
    BY <1>1, Zenon DEF UntrackedEntries
  <2>3. StagedLines(p)' = StagedLines(p)
    BY <1>1, <1>3, <1>4, Zenon DEF StagedLines
  <2>4. UnstagedLines(p)' = UnstagedLines(p)
    BY <1>1, Zenon DEF UnstagedLines
  <2> QED BY <2>1, <2>2, <2>3, <2>4
<1>6. StatusEntries' = StatusEntries
  BY <1>5, Zenon DEF StatusEntries
<1> QED BY <1>1, <1>5, <1>6, Zenon DEF Output, Commands

(* What has been printed is what would be printed now, while nothing changes;  *)
(* when no command runs any more all of them have printed; and what the status *)
(* printed tells of the files that differed then, whatever changed since.      *)
StatusTypes ==
    /\ GitTypes /\ running \in SUBSET Commands /\ DOMAIN outputs = Commands
PrintsAreCurrent == ~disturbed => \A c \in Commands : outputs[c] \in {<<>>, <<Output(c)>>}
AllWillHavePrinted ==
    running # {} \/ outputs # Empty => \A c \in Commands : c \in running \/ outputs[c] # <<>>
ListedIsPrinted ==
    LET lists == ParsePorcelain(outputs["status"][1]) IN
    outputs["status"] # <<>> =>
        /\ lists.staged = listed.staged /\ lists.unstaged = listed.unstaged
        /\ {x.path : x \in lists.untracked} = listed.untracked
StatusInv == StatusTypes /\ PrintsAreCurrent /\ AllWillHavePrinted /\ ListedIsPrinted

LEMMA StatusInvInit == StatusInit => StatusInv
<1> SUFFICES ASSUME StatusInit PROVE StatusInv
  OBVIOUS
<1>1. GitTypes
  <2>1. head \in [Paths -> Nat] /\ index = head /\ work = head /\ unmerged = {}
    BY DEF StatusInit
  <2> QED BY <2>1 DEF GitTypes
<1>2. running = {} /\ outputs = Empty
  BY DEF StatusInit
<1>3. DOMAIN outputs = Commands /\ \A c \in Commands : outputs[c] = <<>>
  BY <1>2, Zenon DEF Empty
<1>4. outputs["status"] = <<>>
  BY <1>3, Zenon DEF Commands
<1> QED BY <1>1, <1>2, <1>3, <1>4, Zenon DEF StatusInv, StatusTypes, PrintsAreCurrent,
                                             AllWillHavePrinted, ListedIsPrinted

LEMMA ListedStays ==
    ASSUME ListedIsPrinted, listed' = listed, outputs'["status"] = outputs["status"]
    PROVE  ListedIsPrinted'
  BY Zenon DEF ListedIsPrinted

(* A change of the worktree leaves the reading as it is, but disturbed.        *)
LEMMA ChangesDisturb ==
    ASSUME StatusInv, Changes, GitTypes'
    PROVE  StatusInv' /\ status' = status
<1>1. ListedIsPrinted'
  BY ListedStays, Zenon DEF StatusInv, Changes
<1> QED BY <1>1, Zenon DEF StatusInv, StatusTypes, PrintsAreCurrent, AllWillHavePrinted, Changes,
                           Empty, Commands

LEMMA StatusInvNext == StatusInv /\ [StatusNext]_gitStatusVars => StatusInv'
<1> SUFFICES ASSUME StatusInv, [StatusNext]_gitStatusVars PROVE StatusInv'
  OBVIOUS
<1>0. /\ GitTypes /\ running \in SUBSET Commands /\ DOMAIN outputs = Commands
      /\ PrintsAreCurrent /\ AllWillHavePrinted /\ ListedIsPrinted
  BY Zenon DEF StatusInv, StatusTypes
<1>1. UNCHANGED repoVars => GitTypes'
  BY <1>0 DEF GitTypes, repoVars
<1>2. CASE BeginReading
  <2>1. /\ running = {} /\ outputs = Empty /\ running' = Commands /\ outputs' = outputs
        /\ disturbed' = FALSE /\ UNCHANGED repoVars /\ listed' = listed
    BY <1>2, Zenon DEF BeginReading
  <2>5. ListedIsPrinted'
    BY <1>0, <2>1, ListedStays, Zenon
  <2>2. \A c \in Commands : outputs'[c] = <<>> /\ c \in running'
    BY <2>1, Zenon DEF Empty
  <2>3. DOMAIN outputs' = Commands /\ running' \in SUBSET Commands
    BY <1>0, <2>1, Zenon
  <2>4. PrintsAreCurrent' /\ AllWillHavePrinted'
    BY <2>2, Zenon DEF PrintsAreCurrent, AllWillHavePrinted
  <2> QED BY <1>1, <2>1, <2>3, <2>4, <2>5, Zenon DEF StatusInv, StatusTypes
<1>3. CASE \E c \in Commands : CommandRuns(c)
  <2>1. PICK c \in Commands : CommandRuns(c)
    BY <1>3, Zenon
  <2>2. /\ c \in running /\ running' = running \ {c} /\ outputs' = [outputs EXCEPT ![c] = <<Output(c)>>]
        /\ UNCHANGED repoVars /\ disturbed' = disturbed
        /\ listed' = IF c = "status" THEN Differing ELSE listed
    BY <2>1, Zenon DEF CommandRuns
  <2>3. DOMAIN outputs' = Commands /\ running' \in SUBSET Commands
    BY <1>0, <2>2, Zenon
  <2>4. outputs'[c] = <<Output(c)>> /\ \A d \in Commands : d # c => outputs'[d] = outputs[d]
    BY <1>0, <2>2, Zenon
  <2>5. \A d \in Commands : Output(d)' = Output(d)
    BY <2>2, PrintsTheSame, Zenon
  <2>6. PrintsAreCurrent'
    <3> SUFFICES ASSUME ~disturbed', NEW d \in Commands PROVE outputs'[d] \in {<<>>, <<Output(d)'>>}
      BY Zenon DEF PrintsAreCurrent
    <3>1. outputs[d] \in {<<>>, <<Output(d)>>}
      BY <1>0, <2>2, Zenon DEF PrintsAreCurrent
    <3> QED BY <2>4, <2>5, <3>1, Zenon
  <2>7. AllWillHavePrinted'
    <3>1. <<Output(c)>> # <<>>
      OBVIOUS
    <3>2. \A d \in Commands : d \in running \/ outputs[d] # <<>>
      BY <1>0, <2>2, Zenon DEF AllWillHavePrinted
    <3>3. \A d \in Commands : d \in running' \/ outputs'[d] # <<>>
      BY <2>2, <2>4, <3>1, <3>2, Zenon
    <3> QED BY <3>3, Zenon DEF AllWillHavePrinted
  <2>8. ListedIsPrinted'
    <3>1. CASE c = "status"
      <4>1. outputs'["status"] = <<Output(c)>> /\ listed' = Differing
        BY <2>2, <2>4, <3>1, Zenon
      <4>2. Output(c) = FlattenSeq(StatusEntries)
        BY <3>1 DEF Output
      <4>3. \A x : <<x>>[1] = x
        OBVIOUS
      <4>4. outputs'["status"][1] = FlattenSeq(StatusEntries)
        BY <4>1, <4>2, <4>3, Zenon
      <4> QED BY <1>0, <4>1, <4>4, DiffersAsPrinted, Zenon DEF ListedIsPrinted
    <3>2. CASE c # "status"
      <4>1. outputs'["status"] = outputs["status"] /\ listed' = listed
        BY <2>2, <2>4, <3>2, Zenon DEF Commands
      <4> QED BY <1>0, <4>1, ListedStays, Zenon
    <3> QED BY <3>1, <3>2
  <2> QED BY <1>1, <2>2, <2>3, <2>6, <2>7, <2>8, Zenon DEF StatusInv, StatusTypes
<1>4. CASE ComputeStatus
  <2>1. running = {} /\ outputs' = Empty /\ running' = running /\ UNCHANGED repoVars
    BY <1>4, Zenon DEF ComputeStatus
  <2>2. DOMAIN outputs' = Commands /\ \A c \in Commands : outputs'[c] = <<>>
    BY <2>1, Zenon DEF Empty
  <2>3. PrintsAreCurrent'
    BY <2>2, Zenon DEF PrintsAreCurrent
  <2>4. AllWillHavePrinted'
    BY <2>1, Zenon DEF AllWillHavePrinted, Empty
  <2>5. ListedIsPrinted'
    BY <2>2, Zenon DEF ListedIsPrinted, Commands
  <2> QED BY <1>0, <1>1, <2>1, <2>2, <2>3, <2>4, <2>5, Zenon DEF StatusInv, StatusTypes
<1>5. ASSUME NEW p \in Paths, StageFile(p) \/ UnstageFile(p) \/ DiscardFile(p) PROVE StatusInv'
  <2>1. GitTypes' /\ Changes
    BY <1>0, <1>5 DEF StageFile, UnstageFile, DiscardFile, GitTypes
  <2> QED BY <2>1, ChangesDisturb, Zenon
<1>6. CASE StageAll \/ UnstageAll \/ Push
  <2>1. GitTypes' /\ Changes
    BY <1>0, <1>6 DEF StageAll, UnstageAll, Push, GitTypes
  <2> QED BY <2>1, ChangesDisturb, Zenon
<1>7. ASSUME NEW message \in Messages, Commit(message) PROVE StatusInv'
  <2>1. GitTypes' /\ Changes
    BY <1>0, <1>7 DEF Commit, GitTypes
  <2> QED BY <2>1, ChangesDisturb, Zenon
<1>8. ASSUME NEW p \in Paths, NEW v \in Versions \cup {0}, WriteFile(p, v) PROVE StatusInv'
  <2>1. v \in Nat
    <3>1. Versions \subseteq Nat \ {0}
      BY GitAssumption, Zenon
    <3> QED BY <3>1
  <2>2. GitTypes' /\ Changes
    BY <1>0, <1>8, <2>1 DEF WriteFile, GitTypes
  <2> QED BY <2>2, ChangesDisturb, Zenon
<1>9. CASE UNCHANGED gitStatusVars
  <2>1. /\ UNCHANGED repoVars /\ running' = running /\ outputs' = outputs /\ disturbed' = disturbed
        /\ listed' = listed
    BY <1>9 DEF gitStatusVars, repoVars
  <2>5. ListedIsPrinted'
    BY <1>0, <2>1, ListedStays, Zenon
  <2>2. \A d \in Commands : Output(d)' = Output(d)
    BY <2>1, PrintsTheSame, Zenon
  <2>3. PrintsAreCurrent'
    BY <1>0, <2>1, <2>2, Zenon DEF PrintsAreCurrent
  <2>4. AllWillHavePrinted'
    BY <1>0, <2>1, Zenon DEF AllWillHavePrinted, Empty, Commands
  <2> QED BY <1>0, <1>1, <2>1, <2>3, <2>4, <2>5, Zenon DEF StatusInv, StatusTypes
<1> QED BY <1>2, <1>3, <1>4, <1>5, <1>6, <1>7, <1>8, <1>9, Zenon DEF StatusNext

(* What a reading comes to, and one that nothing disturbed.                    *)

LEMMA ComputesTheChanges ==
    ASSUME StatusInv, ComputeStatus
    PROVE  /\ Uncounted(status'.staged) = listed.staged
           /\ Uncounted(status'.unstaged) = listed.unstaged
           /\ {x.path : x \in status'.untracked} = listed.untracked
           /\ ~disturbed =>
                 /\ status'.staged = StagedFiles /\ status'.unstaged = UnstagedFiles
                 /\ {x.path : x \in status'.untracked} = UntrackedPaths
                 /\ status'.pushCount = IF pushed = <<>> THEN 0 ELSE Len(commits) - pushed[1]
<1> DEFINE lists == ParsePorcelain(outputs["status"][1])
<1> DEFINE staged == ApplyNumstat(lists.staged, outputs["cached"][1])
<1> DEFINE unstaged == ApplyNumstat(lists.unstaged, outputs["unstaged"][1])
<1> DEFINE count == IF outputs["upstream"][1] = <<>> THEN 0 ELSE PushCount
<1> DEFINE known == outputs["upstream"][1] # <<>>
<1> DEFINE log == ParseLog(outputs["log"][1])
<1>1. GitTypes /\ PrintsAreCurrent /\ AllWillHavePrinted /\ ListedIsPrinted
  BY Zenon DEF StatusInv, StatusTypes
<1>2. ASSUME NEW c \in Commands
      PROVE  outputs[c] # <<>> /\ (~disturbed => outputs[c][1] = Output(c))
  <2>1. running = {} /\ outputs # Empty
    BY Zenon DEF ComputeStatus
  <2>2. outputs[c] # <<>>
    BY <1>1, <2>1, Zenon DEF AllWillHavePrinted
  <2>3. ~disturbed => outputs[c] = <<Output(c)>>
    BY <1>1, <2>2, Zenon DEF PrintsAreCurrent
  <2>4. \A x : <<x>>[1] = x
    OBVIOUS
  <2> QED BY <2>2, <2>3, <2>4, Zenon
<1>3. /\ "status" \in Commands /\ "cached" \in Commands /\ "unstaged" \in Commands
      /\ "upstream" \in Commands
  BY Zenon DEF Commands
<1>4. /\ lists.staged = listed.staged /\ lists.unstaged = listed.unstaged
      /\ {x.path : x \in lists.untracked} = listed.untracked
  BY <1>1, <1>2, <1>3, Zenon DEF ListedIsPrinted
<1>5. Uncounted(staged) = lists.staged /\ Uncounted(unstaged) = lists.unstaged
  <2>1. (\A x \in lists.staged : IsFile(x)) /\ (\A x \in lists.unstaged : IsFile(x))
    BY ListsAreFiles, Zenon
  <2> HIDE DEF lists
  <2> QED BY <2>1, UncountedStays
<1>6. ASSUME ~disturbed
      PROVE  /\ staged = StagedFiles /\ unstaged = UnstagedFiles
             /\ {x.path : x \in lists.untracked} = UntrackedPaths
             /\ count = IF pushed = <<>> THEN 0 ELSE Len(commits) - pushed[1]
  <2>1. /\ outputs["status"][1] = FlattenSeq(StatusEntries)
        /\ outputs["cached"][1] = FlattenSeq([i \in DOMAIN Order |-> StagedLines(Order[i])])
        /\ outputs["unstaged"][1] = FlattenSeq([i \in DOMAIN Order |-> UnstagedLines(Order[i])])
        /\ outputs["upstream"][1] = pushed /\ outputs["upstream"] # <<>>
    <3>1. Output("status") = FlattenSeq(StatusEntries)
      BY DEF Output
    <3>2. Output("cached") = FlattenSeq([i \in DOMAIN Order |-> StagedLines(Order[i])])
      BY DEF Output
    <3>3. Output("unstaged") = FlattenSeq([i \in DOMAIN Order |-> UnstagedLines(Order[i])])
      BY DEF Output
    <3>4. Output("upstream") = pushed
      BY DEF Output
    <3> QED BY <1>2, <1>3, <1>6, <3>1, <3>2, <3>3, <3>4, Zenon
  <2>2. /\ lists.staged = {StagedFile(p) : p \in StagedPaths}
        /\ lists.unstaged = {UnstagedFile(p) : p \in UnstagedPaths}
        /\ {x.path : x \in lists.untracked} = UntrackedPaths
    BY <1>1, <2>1, StatusRead, Zenon
  <2>3. staged = StagedFiles
    BY <1>1, <2>1, <2>2, StagedCounted, Zenon
  <2>4. unstaged = UnstagedFiles
    BY <1>1, <2>1, <2>2, UnstagedCounted, Zenon
  <2>5. count = IF pushed = <<>> THEN 0 ELSE Len(commits) - pushed[1]
    BY <2>1, Zenon DEF PushCount
  <2> QED BY <2>2, <2>3, <2>4, <2>5, Zenon
<1>8. status' = [staged |-> staged, unstaged |-> unstaged, untracked |-> lists.untracked,
                 commits |-> log, pushCount |-> count, hasUpstream |-> known]
  BY Zenon DEF ComputeStatus
<1> DEFINE untracked == lists.untracked
<1> HIDE DEF staged, unstaged, untracked, count, known, log
<1>9. status' = [staged |-> staged, unstaged |-> unstaged, untracked |-> untracked,
                 commits |-> log, pushCount |-> count, hasUpstream |-> known]
  BY <1>8, Zenon DEF untracked
<1>10. /\ status'.staged = staged /\ status'.unstaged = unstaged
       /\ status'.untracked = untracked /\ status'.pushCount = count
  BY <1>9
<1> QED BY <1>4, <1>5, <1>6, <1>10, Zenon DEF untracked

(* Every status that is computed lists the files that differed when git's      *)
(* status ran, every one and no other, under their own paths whatever words    *)
(* these consist of, also when the worktree changed while the other commands   *)
(* ran; and if nothing changed during the reading, with git's counts, but for  *)
(* quoted paths and abbreviated renames, and the number of commits to push:    *)
(* for every set of paths and whatever changes there are.                      *)
THEOREM StatusListsWhatChanged == StatusSpec => ListsWhatChanged
<1>1. StatusInv /\ [StatusNext]_gitStatusVars => StatusInv'
  BY StatusInvNext
<1> DEFINE Good ==
      /\ Uncounted(status'.staged) = listed.staged
      /\ Uncounted(status'.unstaged) = listed.unstaged
      /\ {f.path : f \in status'.untracked} = listed.untracked
      /\ \/ disturbed
         \/ /\ status'.staged = StagedFiles /\ status'.unstaged = UnstagedFiles
            /\ {f.path : f \in status'.untracked} = UntrackedPaths
            /\ status'.pushCount = IF pushed = <<>> THEN 0 ELSE Len(commits) - pushed[1]
<1>2. StatusInv /\ [StatusNext]_gitStatusVars => [status' = status \/ Good]_gitStatusVars
  <2> SUFFICES ASSUME StatusInv, StatusNext, status' # status PROVE Good
    OBVIOUS
  <2>1. ComputeStatus
    BY Zenon DEF StatusNext, BeginReading, CommandRuns, StageFile, UnstageFile, DiscardFile,
                 StageAll, UnstageAll, Push, Commit, WriteFile, Changes
  <2> QED BY <2>1, ComputesTheChanges, Zenon
<1> QED BY <1>1, <1>2, StatusInvInit, PTL DEF StatusSpec, ListsWhatChanged

==============================================================================
