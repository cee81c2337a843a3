---------------------------- MODULE ClientProofs -----------------------------
(***************************************************************************)
(* The daemon client's two threads.  The writer thread: that it implements *)
(* InputOrder, for any number of sessions and commands.  The reader        *)
(* thread: that a stream lacks nothing but what the daemon dropped, for    *)
(* any number of calls, capacities and output.                             *)
(***************************************************************************)
EXTENDS OutgoingWriter, SessionRouting, NaturalsInduction, WellFoundedInduction,
        SequenceTheorems, TLAPS

------------------------------------------------------------------------------
(* The writer thread: coalescing.                                           *)

Outgoing == [session : Sessions, op : Ops, ids : Seq(1..MaxGiven)]

\* The command that a frame carries at k.
CarriedAt(f, k) == [session |-> f.session, op |-> f.op, id |-> f.ids[k]]

\* The ids of a list of frames rise, from frame to frame and in each.
IdsRise(out) ==
    \A f, g \in 1..Len(out) : \A k \in 1..Len(out[f].ids), l \in 1..Len(out[g].ids) :
        f < g \/ (f = g /\ k < l) => out[f].ids[k] < out[g].ids[l]

Rises(b) == \A i, j \in 1..Len(b) : i < j => b[i].id < b[j].id

\* out is a coalesced form of the first i commands of b.
IsOf(out, b, i) ==
    /\ out \in Seq(Outgoing)
    /\ \A f \in 1..Len(out) : out[f].ids # <<>>
    /\ \A f \in 1..Len(out) : \A k \in 1..Len(out[f].ids) :
           \E j \in 1..i : b[j] = CarriedAt(out[f], k)
    /\ IdsRise(out)
    /\ \A j \in 1..i : Kept(b, j) =>
           \E f \in 1..Len(out) : \E k \in 1..Len(out[f].ids) : b[j] = CarriedAt(out[f], k)

(* A command that gets a frame of its own.                                   *)
LEMMA AppendsAFrame ==
    ASSUME NEW b \in Seq(Commands), Rises(b), NEW i \in Nat, i + 1 <= Len(b),
           NEW out, IsOf(out, b, i)
    PROVE  IsOf(Append(out, FrameOf(b[i + 1])), b, i + 1)
<1> DEFINE c == b[i + 1]
<1> DEFINE f == FrameOf(b[i + 1])
<1> DEFINE new == Append(out, f)
<1>1. /\ Len(b) \in Nat /\ i + 1 \in 1..Len(b) /\ c \in Commands
      /\ \A j \in 1..i : j \in 1..Len(b) /\ j \in 1..(i + 1)
      /\ \A j \in 1..(i + 1) : j \in 1..i \/ j = i + 1
  BY Z3
<1>2. out \in Seq(Outgoing) /\ Len(out) \in Nat
  BY DEF IsOf
<1>3. c.id \in 1..MaxGiven /\ c.session \in Sessions /\ c.op \in Ops
      /\ c = [session |-> c.session, op |-> c.op, id |-> c.id]
  BY <1>1 DEF Commands
<1>4. /\ f \in Outgoing /\ f.ids = <<c.id>> /\ Len(f.ids) = 1 /\ f.ids[1] = c.id
      /\ f.session = c.session /\ f.op = c.op /\ f.ids # <<>>
  BY <1>3 DEF FrameOf, Outgoing
<1>5. CarriedAt(f, 1) = c
  BY <1>3, <1>4 DEF CarriedAt
<1> HIDE DEF c, f
<1>6. \A k \in 1..Len(f.ids) : k = 1
  BY <1>4
<1>7. /\ new \in Seq(Outgoing) /\ Len(new) = Len(out) + 1 /\ new[Len(out) + 1] = f
      /\ \A g \in 1..Len(out) : new[g] = out[g]
      /\ \A g \in 1..Len(new) : g \in 1..Len(out) \/ g = Len(out) + 1
      /\ \A g \in 1..Len(out) : g \in 1..Len(new) /\ g < Len(out) + 1
      /\ Len(out) + 1 \in 1..Len(new)
  BY <1>2, <1>4, AppendProperties
<1> HIDE DEF new
<1>8. \A g \in 1..Len(new) : new[g].ids # <<>>
  BY <1>4, <1>7 DEF IsOf
<1>9. \A g \in 1..Len(new) : \A k \in 1..Len(new[g].ids) :
          \E j \in 1..(i + 1) : b[j] = CarriedAt(new[g], k)
  <2> SUFFICES ASSUME NEW g \in 1..Len(new), NEW k \in 1..Len(new[g].ids)
               PROVE  \E j \in 1..(i + 1) : b[j] = CarriedAt(new[g], k)
    OBVIOUS
  <2>1. CASE g \in 1..Len(out)
    <3>1. new[g] = out[g]
      BY <2>1, <1>7
    <3>2. PICK j \in 1..i : b[j] = CarriedAt(out[g], k)
      BY <2>1, <3>1 DEF IsOf
    <3> QED BY <3>1, <3>2, <1>1
  <2>2. CASE g = Len(out) + 1
    <3>1. new[g] = f /\ k = 1
      BY <2>2, <1>6, <1>7
    <3>2. b[i + 1] = CarriedAt(f, 1) /\ i + 1 \in 1..(i + 1)
      BY <1>5 DEF c
    <3> QED BY <3>1, <3>2
  <2> QED BY <2>1, <2>2, <1>7
<1>10. IdsRise(new)
  <2> SUFFICES ASSUME NEW g \in 1..Len(new), NEW h \in 1..Len(new),
                      NEW k \in 1..Len(new[g].ids), NEW l \in 1..Len(new[h].ids),
                      g < h \/ (g = h /\ k < l)
               PROVE  new[g].ids[k] < new[h].ids[l]
    BY DEF IdsRise
  <2>1. CASE g \in 1..Len(out) /\ h \in 1..Len(out)
    <3>1. new[g] = out[g] /\ new[h] = out[h]
      BY <2>1, <1>7
    <3>2. IdsRise(out)
      BY DEF IsOf
    <3> QED BY <2>1, <3>1, <3>2 DEF IdsRise
  <2>2. CASE g \in 1..Len(out) /\ h = Len(out) + 1
    <3>1. new[g] = out[g] /\ new[h] = f /\ l = 1
      BY <2>2, <1>6, <1>7
    <3>2. PICK j \in 1..i : b[j] = CarriedAt(out[g], k)
      BY <2>2, <3>1 DEF IsOf
    <3>3. b[j].id < c.id
      <4>1. j \in 1..Len(b) /\ i + 1 \in 1..Len(b) /\ j < i + 1
        BY <1>1
      <4> QED BY <4>1 DEF Rises, c
    <3>4. b[j].id = out[g].ids[k]
      BY <3>2 DEF CarriedAt
    <3>5. new[h].ids[l] = c.id
      BY <3>1, <1>4
    <3> QED BY <3>1, <3>3, <3>4, <3>5
  <2>3. CASE g = Len(out) + 1 /\ h \in 1..Len(out)
    BY <2>3, <1>7, <1>2
  <2>4. CASE g = Len(out) + 1 /\ h = Len(out) + 1
    <3>1. new[g] = f /\ new[h] = f /\ k = 1 /\ l = 1
      BY <2>4, <1>6, <1>7
    <3> QED BY <2>4, <3>1, <1>2
  <2>5. (g \in 1..Len(out) \/ g = Len(out) + 1) /\ (h \in 1..Len(out) \/ h = Len(out) + 1)
    BY <1>7
  <2> QED BY <2>1, <2>2, <2>3, <2>4, <2>5
<1>11. \A j \in 1..(i + 1) : Kept(b, j) =>
           \E g \in 1..Len(new) : \E k \in 1..Len(new[g].ids) : b[j] = CarriedAt(new[g], k)
  <2> SUFFICES ASSUME NEW j \in 1..(i + 1), Kept(b, j)
               PROVE  \E g \in 1..Len(new) : \E k \in 1..Len(new[g].ids) :
                          b[j] = CarriedAt(new[g], k)
    OBVIOUS
  <2>1. CASE j \in 1..i
    <3>1. PICK g \in 1..Len(out) : \E k \in 1..Len(out[g].ids) : b[j] = CarriedAt(out[g], k)
      BY <2>1 DEF IsOf
    <3>2. g \in 1..Len(new) /\ new[g] = out[g]
      BY <1>7
    <3> QED BY <3>1, <3>2
  <2>2. CASE j = i + 1
    <3>1. new[Len(out) + 1] = f /\ 1 \in 1..Len(f.ids) /\ b[j] = CarriedAt(f, 1)
      BY <2>2, <1>4, <1>5, <1>7 DEF c
    <3> QED BY <3>1, <1>7
  <2> QED BY <2>1, <2>2, <1>1
<1> QED BY <1>7, <1>8, <1>9, <1>10, <1>11 DEF IsOf, new, f

(* A write that joins the last frame.                                        *)
LEMMA JoinsTheLast ==
    ASSUME NEW b \in Seq(Commands), Rises(b), NEW i \in Nat, i + 1 <= Len(b),
           NEW out, IsOf(out, b, i), Joins(out, b[i + 1])
    PROVE  IsOf(Joined(out, b[i + 1]), b, i + 1)
<1> DEFINE c == b[i + 1]
<1> DEFINE last == Len(out)
<1> DEFINE ids == Append(out[last].ids, c.id)
<1> DEFINE f == [out[last] EXCEPT !.ids = ids]
<1> DEFINE new == [out EXCEPT ![last] = f]
<1>1. /\ Len(b) \in Nat /\ i + 1 \in 1..Len(b) /\ c \in Commands
      /\ \A j \in 1..i : j \in 1..Len(b) /\ j \in 1..(i + 1) /\ j < i + 1
      /\ \A j \in 1..(i + 1) : j \in 1..i \/ j = i + 1
      /\ i + 1 \in 1..(i + 1)
  BY Z3
<1>2. c.id \in 1..MaxGiven /\ c = [session |-> c.session, op |-> c.op, id |-> c.id]
  BY <1>1 DEF Commands
<1>3. out \in Seq(Outgoing) /\ out # <<>>
  BY DEF IsOf, Joins
<1>4. last \in Nat /\ last \in 1..Len(out) /\ out[last] \in Outgoing
  BY <1>3
<1>5. c.op = "Write" /\ out[last].op = "Write" /\ out[last].session = c.session
  BY DEF Joins
<1>6. Joined(out, c) = new
  <2> DEFINE newest(n) == /\ out[n].op = "Write" /\ out[n].session = c.session
                          /\ \A j \in (n + 1)..Len(out) :
                                 ~(out[j].op = "Write" /\ out[j].session = c.session)
  <2>1. newest(last)
    BY <1>4, <1>5
  <2>2. \A n \in 1..Len(out) : newest(n) => n = last
    <3> SUFFICES ASSUME NEW n \in 1..Len(out), newest(n), n # last
                 PROVE  FALSE
      OBVIOUS
    <3>1. last \in (n + 1)..Len(out)
      BY <1>4
    <3> QED BY <3>1, <1>5
  <2>3. (CHOOSE n \in 1..Len(out) : newest(n)) = last
    <3> HIDE DEF newest, last
    <3> QED BY <2>1, <2>2, <1>4
  <2>4. Joined(out, c) = [out EXCEPT ![CHOOSE n \in 1..Len(out) : newest(n)].ids = Append(@, c.id)]
    BY DEF Joined
  <2> QED BY <2>3, <2>4
<1> HIDE DEF c, last
<1>7. /\ ids \in Seq(1..MaxGiven) /\ Len(ids) = Len(out[last].ids) + 1
      /\ Len(out[last].ids) \in Nat
      /\ ids[Len(out[last].ids) + 1] = c.id /\ ids # <<>>
      /\ \A k \in 1..Len(out[last].ids) : ids[k] = out[last].ids[k] /\ k \in 1..Len(ids)
      /\ Len(out[last].ids) + 1 \in 1..Len(ids)
  <2>1. out[last].ids \in Seq(1..MaxGiven)
    BY <1>4 DEF Outgoing
  <2> DEFINE old == out[last].ids
  <2> DEFINE e == c.id
  <2>2. ids = Append(old, e)
    OBVIOUS
  <2>3. old \in Seq(1..MaxGiven) /\ e \in 1..MaxGiven
    BY <1>2, <2>1
  <2> HIDE DEF old, e, ids
  <2>4. /\ ids \in Seq(1..MaxGiven) /\ Len(ids) = Len(old) + 1 /\ ids # <<>>
        /\ ids[Len(old) + 1] = e /\ \A k \in 1..Len(old) : ids[k] = old[k]
    BY <2>2, <2>3, AppendProperties
  <2>5. Len(old) \in Nat
    BY <2>3
  <2>6. \A k \in 1..Len(old) : k \in 1..Len(ids)
    BY <2>4, <2>5
  <2>7. Len(old) + 1 \in 1..Len(ids)
    BY <2>4, <2>5
  <2> QED BY <2>4, <2>5, <2>6, <2>7 DEF old, e
<1>8. \A k \in 1..Len(ids) : k \in 1..Len(out[last].ids) \/ k = Len(out[last].ids) + 1
  BY <1>7, SMTT(30)
<1> HIDE DEF ids
<1>9. f \in Outgoing /\ f.ids = ids /\ f.session = c.session /\ f.op = c.op
  BY <1>4, <1>5, <1>7 DEF Outgoing
<1>10. \A k \in 1..Len(out[last].ids) : CarriedAt(f, k) = CarriedAt(out[last], k)
  BY <1>4, <1>7, <1>9, <1>5 DEF CarriedAt
<1>11. CarriedAt(f, Len(out[last].ids) + 1) = c
  BY <1>2, <1>7, <1>9 DEF CarriedAt
<1> HIDE DEF f
<1>12. /\ new \in Seq(Outgoing) /\ Len(new) = Len(out) /\ new[last] = f
       /\ \A g \in 1..Len(out) : g # last => new[g] = out[g]
  <2> HIDE DEF new
  <2>1. new = [out EXCEPT ![last] = f]
    BY DEF new
  <2> QED BY <1>3, <1>4, <1>9, <2>1, ExceptSeq
<1> HIDE DEF new
<1>13. \A g \in 1..Len(new) : new[g].ids # <<>>
  BY <1>7, <1>9, <1>12 DEF IsOf
<1>14. \A g \in 1..Len(new) : \A k \in 1..Len(new[g].ids) :
          \E j \in 1..(i + 1) : b[j] = CarriedAt(new[g], k)
  <2> SUFFICES ASSUME NEW g \in 1..Len(new), NEW k \in 1..Len(new[g].ids)
               PROVE  \E j \in 1..(i + 1) : b[j] = CarriedAt(new[g], k)
    OBVIOUS
  <2>1. CASE g # last
    <3>1. new[g] = out[g] /\ g \in 1..Len(out)
      BY <2>1, <1>12
    <3>2. PICK j \in 1..i : b[j] = CarriedAt(out[g], k)
      BY <3>1 DEF IsOf
    <3> QED BY <3>1, <3>2, <1>1
  <2>2. CASE g = last /\ k \in 1..Len(out[last].ids)
    <3>1. PICK j \in 1..i : b[j] = CarriedAt(out[last], k)
      BY <2>2, <1>4 DEF IsOf
    <3>2. CarriedAt(new[g], k) = CarriedAt(out[last], k)
      BY <2>2, <1>10, <1>12
    <3> QED BY <3>1, <3>2, <1>1
  <2>3. CASE g = last /\ k = Len(out[last].ids) + 1
    <3>1. CarriedAt(new[g], k) = b[i + 1]
      BY <2>3, <1>11, <1>12 DEF c
    <3> QED BY <3>1, <1>1
  <2>4. g = last => k \in 1..Len(out[last].ids) \/ k = Len(out[last].ids) + 1
    BY <1>8, <1>9, <1>12
  <2> QED BY <2>1, <2>2, <2>3, <2>4
<1>15. IdsRise(new)
  <2> SUFFICES ASSUME NEW g \in 1..Len(new), NEW h \in 1..Len(new),
                      NEW k \in 1..Len(new[g].ids), NEW l \in 1..Len(new[h].ids),
                      g < h \/ (g = h /\ k < l)
               PROVE  new[g].ids[k] < new[h].ids[l]
    BY DEF IdsRise
  <2>1. g \in 1..Len(out) /\ h \in 1..Len(out) /\ g <= last /\ h <= last
    BY <1>12, <1>3 DEF last
  <2> DEFINE AtNew(p, q) == p = last /\ q = Len(out[last].ids) + 1
  <2>2. ASSUME NEW p \in 1..Len(out), NEW q \in 1..Len(new[p].ids), ~AtNew(p, q)
        PROVE  /\ q \in 1..Len(out[p].ids) /\ new[p].ids[q] = out[p].ids[q]
               /\ new[p].ids[q] < c.id
    <3>1. q \in 1..Len(out[p].ids) /\ new[p].ids[q] = out[p].ids[q]
      <4>1. CASE p = last
        <5>1. new[p].ids = ids
          BY <4>1, <1>9, <1>12
        <5>2. q \in 1..Len(out[last].ids)
          BY <4>1, <5>1, <2>2, <1>8
        <5> QED BY <4>1, <5>1, <5>2, <1>7
      <4>2. CASE p # last
        BY <4>2, <1>12
      <4> QED BY <4>1, <4>2
    <3>2. PICK j \in 1..i : b[j] = CarriedAt(out[p], q)
      BY <3>1 DEF IsOf
    <3>3. b[j].id = out[p].ids[q]
      BY <3>2 DEF CarriedAt
    <3>4. b[j].id < c.id
      <4>1. j \in 1..Len(b) /\ j < i + 1
        BY <1>1
      <4> QED BY <4>1, <1>1 DEF Rises, c
    <3> QED BY <3>1, <3>3, <3>4
  <2>3. ASSUME NEW q, AtNew(last, q)
        PROVE  new[last].ids[q] = c.id
    BY <2>3, <1>7, <1>9, <1>12
  <2>4. CASE ~AtNew(g, k) /\ ~AtNew(h, l)
    <3>1. /\ k \in 1..Len(out[g].ids) /\ new[g].ids[k] = out[g].ids[k]
          /\ l \in 1..Len(out[h].ids) /\ new[h].ids[l] = out[h].ids[l]
      BY <2>1, <2>2, <2>4
    <3>2. IdsRise(out)
      BY DEF IsOf
    <3> QED BY <2>1, <3>1, <3>2 DEF IdsRise
  <2>5. CASE ~AtNew(g, k) /\ AtNew(h, l)
    <3>1. new[g].ids[k] < c.id
      BY <2>1, <2>2, <2>5
    <3>2. new[h].ids[l] = c.id
      BY <2>3, <2>5
    <3> QED BY <3>1, <3>2
  <2>6. CASE AtNew(g, k)
    <3>1. g = h /\ l > k
      BY <2>1, <2>6, <1>4
    <3>2. l \in 1..Len(ids)
      BY <2>6, <3>1, <1>9, <1>12
    <3>3. l \in Nat /\ k \in Nat /\ l <= Len(out[last].ids) + 1 /\ k = Len(out[last].ids) + 1
      BY <2>6, <3>2, <1>7
    <3> QED BY <3>1, <3>3
  <2> QED BY <2>4, <2>5, <2>6
<1>16. \A j \in 1..(i + 1) : Kept(b, j) =>
           \E g \in 1..Len(new) : \E k \in 1..Len(new[g].ids) : b[j] = CarriedAt(new[g], k)
  <2> SUFFICES ASSUME NEW j \in 1..(i + 1), Kept(b, j)
               PROVE  \E g \in 1..Len(new) : \E k \in 1..Len(new[g].ids) :
                          b[j] = CarriedAt(new[g], k)
    OBVIOUS
  <2>1. CASE j \in 1..i
    <3>1. PICK g \in 1..Len(out) : \E k \in 1..Len(out[g].ids) : b[j] = CarriedAt(out[g], k)
      BY <2>1 DEF IsOf
    <3>2. PICK k \in 1..Len(out[g].ids) : b[j] = CarriedAt(out[g], k)
      BY <3>1
    <3>3. g \in 1..Len(new)
      BY <1>12
    <3>4. CASE g # last
      BY <3>2, <3>3, <3>4, <1>12
    <3>5. CASE g = last
      <4>1. new[g] = f
        BY <3>5, <1>12
      <4>2. k \in 1..Len(out[last].ids) /\ b[j] = CarriedAt(out[last], k)
        BY <3>2, <3>5
      <4>3. k \in 1..Len(f.ids) /\ b[j] = CarriedAt(f, k)
        BY <4>2, <1>7, <1>9, <1>10
      <4> QED BY <4>1, <4>3, <3>3
    <3> QED BY <3>4, <3>5
  <2>2. CASE j = i + 1
    <3>1. last \in 1..Len(new) /\ new[last] = f
      BY <1>4, <1>12
    <3>2. Len(out[last].ids) + 1 \in 1..Len(f.ids) /\ b[j] = CarriedAt(f, Len(out[last].ids) + 1)
      BY <2>2, <1>7, <1>9, <1>11 DEF c
    <3> QED BY <3>1, <3>2
  <2> QED BY <2>1, <2>2, <1>1
<1>17. IsOf(new, b, i + 1)
  BY <1>12, <1>13, <1>14, <1>15, <1>16 DEF IsOf
<1> QED BY <1>6, <1>17 DEF c

(* One command of the batch, whichever way it goes.                          *)
LEMMA GoesOn ==
    ASSUME NEW b \in Seq(Commands), Rises(b), NEW i \in Nat, i + 1 <= Len(b),
           NEW out, IsOf(out, b, i)
    PROVE  IsOf(WithCommand(out, b, i + 1), b, i + 1)
<1>1. CASE ~Kept(b, i + 1)
  <2>1. WithCommand(out, b, i + 1) = out
    BY <1>1 DEF WithCommand
  <2>2. \A j \in 1..i : j \in 1..(i + 1)
    OBVIOUS
  <2>3. \A j \in 1..(i + 1) : Kept(b, j) => j \in 1..i
    BY <1>1
  <2>4. \A f \in 1..Len(out) : \A k \in 1..Len(out[f].ids) :
            \E j \in 1..(i + 1) : b[j] = CarriedAt(out[f], k)
    BY <2>2 DEF IsOf
  <2>5. \A j \in 1..(i + 1) : Kept(b, j) =>
           \E f \in 1..Len(out) : \E k \in 1..Len(out[f].ids) : b[j] = CarriedAt(out[f], k)
    BY <2>3 DEF IsOf
  <2> QED BY <2>1, <2>4, <2>5 DEF IsOf
<1>2. CASE Kept(b, i + 1) /\ Joins(out, b[i + 1])
  BY <1>2, JoinsTheLast DEF WithCommand
<1>3. CASE Kept(b, i + 1) /\ ~Joins(out, b[i + 1])
  BY <1>3, AppendsAFrame DEF WithCommand
<1> QED BY <1>1, <1>2, <1>3

(* A set of numbers that is not empty has a least one.                       *)
LEMMA Least ==
    ASSUME NEW T \in SUBSET Nat, T # {}
    PROVE  \E m \in T : \A n \in T : ~(n < m)
<1>1. PICK m \in T : \A n \in T : ~(<<n, m>> \in OpToRel(<, Nat))
  BY NatLessThanWellFounded, WFMin
<1> QED BY <1>1 DEF OpToRel

(* coalesce_outgoing: its frames carry the commands of the batch in their    *)
(* order, all but the resizes that a later one of the batch makes needless.  *)
LEMMA Coalesces ==
    ASSUME NEW b \in Seq(Commands), Rises(b)
    PROVE  IsOf(CoalesceOutgoing(b), b, Len(b))
<1> DEFINE Step(g, i) == IF i = 0 THEN <<>> ELSE WithCommand(g[i - 1], b, i)
<1> DEFINE Run(g, m) == g = [i \in 0..m |-> Step(g, i)]
<1>1. Len(b) \in Nat
  OBVIOUS
<1>2. \E g : Run(g, Len(b))
  <2> DEFINE T == {m \in Nat : ~\E g : Run(g, m)}
  <2> SUFFICES ASSUME T # {} PROVE FALSE
    BY <1>1
  <2>1. PICK m \in T : \A n \in T : ~(n < m)
    <3> HIDE DEF T
    <3>1. T \subseteq Nat
      BY DEF T
    <3> QED BY <3>1, Least
  <2>2. CASE m = 0
    <3> DEFINE g == [i \in 0..0 |-> <<>>]
    <3>1. \A i \in 0..0 : i = 0
      OBVIOUS
    <3>2. g = [i \in 0..0 |-> Step(g, i)]
      BY <3>1
    <3> QED BY <2>2, <3>2
  <2>3. CASE m # 0
    <3>1. m \in Nat /\ m - 1 \in Nat /\ m - 1 < m /\ (m - 1) + 1 = m
      BY <2>3
    <3>2. PICK g : Run(g, m - 1)
      BY <2>1, <3>1
    <3> DEFINE h == [i \in 0..m |-> IF i = m THEN WithCommand(g[m - 1], b, m) ELSE g[i]]
    <3>3. \A i \in 0..m : h[i] = Step(h, i)
      <4> SUFFICES ASSUME NEW i \in 0..m PROVE h[i] = Step(h, i)
        OBVIOUS
      <4>1. CASE i = m
        <5>1. h[m - 1] = g[m - 1] /\ m # 0 /\ h[m] = WithCommand(g[m - 1], b, m)
          BY <3>1, <2>3
        <5> QED BY <4>1, <5>1
      <4>2. CASE i # m
        <5>1. i \in 0..(m - 1) /\ h[i] = g[i]
          BY <4>2, <3>1
        <5>2. g[i] = Step(g, i)
          BY <3>2, <5>1
        <5>3. i # 0 => h[i - 1] = g[i - 1]
          BY <4>2, <3>1
        <5> QED BY <5>1, <5>2, <5>3
      <4> QED BY <4>1, <4>2
    <3>4. h = [i \in 0..m |-> Step(h, i)]
      <4> DEFINE r == [i \in 0..m |-> Step(h, i)]
      <4>1. \A i \in 0..m : h[i] = r[i]
        BY <3>3
      <4> QED BY <4>1
    <3> QED BY <3>4
  <2> QED BY <2>2, <2>3
<1> DEFINE out == CHOOSE g : Run(g, Len(b))
<1>3. Run(out, Len(b))
  <2> HIDE DEF Run
  <2> QED BY <1>2
<1>4. CoalesceOutgoing(b) = out[Len(b)]
  BY DEF CoalesceOutgoing
<1> HIDE DEF out
<1>5. \A i \in 0..Len(b) : out[i] = Step(out, i)
  BY <1>3
<1>6. \A i \in 0..Len(b) : IsOf(out[i], b, i)
  <2> DEFINE T == {i \in 0..Len(b) : ~IsOf(out[i], b, i)}
  <2> SUFFICES ASSUME T # {} PROVE FALSE
    OBVIOUS
  <2>1. PICK m \in T : \A n \in T : ~(n < m)
    <3>1. T \subseteq Nat
      BY <1>1
    <3> HIDE DEF T
    <3> QED BY <3>1, Least
  <2>2. m \in 0..Len(b) /\ m \in Nat /\ ~IsOf(out[m], b, m)
    BY <1>1
  <2>3. CASE m = 0
    <3>1. out[m] = <<>>
      BY <2>2, <2>3, <1>5
    <3>2. IsOf(<<>>, b, 0)
      <4>1. <<>> \in Seq(Outgoing) /\ Len(<<>>) = 0
        BY EmptySeq
      <4>2. (\A f \in 1..Len(<<>>) : FALSE) /\ (\A j \in 1..0 : FALSE)
        BY <4>1
      <4> QED BY <4>1, <4>2 DEF IsOf, IdsRise
    <3> QED BY <2>2, <2>3, <3>1, <3>2
  <2>4. CASE m # 0
    <3>1. m - 1 \in Nat /\ m - 1 \in 0..Len(b) /\ m - 1 < m /\ (m - 1) + 1 = m /\ m <= Len(b)
      BY <2>2, <2>4, <1>1
    <3>2. IsOf(out[m - 1], b, m - 1)
      BY <2>1, <3>1
    <3>3. out[m] = WithCommand(out[m - 1], b, m)
      BY <2>2, <2>4, <1>5
    <3> DEFINE i == m - 1
    <3>4. i \in Nat /\ i + 1 <= Len(b) /\ IsOf(out[i], b, i) /\ i + 1 = m
      BY <3>1, <3>2
    <3> HIDE DEF i
    <3>5. IsOf(WithCommand(out[i], b, i + 1), b, i + 1)
      BY <3>4, GoesOn
    <3> QED BY <2>2, <3>3, <3>4, <3>5 DEF i
  <2> QED BY <2>3, <2>4
<1>7. Len(b) \in 0..Len(b)
  BY <1>1
<1> QED BY <1>4, <1>6, <1>7

WriterTypes ==
    /\ channel \in Seq(Commands) /\ coalesced \in Seq(Outgoing) /\ count \in 0..MaxGiven
    /\ unwritten \in [Sessions -> Seq(Commands)]
    /\ arrived \in [Sessions -> Seq(Commands)]

\* Commands are numbered as they are given, in the queues and on their way.
IdsGrow ==
    /\ Rises(channel)
    /\ \A i \in 1..Len(channel) : channel[i].id <= count
    /\ IdsRise(coalesced)
    /\ \A f \in 1..Len(coalesced) : \A k \in 1..Len(coalesced[f].ids) :
           \A i \in 1..Len(channel) : coalesced[f].ids[k] < channel[i].id
    /\ \A s \in Sessions :
           /\ Rises(unwritten[s])
           /\ \A n \in 1..Len(unwritten[s]) :
                  unwritten[s][n].session = s /\ unwritten[s][n].id <= count

\* A command is in its session's queue.
Queued(qs, c) == \E n \in 1..Len(qs[c.session]) : qs[c.session][n] = c

AllQueued(ch, out, qs) ==
    /\ \A i \in 1..Len(ch) : Queued(qs, ch[i])
    /\ \A f \in 1..Len(out) :
           /\ out[f].ids # <<>>
           /\ \A k \in 1..Len(out[f].ids) : Queued(qs, CarriedAt(out[f], k))

NoneIsInvented == AllQueued(channel, coalesced, unwritten)

\* A queued command is on its way, or a later resize stands for it.
OnItsWay(ch, out, q, n) ==
    \/ \E i \in 1..Len(ch) : ch[i] = q[n]
    \/ \E f \in 1..Len(out) : \E k \in 1..Len(out[f].ids) : CarriedAt(out[f], k) = q[n]
    \/ Promise!Superseded(q, n)

AllOnTheirWay(ch, out, qs) ==
    \A s \in Sessions : \A n \in 1..Len(qs[s]) : OnItsWay(ch, out, qs[s], n)

NoneIsLost == AllOnTheirWay(channel, coalesced, unwritten)

\* The inductive invariant of the writer.
WriterInv == WriterTypes /\ IdsGrow /\ NoneIsInvented /\ NoneIsLost

(* At first nothing is given.                                                *)
LEMMA WriterStarts == ASSUME WriterInit PROVE WriterInv /\ Promise!Init
<1>1. /\ channel = <<>> /\ coalesced = <<>> /\ Len(channel) = 0 /\ Len(coalesced) = 0
      /\ \A s \in Sessions : unwritten[s] = <<>> /\ Len(unwritten[s]) = 0
  BY EmptySeq DEF WriterInit
<1>2. /\ (\A i \in 1..Len(channel) : FALSE) /\ (\A i \in 1..Len(coalesced) : FALSE)
      /\ \A s \in Sessions : \A i \in 1..Len(unwritten[s]) : FALSE
  BY <1>1
<1>3. WriterTypes
  BY EmptySeq, WriterAssumption DEF WriterInit, WriterTypes
<1>4. IdsGrow
  BY <1>2 DEF IdsGrow, Rises, IdsRise
<1>5. NoneIsInvented /\ NoneIsLost
  BY <1>2 DEF NoneIsInvented, NoneIsLost, AllQueued, AllOnTheirWay
<1> QED BY <1>3, <1>4, <1>5 DEF WriterInv, WriterInit, Promise!Init

(* Send: the command is given, and is on its way.                            *)
LEMMA SendGives ==
    ASSUME WriterInv, NEW s \in Sessions, NEW op \in Ops, Send(s, op)
    PROVE  WriterInv' /\ Promise!Next
<1> DEFINE c == [session |-> s, op |-> op, id |-> count + 1]
<1>1. /\ count' = count + 1 /\ count < MaxGiven /\ count \in 0..MaxGiven
      /\ channel' = Append(channel, c)
      /\ unwritten' = [unwritten EXCEPT ![s] = Append(unwritten[s], c)]
      /\ coalesced' = coalesced /\ arrived' = arrived
  BY DEF Send, WriterInv, WriterTypes
<1>2. c \in Commands /\ c.session = s /\ c.id = count + 1
  BY <1>1, WriterAssumption DEF Commands
<1> HIDE DEF c
<1>3. channel \in Seq(Commands) /\ coalesced \in Seq(Outgoing)
      /\ unwritten \in [Sessions -> Seq(Commands)] /\ arrived \in [Sessions -> Seq(Commands)]
      /\ \A x \in Sessions : unwritten[x] \in Seq(Commands)
  BY DEF WriterInv, WriterTypes
<1> DEFINE q == unwritten[s]
<1> DEFINE nq == Append(unwritten[s], c)
<1> DEFINE nch == Append(channel, c)
<1>4. /\ nch \in Seq(Commands) /\ Len(nch) = Len(channel) + 1 /\ nch[Len(channel) + 1] = c
      /\ \A i \in 1..Len(channel) : nch[i] = channel[i]
      /\ nq \in Seq(Commands) /\ Len(nq) = Len(q) + 1 /\ nq[Len(q) + 1] = c
      /\ \A i \in 1..Len(q) : nq[i] = q[i]
  BY <1>2, <1>3, AppendProperties
<1>5. Len(channel) \in Nat /\ Len(q) \in Nat
  BY <1>3
<1> HIDE DEF nq, nch, q
<1>6. /\ \A i \in 1..Len(nch) : i \in 1..Len(channel) \/ i = Len(channel) + 1
      /\ \A i \in 1..Len(channel) : i \in 1..Len(nch) /\ i < Len(channel) + 1
      /\ Len(channel) + 1 \in 1..Len(nch)
      /\ \A i \in 1..Len(q) : i \in 1..Len(nq) /\ i < Len(q) + 1
      /\ \A i \in 1..Len(nq) : i \in 1..Len(q) \/ i = Len(q) + 1
      /\ Len(q) + 1 \in 1..Len(nq)
  BY <1>4, <1>5
<1>7. /\ channel' = nch /\ unwritten'[s] = nq /\ unwritten[s] = q
      /\ \A x \in Sessions : x # s => unwritten'[x] = unwritten[x]
      /\ unwritten' \in [Sessions -> Seq(Commands)]
  BY <1>1, <1>3, <1>4 DEF nch, nq, q
<1>8. WriterTypes'
  BY <1>1, <1>3, <1>4, <1>7, WriterAssumption DEF WriterTypes
<1>9. IdsGrow /\ NoneIsInvented /\ NoneIsLost
  BY DEF WriterInv
<1>10. ASSUME NEW n \in 1..count PROVE n <= count + 1 /\ n < count + 1
  BY <1>1
<1>11. /\ \A i \in 1..Len(channel) : channel[i].id <= count /\ channel[i].id \in Nat
       /\ \A x \in Sessions : \A n \in 1..Len(unwritten[x]) :
              unwritten[x][n].id <= count /\ unwritten[x][n].id \in Nat
  <2>1. \A d \in Commands : d.id \in Nat
    BY WriterAssumption DEF Commands
  <2>2. \A i \in 1..Len(channel) : channel[i] \in Commands
    BY <1>3
  <2>3. \A x \in Sessions : \A n \in 1..Len(unwritten[x]) : unwritten[x][n] \in Commands
    BY <1>3
  <2> QED BY <2>1, <2>2, <2>3, <1>9 DEF IdsGrow
<1>12. IdsGrow'
  <2>1. Rises(nch)
    <3> SUFFICES ASSUME NEW i \in 1..Len(nch), NEW j \in 1..Len(nch), i < j
                 PROVE  nch[i].id < nch[j].id
      BY DEF Rises
    <3>1. CASE j \in 1..Len(channel)
      <4>1. i \in 1..Len(channel)
        BY <3>1, <1>5, <1>6
      <4>2. nch[i] = channel[i] /\ nch[j] = channel[j]
        BY <3>1, <4>1, <1>4
      <4> QED BY <3>1, <4>1, <4>2, <1>9 DEF IdsGrow, Rises
    <3>2. CASE j = Len(channel) + 1
      <4>1. i \in 1..Len(channel)
        BY <3>2, <1>5, <1>6
      <4>2. nch[i] = channel[i] /\ nch[j] = c
        BY <3>2, <4>1, <1>4
      <4> QED BY <4>1, <4>2, <1>2, <1>11, <1>1
    <3> QED BY <3>1, <3>2, <1>6
  <2>2. \A i \in 1..Len(nch) : nch[i].id <= count + 1
    <3> SUFFICES ASSUME NEW i \in 1..Len(nch) PROVE nch[i].id <= count + 1
      OBVIOUS
    <3>1. CASE i \in 1..Len(channel)
      BY <3>1, <1>1, <1>4, <1>11
    <3>2. CASE i = Len(channel) + 1
      BY <3>2, <1>1, <1>2, <1>4
    <3> QED BY <3>1, <3>2, <1>6
  <2>3. ASSUME NEW f \in 1..Len(coalesced), NEW k \in 1..Len(coalesced[f].ids), NEW i \in 1..Len(nch)
        PROVE  coalesced[f].ids[k] < nch[i].id
    <3>1. CASE i \in 1..Len(channel)
      BY <3>1, <1>4, <1>9 DEF IdsGrow
    <3>2. CASE i = Len(channel) + 1
      <4> DEFINE d == CarriedAt(coalesced[f], k)
      <4>1. d.id = coalesced[f].ids[k] /\ d.session \in Sessions
        <5>1. coalesced[f] \in Outgoing
          BY <1>3
        <5> QED BY <5>1 DEF CarriedAt, Outgoing
      <4>2. PICK n \in 1..Len(unwritten[d.session]) : unwritten[d.session][n] = d
        BY <1>9 DEF NoneIsInvented, AllQueued, Queued
      <4> HIDE DEF d
      <4>3. d.id <= count /\ d.id \in Nat
        BY <4>1, <4>2, <1>11
      <4>4. nch[i].id = count + 1
        BY <3>2, <1>2, <1>4
      <4> QED BY <4>1, <4>3, <4>4, <1>1
    <3> QED BY <3>1, <3>2, <1>6
  <2>4. ASSUME NEW x \in Sessions
        PROVE  /\ Rises(unwritten'[x])
               /\ \A n \in 1..Len(unwritten'[x]) :
                      unwritten'[x][n].session = x /\ unwritten'[x][n].id <= count + 1
    <3>1. CASE x # s
      <4>1. unwritten'[x] = unwritten[x] /\ Rises(unwritten[x])
        BY <3>1, <1>7, <1>9 DEF IdsGrow
      <4>2. \A n \in 1..Len(unwritten[x]) : unwritten[x][n].session = x
        BY <1>9 DEF IdsGrow
      <4>3. \A n \in 1..Len(unwritten[x]) : unwritten[x][n].id <= count + 1
        BY <1>1, <1>11
      <4> QED BY <4>1, <4>2, <4>3
    <3>2. CASE x = s
      <4>1. Rises(nq)
        <5> SUFFICES ASSUME NEW i \in 1..Len(nq), NEW j \in 1..Len(nq), i < j
                     PROVE  nq[i].id < nq[j].id
          BY DEF Rises
        <5>1. CASE j \in 1..Len(q)
          <6>1. i \in 1..Len(q)
            BY <5>1, <1>5, <1>6
          <6>2. nq[i] = q[i] /\ nq[j] = q[j]
            BY <5>1, <6>1, <1>4
          <6> QED BY <5>1, <6>1, <6>2, <1>9 DEF IdsGrow, Rises, q
        <5>2. CASE j = Len(q) + 1
          <6>1. i \in 1..Len(q)
            BY <5>2, <1>5, <1>6
          <6>2. nq[i] = q[i] /\ nq[j] = c
            BY <5>2, <6>1, <1>4
          <6>3. q[i].id <= count /\ q[i].id \in Nat
            BY <6>1, <1>7, <1>11
          <6> QED BY <6>2, <6>3, <1>1, <1>2
        <5> QED BY <5>1, <5>2, <1>6
      <4>2. \A n \in 1..Len(nq) : nq[n].session = s /\ nq[n].id <= count + 1
        <5> SUFFICES ASSUME NEW n \in 1..Len(nq)
                     PROVE  nq[n].session = s /\ nq[n].id <= count + 1
          OBVIOUS
        <5>1. CASE n \in 1..Len(q)
          <6>1. q[n].id <= count /\ q[n].id \in Nat
            BY <5>1, <1>7, <1>11
          <6>2. q[n].session = s
            BY <5>1, <1>7, <1>9 DEF IdsGrow
          <6> QED BY <5>1, <6>1, <6>2, <1>1, <1>4
        <5>2. CASE n = Len(q) + 1
          BY <5>2, <1>1, <1>2, <1>4
        <5> QED BY <5>1, <5>2, <1>6
      <4> QED BY <3>2, <4>1, <4>2, <1>7
    <3> QED BY <3>1, <3>2
  <2>5. IdsRise(coalesced)
    BY <1>9 DEF IdsGrow
  <2> QED BY <2>1, <2>2, <2>3, <2>4, <2>5, <1>1, <1>7 DEF IdsGrow
<1>13. ASSUME NEW d, d.session \in Sessions, Queued(unwritten, d)
       PROVE  Queued(unwritten', d)
  <2>1. PICK n \in 1..Len(unwritten[d.session]) : unwritten[d.session][n] = d
    BY <1>13 DEF Queued
  <2>2. CASE d.session # s
    BY <2>1, <2>2, <1>7, <1>13 DEF Queued
  <2>3. CASE d.session = s
    <3>1. n \in 1..Len(nq) /\ nq[n] = d
      BY <2>1, <2>3, <1>4, <1>6, <1>7
    <3> QED BY <2>3, <3>1, <1>7 DEF Queued
  <2> QED BY <2>2, <2>3
<1>14. NoneIsInvented'
  <2>1. ASSUME NEW i \in 1..Len(nch)
        PROVE  Queued(unwritten', nch[i])
    <3>1. CASE i \in 1..Len(channel)
      <4>1. nch[i] = channel[i] /\ channel[i] \in Commands /\ Queued(unwritten, channel[i])
        BY <3>1, <1>3, <1>4, <1>9 DEF NoneIsInvented, AllQueued
      <4>2. channel[i].session \in Sessions
        BY <4>1 DEF Commands
      <4> QED BY <4>1, <4>2, <1>13
    <3>2. CASE i = Len(channel) + 1
      <4>1. nch[i] = c /\ unwritten'[c.session] = nq /\ nq[Len(q) + 1] = c
        BY <3>2, <1>2, <1>4, <1>7
      <4> QED BY <4>1, <1>6 DEF Queued
    <3> QED BY <3>1, <3>2, <1>6
  <2>2. ASSUME NEW f \in 1..Len(coalesced), NEW k \in 1..Len(coalesced[f].ids)
        PROVE  Queued(unwritten', CarriedAt(coalesced[f], k))
    <3>1. Queued(unwritten, CarriedAt(coalesced[f], k))
      BY <1>9 DEF NoneIsInvented, AllQueued
    <3>2. coalesced[f] \in Outgoing
      BY <1>3
    <3>3. CarriedAt(coalesced[f], k).session \in Sessions
      BY <3>2 DEF CarriedAt, Outgoing
    <3> QED BY <3>1, <3>3, <1>13
  <2>3. \A f \in 1..Len(coalesced) : coalesced[f].ids # <<>>
    BY <1>9 DEF NoneIsInvented, AllQueued
  <2>4. AllQueued(nch, coalesced, unwritten')
    BY <2>1, <2>2, <2>3 DEF AllQueued
  <2> QED BY <2>4, <1>1, <1>7 DEF NoneIsInvented
<1>15. NoneIsLost'
  <2> SUFFICES ASSUME NEW x \in Sessions, NEW n \in 1..Len(unwritten'[x])
               PROVE  OnItsWay(nch, coalesced, unwritten'[x], n)
    <3>1. channel' = nch /\ coalesced' = coalesced
      BY <1>1, <1>7
    <3> QED BY <3>1 DEF NoneIsLost, AllOnTheirWay
  <2>1. CASE x = s /\ n = Len(q) + 1
    <3>1. unwritten'[x][n] = c /\ nch[Len(channel) + 1] = c
      BY <2>1, <1>4, <1>7
    <3> QED BY <3>1, <1>6 DEF OnItsWay
  <2>2. CASE ~(x = s /\ n = Len(q) + 1)
    <3>1. n \in 1..Len(unwritten[x]) /\ unwritten'[x][n] = unwritten[x][n]
      <4>1. CASE x = s
        BY <2>2, <4>1, <1>4, <1>6, <1>7
      <4>2. CASE x # s
        BY <4>2, <1>7
      <4> QED BY <4>1, <4>2
    <3>2. CASE \E i \in 1..Len(channel) : channel[i] = unwritten[x][n]
      <4>1. PICK i \in 1..Len(channel) : channel[i] = unwritten[x][n]
        BY <3>2
      <4> QED BY <4>1, <3>1, <1>4, <1>6 DEF OnItsWay
    <3>3. CASE \E f \in 1..Len(coalesced) : \E k \in 1..Len(coalesced[f].ids) :
                   CarriedAt(coalesced[f], k) = unwritten[x][n]
      BY <3>1, <3>3 DEF OnItsWay
    <3>4. CASE Promise!Superseded(unwritten[x], n)
      <4>1. PICK j \in (n + 1)..Len(unwritten[x]) : unwritten[x][j].op = "Resize"
        BY <3>4 DEF Promise!Superseded
      <4>2. unwritten[x][n].op = "Resize"
        BY <3>4 DEF Promise!Superseded
      <4>3. j \in 1..Len(unwritten[x]) /\ Len(unwritten[x]) \in Nat /\ n \in Nat
        BY <3>1, <1>3
      <4>4. j \in (n + 1)..Len(unwritten'[x]) /\ unwritten'[x][j] = unwritten[x][j]
        <5>1. CASE x = s
          BY <4>1, <4>3, <5>1, <1>4, <1>6, <1>7
        <5>2. CASE x # s
          BY <4>1, <5>2, <1>7
        <5> QED BY <5>1, <5>2
      <4>5. Promise!Superseded(unwritten'[x], n)
        BY <3>1, <4>1, <4>2, <4>4 DEF Promise!Superseded
      <4> QED BY <4>5 DEF OnItsWay
    <3> QED BY <3>1, <3>2, <3>3, <3>4, <1>9 DEF NoneIsLost, AllOnTheirWay, OnItsWay
  <2> QED BY <2>1, <2>2
<1>16. Promise!Next
  <2>1. unwritten' = [unwritten EXCEPT ![c.session] = Append(@, c)] /\ arrived' = arrived
    BY <1>1, <1>2
  <2> QED BY <2>1, <1>2 DEF Promise!Next, Promise!Give
<1> QED BY <1>8, <1>12, <1>14, <1>15, <1>16 DEF WriterInv

(* In a queue whose ids rise, the id tells the place.                        *)
LEMMA IdsTellPlaces ==
    ASSUME NEW q \in Seq(Commands), Rises(q), NEW m \in 1..Len(q), NEW n \in 1..Len(q)
    PROVE  /\ q[n].id \in Nat
           /\ q[n].id < q[m].id => n < m
           /\ q[n].id <= q[m].id => n <= m
           /\ q[n].id = q[m].id => n = m
<1>1. Len(q) \in Nat /\ m \in Nat /\ n \in Nat /\ q[m] \in Commands /\ q[n] \in Commands
  OBVIOUS
<1>2. q[n].id \in Nat /\ q[m].id \in Nat
  BY <1>1, WriterAssumption DEF Commands
<1>3. (m < n => q[m].id < q[n].id) /\ (n < m => q[n].id < q[m].id)
  BY DEF Rises
<1> QED BY <1>1, <1>2, <1>3

(* TakeBatch: nothing is given or delivered, and nothing leaves its way but  *)
(* a resize with a later one in the batch.                                   *)
LEMMA TakeBatchStutters ==
    ASSUME WriterInv, TakeBatch
    PROVE  WriterInv' /\ UNCHANGED Promise!orderVars
<1> DEFINE b == channel
<1> DEFINE out == CoalesceOutgoing(channel)
<1>1. /\ coalesced = <<>> /\ channel' = <<>> /\ coalesced' = out
      /\ count' = count /\ unwritten' = unwritten /\ arrived' = arrived
  BY DEF TakeBatch
<1>2. WriterTypes /\ IdsGrow /\ NoneIsInvented /\ NoneIsLost
  BY DEF WriterInv
<1>3. b \in Seq(Commands) /\ Rises(b) /\ Len(b) \in Nat
  BY <1>2 DEF WriterTypes, IdsGrow
<1>4. IsOf(out, b, Len(b))
  BY <1>3, Coalesces
<1> HIDE DEF b, out
<1>5. Len(<<>>) = 0 /\ (\A i \in 1..Len(<<>>) : FALSE)
  BY EmptySeq
<1>6. WriterTypes'
  BY <1>1, <1>2, <1>4, EmptySeq DEF WriterTypes, IsOf
<1>7. IdsGrow'
  <2>1. Rises(<<>>)
    BY <1>5 DEF Rises
  <2>2. IdsRise(out)
    BY <1>4 DEF IsOf
  <2> QED BY <1>1, <1>2, <1>5, <2>1, <2>2 DEF IdsGrow
<1>8. NoneIsInvented'
  <2>1. ASSUME NEW f \in 1..Len(out), NEW k \in 1..Len(out[f].ids)
        PROVE  Queued(unwritten, CarriedAt(out[f], k))
    <3>1. PICK j \in 1..Len(b) : b[j] = CarriedAt(out[f], k)
      BY <1>4 DEF IsOf
    <3>2. Queued(unwritten, b[j])
      BY <1>2 DEF NoneIsInvented, AllQueued, b
    <3> QED BY <3>1, <3>2
  <2>2. \A f \in 1..Len(out) : out[f].ids # <<>>
    BY <1>4 DEF IsOf
  <2>3. AllQueued(<<>>, out, unwritten)
    BY <1>5, <2>1, <2>2 DEF AllQueued
  <2> QED BY <1>1, <2>3 DEF NoneIsInvented
<1>9. NoneIsLost'
  <2> SUFFICES ASSUME NEW s \in Sessions, NEW n \in 1..Len(unwritten[s])
               PROVE  OnItsWay(<<>>, out, unwritten[s], n)
    BY <1>1 DEF NoneIsLost, AllOnTheirWay
  <2> DEFINE q == unwritten[s]
  <2>1. OnItsWay(b, <<>>, q, n)
    BY <1>1, <1>2 DEF NoneIsLost, AllOnTheirWay, b
  <2>2. CASE Promise!Superseded(q, n)
    BY <2>2 DEF OnItsWay
  <2>3. CASE \E i \in 1..Len(b) : b[i] = q[n]
    <3>1. PICK i \in 1..Len(b) : b[i] = q[n]
      BY <2>3
    <3>2. CASE Kept(b, i)
      <4>1. PICK f \in 1..Len(out) : \E k \in 1..Len(out[f].ids) : b[i] = CarriedAt(out[f], k)
        BY <3>2, <1>4 DEF IsOf
      <4>2. PICK k \in 1..Len(out[f].ids) : b[i] = CarriedAt(out[f], k)
        BY <4>1
      <4> QED BY <3>1, <4>2 DEF OnItsWay
    <3>3. CASE ~Kept(b, i)
      <4>1. b[i].op = "Resize"
        BY <3>3 DEF Kept
      <4>2. PICK j \in (i + 1)..Len(b) : b[j].op = "Resize" /\ b[j].session = b[i].session
        BY <3>3 DEF Kept, LastResize
      <4>3. j \in 1..Len(b) /\ i < j
        BY <1>3
      <4>4. b[i].session = s
        BY <3>1, <1>2 DEF IdsGrow
      <4>5. Queued(unwritten, b[j])
        BY <1>2, <4>3 DEF NoneIsInvented, AllQueued, b
      <4>6. PICK m \in 1..Len(q) : q[m] = b[j]
        BY <4>2, <4>4, <4>5 DEF Queued
      <4>7. b[i].id < b[j].id
        BY <4>3, <1>3 DEF Rises
      <4>8. q[n].id < q[m].id
        BY <3>1, <4>6, <4>7
      <4>9. n < m
        <5>1. Rises(q) /\ q \in Seq(Commands)
          BY <1>2 DEF IdsGrow, WriterTypes
        <5>2. n \in 1..Len(q)
          OBVIOUS
        <5> HIDE DEF q
        <5> QED BY <4>8, <5>1, <5>2, IdsTellPlaces
      <4>10. m \in (n + 1)..Len(q)
        <5>1. q \in Seq(Commands)
          BY <1>2 DEF WriterTypes
        <5>2. Len(q) \in Nat
          BY <5>1
        <5> HIDE DEF q
        <5>3. n \in 1..Len(q)
          BY DEF q
        <5> QED BY <4>9, <5>2, <5>3
      <4>11. Promise!Superseded(q, n)
        BY <3>1, <4>1, <4>2, <4>6, <4>10 DEF Promise!Superseded
      <4> QED BY <4>11 DEF OnItsWay
    <3> QED BY <3>2, <3>3
  <2> QED BY <2>1, <2>2, <2>3, <1>5 DEF OnItsWay
<1> QED BY <1>1, <1>6, <1>7, <1>8, <1>9 DEF WriterInv, Promise!orderVars

(* The frame that is written next, its session's queue and its last command. *)
LEMMA TheFrame ==
    ASSUME WriterInv, coalesced # <<>>
    PROVE  LET f == Head(coalesced)
               q == unwritten[f.session]
           IN  /\ f = coalesced[1] /\ 1 \in 1..Len(coalesced) /\ f \in Outgoing
               /\ f.session \in Sessions /\ q \in Seq(Commands) /\ Rises(q)
               /\ f.ids \in Seq(1..MaxGiven) /\ Len(f.ids) \in Nat \ {0}
               /\ PlaceOf(f) \in 1..Len(q) /\ q[PlaceOf(f)] = CarriedAt(f, Len(f.ids))
               /\ \A k \in 1..Len(f.ids) : \E n \in 1..Len(q) : q[n] = CarriedAt(f, k)
<1> DEFINE f == Head(coalesced)
<1> DEFINE q == unwritten[f.session]
<1>1. WriterTypes /\ IdsGrow /\ NoneIsInvented
  BY DEF WriterInv
<1>2. f = coalesced[1] /\ 1 \in 1..Len(coalesced) /\ f \in Outgoing
  BY <1>1 DEF WriterTypes
<1> HIDE DEF f
<1>3. f.session \in Sessions /\ f.ids \in Seq(1..MaxGiven) /\ f.ids # <<>>
  BY <1>1, <1>2 DEF Outgoing, NoneIsInvented, AllQueued
<1>4. Len(f.ids) \in Nat \ {0} /\ Len(f.ids) \in 1..Len(f.ids)
  BY <1>3
<1>5. q \in Seq(Commands) /\ Rises(q)
  BY <1>1, <1>3 DEF WriterTypes, IdsGrow
<1>6. \A k \in 1..Len(f.ids) : \E n \in 1..Len(q) : q[n] = CarriedAt(f, k)
  <2> SUFFICES ASSUME NEW k \in 1..Len(f.ids) PROVE \E n \in 1..Len(q) : q[n] = CarriedAt(f, k)
    OBVIOUS
  <2>1. Queued(unwritten, CarriedAt(f, k))
    BY <1>1, <1>2 DEF NoneIsInvented, AllQueued
  <2>2. CarriedAt(f, k).session = f.session
    BY DEF CarriedAt
  <2> QED BY <2>1, <2>2 DEF Queued
<1>7. PICK n \in 1..Len(q) : q[n] = CarriedAt(f, Len(f.ids))
  BY <1>4, <1>6
<1>8. q[n].id = f.ids[Len(f.ids)]
  BY <1>7 DEF CarriedAt
<1>9. PlaceOf(f) = CHOOSE m \in 1..Len(q) : q[m].id = f.ids[Len(f.ids)]
  BY DEF PlaceOf
<1> HIDE DEF q
<1>10. PlaceOf(f) \in 1..Len(q) /\ q[PlaceOf(f)].id = f.ids[Len(f.ids)]
  BY <1>8, <1>9
<1>11. PlaceOf(f) = n
  <2> DEFINE m == PlaceOf(f)
  <2>1. m \in 1..Len(q) /\ q[m].id = q[n].id
    BY <1>8, <1>10
  <2> HIDE DEF m
  <2>2. m = n
    BY <2>1, <1>5, IdsTellPlaces
  <2> QED BY <2>2 DEF m
<1> QED BY <1>2, <1>3, <1>4, <1>5, <1>6, <1>7, <1>10, <1>11 DEF f, q

(* Rising places are no nearer than their rank: a frame carries no more       *)
(* commands than it deals with.                                              *)
LEMMA PlacesAreFar ==
    ASSUME NEW k \in Nat, NEW n \in Nat, NEW at \in [1..k -> 1..n],
           \A i, j \in 1..k : i < j => at[i] < at[j]
    PROVE  k <= n
<1> DEFINE T == {i \in 1..k : at[i] < i}
<1> SUFFICES ASSUME n < k PROVE FALSE
  OBVIOUS
<1>1. k \in 1..k /\ at[k] \in 1..n
  OBVIOUS
<1>2. at[k] < k
  BY <1>1
<1>3. k \in T /\ T \subseteq Nat
  BY <1>1, <1>2
<1>4. PICK m \in T : \A i \in T : ~(i < m)
  <2> HIDE DEF T
  <2> QED BY <1>3, Least
<1>5. m \in 1..k /\ at[m] \in 1..n /\ at[m] < m
  OBVIOUS
<1>6. m - 1 \in 1..k /\ m - 1 < m
  BY <1>5
<1>7. at[m - 1] \in 1..n /\ at[m - 1] < at[m]
  BY <1>5, <1>6
<1>8. at[m - 1] < m - 1
  BY <1>5, <1>6, <1>7
<1>9. m - 1 \in T
  BY <1>6, <1>8
<1> QED BY <1>4, <1>6, <1>9

(* WriteFrame: the frame's commands are delivered, and what is left out for  *)
(* good has a later resize.                                                  *)
LEMMA WriteFrameDelivers ==
    ASSUME WriterInv, WriteFrame
    PROVE  Promise!Next
<1> DEFINE f == Head(coalesced)
<1> DEFINE s == f.session
<1> DEFINE q == unwritten[s]
<1> DEFINE n == PlaceOf(f)
<1> DEFINE k == Len(f.ids)
<1>1. /\ coalesced # <<>>
      /\ arrived' = [arrived EXCEPT ![s] = @ \o Carried(f)]
      /\ unwritten' = [unwritten EXCEPT ![s] = SubSeq(@, n + 1, Len(@))]
  BY DEF WriteFrame
<1>2. IdsGrow /\ NoneIsLost
  BY DEF WriterInv
<1>3. /\ f = coalesced[1] /\ 1 \in 1..Len(coalesced) /\ f \in Outgoing /\ s \in Sessions
      /\ q \in Seq(Commands) /\ Rises(q) /\ f.ids \in Seq(1..MaxGiven) /\ k \in Nat \ {0}
      /\ n \in 1..Len(q) /\ q[n] = CarriedAt(f, k)
      /\ \A j \in 1..k : \E m \in 1..Len(q) : q[m] = CarriedAt(f, j)
  BY <1>1, TheFrame
<1>4. Len(q) \in Nat /\ n \in Nat /\ k \in 1..k
  BY <1>3
<1>5. WriterTypes /\ coalesced \in Seq(Outgoing)
  BY DEF WriterInv, WriterTypes
<1> DEFINE at == [j \in 1..k |-> CHOOSE m \in 1..Len(q) : q[m] = CarriedAt(f, j)]
<1>6. \A j \in 1..k : at[j] \in 1..Len(q) /\ q[at[j]] = CarriedAt(f, j)
  <2> SUFFICES ASSUME NEW j \in 1..k PROVE at[j] \in 1..Len(q) /\ q[at[j]] = CarriedAt(f, j)
    OBVIOUS
  <2>1. \E m \in 1..Len(q) : q[m] = CarriedAt(f, j)
    BY <1>3
  <2>2. at[j] = CHOOSE m \in 1..Len(q) : q[m] = CarriedAt(f, j)
    OBVIOUS
  <2> HIDE DEF at, q, f, k
  <2> QED BY <2>1, <2>2
<1>7. DOMAIN at = 1..k /\ at = [j \in 1..k |-> at[j]]
  OBVIOUS
<1> HIDE DEF at, f, s, q, n, k
<1>8. \A j \in 1..k : q[at[j]].id = f.ids[j]
  <2>1. \A j \in 1..k : CarriedAt(f, j).id = f.ids[j]
    BY DEF CarriedAt
  <2> QED BY <2>1, <1>6
<1>9. \A i, j \in 1..k : i < j => f.ids[i] < f.ids[j]
  BY <1>2, <1>3 DEF IdsGrow, IdsRise, k
<1>10. \A i, j \in 1..k : i < j => at[i] < at[j]
  <2> SUFFICES ASSUME NEW i \in 1..k, NEW j \in 1..k, i < j PROVE at[i] < at[j]
    OBVIOUS
  <2> DEFINE x == at[i]
  <2> DEFINE y == at[j]
  <2>1. x \in 1..Len(q) /\ y \in 1..Len(q) /\ q[x].id < q[y].id
    BY <1>6, <1>8, <1>9
  <2> HIDE DEF x, y
  <2>2. x < y
    BY <2>1, <1>3, IdsTellPlaces
  <2> QED BY <2>2 DEF x, y
<1>11. at[k] = n
  <2> DEFINE x == at[k]
  <2>1. x \in 1..Len(q) /\ q[x].id = q[n].id
    BY <1>3, <1>4, <1>6
  <2> HIDE DEF x
  <2>2. x = n
    BY <2>1, <1>3, IdsTellPlaces
  <2> QED BY <2>2 DEF x
<1>12. at \in [1..k -> 1..n]
  <2>1. ASSUME NEW j \in 1..k PROVE at[j] \in 1..n
    <3>1. at[j] \in Nat /\ 1 <= at[j]
      BY <1>4, <1>6
    <3>2. CASE j = k
      BY <3>1, <3>2, <1>11, <1>4
    <3>3. CASE j # k
      <4>1. j < k
        BY <3>3, <1>3
      <4>2. at[j] < at[k]
        BY <4>1, <1>4, <1>10
      <4> QED BY <3>1, <4>2, <1>11, <1>4
    <3> QED BY <3>2, <3>3
  <2> QED BY <2>1, <1>7
<1>13. k \in 0..n
  <2>1. k <= n
    BY <1>3, <1>4, <1>10, <1>12, PlacesAreFar
  <2> QED BY <2>1, <1>3, <1>4
<1>14. ASSUME NEW i \in 1..n PROVE Promise!Superseded(q, i) \/ \E j \in 1..k : at[j] = i
  <2>1. i \in 1..Len(q) /\ i <= n
    BY <1>3, <1>4
  <2>2. q[i].id <= q[n].id /\ q[i].id \in Nat /\ q[n].id \in Nat
    <3>1. i < n => q[i].id < q[n].id
      BY <2>1, <1>3 DEF Rises
    <3>2. q[i].id \in Nat /\ q[n].id \in Nat
      BY <2>1, <1>3, IdsTellPlaces
    <3>3. i = n \/ i < n
      BY <1>4
    <3> QED BY <3>1, <3>2, <3>3
  <2>3. q[n].id = f.ids[k]
    BY <1>3 DEF CarriedAt
  <2>4. OnItsWay(channel, coalesced, q, i)
    BY <2>1, <1>2, <1>3 DEF NoneIsLost, AllOnTheirWay, q
  <2>5. ASSUME NEW j \in 1..Len(channel), channel[j] = q[i] PROVE FALSE
    <3>1. f.ids[k] < q[i].id
      BY <2>5, <1>2, <1>3, <1>4 DEF IdsGrow, k
    <3> QED BY <3>1, <2>2, <2>3
  <2>6. ASSUME NEW g \in 1..Len(coalesced), NEW l \in 1..Len(coalesced[g].ids),
               CarriedAt(coalesced[g], l) = q[i]
        PROVE  \E j \in 1..k : at[j] = i
    <3>1. coalesced[g].ids[l] = q[i].id
      BY <2>6 DEF CarriedAt
    <3>2. CASE g = 1
      <4>1. l \in 1..k /\ f.ids[l] = q[i].id
        BY <3>1, <3>2, <1>3 DEF k
      <4> DEFINE x == at[l]
      <4>2. x \in 1..Len(q) /\ q[x].id = q[i].id
        BY <4>1, <1>6, <1>8
      <4> HIDE DEF x
      <4>3. x = i
        BY <4>2, <2>1, <1>3, IdsTellPlaces
      <4> QED BY <4>1, <4>3 DEF x
    <3>3. CASE g # 1
      <4>1. 1 < g
        BY <3>3, <1>5
      <4>2. coalesced[1].ids[k] < coalesced[g].ids[l]
        <5>1. k \in 1..Len(coalesced[1].ids)
          BY <1>3, <1>4 DEF k
        <5> QED BY <4>1, <5>1, <1>2, <1>3 DEF IdsGrow, IdsRise
      <4> QED BY <4>2, <3>1, <1>3, <2>2, <2>3
    <3> QED BY <3>2, <3>3
  <2> QED BY <2>4, <2>5, <2>6 DEF OnItsWay
<1>15. Carried(f) = [j \in 1..k |-> q[at[j]]]
  <2>1. Carried(f) = [j \in 1..k |-> CarriedAt(f, j)]
    BY DEF Carried, CarriedAt, k
  <2> QED BY <2>1, <1>6
<1>16. /\ arrived' = [arrived EXCEPT ![s] = @ \o [j \in 1..k |-> q[at[j]]]]
       /\ unwritten' = [unwritten EXCEPT ![s] = SubSeq(@, n + 1, Len(@))]
  BY <1>1, <1>15
<1>17. Promise!Deliver(s)
  <2>1. q = unwritten[s]
    BY DEF q
  <2>2. \A i \in 1..n : Promise!Superseded(unwritten[s], i) \/ \E j \in 1..k : at[j] = i
    BY <1>14, <2>1
  <2>3. n \in 1..Len(unwritten[s])
    BY <1>3, <2>1
  <2>4. arrived' = [arrived EXCEPT ![s] = @ \o [j \in 1..k |-> unwritten[s][at[j]]]]
    BY <1>16, <2>1
  <2> HIDE DEF Promise!Superseded
  <2> QED BY <1>10, <1>12, <1>13, <1>16, <2>2, <2>3, <2>4, ZenonT(60) DEF Promise!Deliver
<1> QED BY <1>3, <1>17 DEF Promise!Next

(* WriteFrame: what stays in the queue is still on its way.                  *)
LEMMA WriteFrameKeeps ==
    ASSUME WriterInv, WriteFrame
    PROVE  WriterInv'
<1> DEFINE f == Head(coalesced)
<1> DEFINE s == f.session
<1> DEFINE q == unwritten[s]
<1> DEFINE n == PlaceOf(f)
<1> DEFINE k == Len(f.ids)
<1> DEFINE rest == Tail(coalesced)
<1> DEFINE nq == SubSeq(q, n + 1, Len(q))
<1>1. /\ coalesced # <<>> /\ coalesced' = rest /\ channel' = channel /\ count' = count
      /\ arrived' = [arrived EXCEPT ![s] = @ \o Carried(f)]
      /\ unwritten' = [unwritten EXCEPT ![s] = nq]
  BY DEF WriteFrame
<1>2. WriterTypes /\ IdsGrow /\ NoneIsInvented /\ NoneIsLost
  BY DEF WriterInv
<1>3. /\ f = coalesced[1] /\ 1 \in 1..Len(coalesced) /\ f \in Outgoing /\ s \in Sessions
      /\ q \in Seq(Commands) /\ Rises(q) /\ f.ids \in Seq(1..MaxGiven) /\ k \in Nat \ {0}
      /\ n \in 1..Len(q) /\ q[n] = CarriedAt(f, k)
  BY <1>1, TheFrame
<1>4. Len(q) \in Nat /\ n \in Nat /\ k \in 1..k /\ n <= Len(q)
  BY <1>3
<1>5. coalesced \in Seq(Outgoing) /\ Len(coalesced) \in Nat /\ channel \in Seq(Commands)
  BY <1>2 DEF WriterTypes
<1>6. q[n].id = f.ids[k]
  BY <1>3 DEF CarriedAt
<1>7. /\ rest \in Seq(Outgoing) /\ Len(rest) = Len(coalesced) - 1
      /\ \A g \in 1..Len(rest) : rest[g] = coalesced[g + 1]
  BY <1>1, <1>5, HeadTailProperties
<1>8. \A g \in 1..Len(rest) : g + 1 \in 1..Len(coalesced) /\ 1 < g + 1
  BY <1>5, <1>7
<1>9. /\ nq \in Seq(Commands) /\ Len(nq) = Len(q) - n
      /\ \A i \in 1..Len(nq) : nq[i] = q[i + n]
  <2> HIDE DEF q, n
  <2>1. nq = SubSeq(q, n + 1, Len(q))
    OBVIOUS
  <2>2. n + 1 \in 1..(Len(q) + 1) /\ Len(q) \in (n + 1 - 1)..Len(q)
    BY <1>4, <1>3
  <2>3. nq \in Seq(Commands) /\ Len(nq) = Len(q) - n
    BY <1>3, <1>4
  <2>4. ASSUME NEW i \in 1..Len(nq) PROVE nq[i] = q[i + n]
    BY <1>3, <1>4, <2>3
  <2> QED BY <2>3, <2>4
<1> HIDE DEF nq, rest
<1>10. /\ unwritten'[s] = nq /\ \A x \in Sessions : x # s => unwritten'[x] = unwritten[x]
       /\ unwritten' \in [Sessions -> Seq(Commands)]
  BY <1>1, <1>2, <1>3, <1>9 DEF WriterTypes
<1>11. Carried(f) \in Seq(Commands)
  <2>1. \A j \in 1..k : [session |-> f.session, op |-> f.op, id |-> f.ids[j]] \in Commands
    <3>1. f.session \in Sessions /\ f.op \in Ops
      BY <1>3 DEF Outgoing
    <3>2. \A j \in 1..k : f.ids[j] \in 1..MaxGiven
      <4> DEFINE ids == f.ids
      <4> DEFINE S == 1..MaxGiven
      <4>1. ids \in Seq(S)
        BY <1>3
      <4> HIDE DEF ids, S
      <4>2. \A j \in 1..Len(ids) : ids[j] \in S
        BY <4>1
      <4> QED BY <4>2 DEF ids, S
    <3> QED BY <3>1, <3>2 DEF Commands
  <2> QED BY <2>1, <1>3 DEF Carried
<1>12. WriterTypes'
  <2>1. arrived' \in [Sessions -> Seq(Commands)]
    <3>1. arrived[s] \in Seq(Commands) /\ arrived \in [Sessions -> Seq(Commands)]
      BY <1>2, <1>3 DEF WriterTypes
    <3>2. arrived[s] \o Carried(f) \in Seq(Commands)
      BY <3>1, <1>11, ConcatProperties
    <3> QED BY <1>1, <3>1, <3>2
  <2> QED BY <2>1, <1>1, <1>2, <1>7, <1>10 DEF WriterTypes
<1> HIDE DEF f, s, q, n, k
<1>13. \A i \in 1..Len(nq) : i + n \in 1..Len(q) /\ n < i + n
  BY <1>4, <1>9
<1>14. ASSUME NEW i \in 1..Len(q), ~(i <= n)
       PROVE  i - n \in 1..Len(nq) /\ nq[i - n] = q[i]
  <2>1. i - n \in 1..Len(nq) /\ (i - n) + n = i
    BY <1>14, <1>4, <1>9
  <2> QED BY <2>1, <1>9
<1>15. IdsGrow'
  <2>1. IdsRise(rest)
    <3> SUFFICES ASSUME NEW g \in 1..Len(rest), NEW h \in 1..Len(rest),
                        NEW a \in 1..Len(rest[g].ids), NEW l \in 1..Len(rest[h].ids),
                        g < h \/ (g = h /\ a < l)
                 PROVE  rest[g].ids[a] < rest[h].ids[l]
      BY DEF IdsRise
    <3>1. rest[g] = coalesced[g + 1] /\ rest[h] = coalesced[h + 1]
      BY <1>7
    <3>2. g + 1 < h + 1 \/ (g + 1 = h + 1 /\ a < l)
      BY <1>7, <1>5
    <3> QED BY <3>1, <3>2, <1>8, <1>2 DEF IdsGrow, IdsRise
  <2>2. ASSUME NEW g \in 1..Len(rest), NEW l \in 1..Len(rest[g].ids), NEW i \in 1..Len(channel)
        PROVE  rest[g].ids[l] < channel[i].id
    <3>1. rest[g] = coalesced[g + 1] /\ g + 1 \in 1..Len(coalesced)
      BY <1>7, <1>8
    <3> QED BY <3>1, <1>2 DEF IdsGrow
  <2>3. ASSUME NEW x \in Sessions
        PROVE  /\ Rises(unwritten'[x])
               /\ \A i \in 1..Len(unwritten'[x]) :
                      unwritten'[x][i].session = x /\ unwritten'[x][i].id <= count
    <3>1. CASE x # s
      BY <3>1, <1>2, <1>10 DEF IdsGrow
    <3>2. CASE x = s
      <4>1. Rises(nq)
        <5> SUFFICES ASSUME NEW i \in 1..Len(nq), NEW j \in 1..Len(nq), i < j
                     PROVE  nq[i].id < nq[j].id
          BY DEF Rises
        <5>1. nq[i] = q[i + n] /\ nq[j] = q[j + n]
          BY <1>9
        <5>2. i + n < j + n
          BY <1>4, <1>9
        <5> QED BY <5>1, <5>2, <1>3, <1>13 DEF Rises
      <4>2. ASSUME NEW i \in 1..Len(nq) PROVE nq[i].session = s /\ nq[i].id <= count
        <5>1. nq[i] = q[i + n] /\ i + n \in 1..Len(q)
          BY <1>9, <1>13
        <5> QED BY <5>1, <1>2, <1>3 DEF IdsGrow, q
      <4> QED BY <3>2, <4>1, <4>2, <1>10
    <3> QED BY <3>1, <3>2
  <2> QED BY <2>1, <2>2, <2>3, <1>1, <1>2 DEF IdsGrow
<1>16. ASSUME NEW d, d.session \in Sessions, Queued(unwritten, d), f.ids[k] < d.id
       PROVE  Queued(unwritten', d)
  <2>1. PICK i \in 1..Len(unwritten[d.session]) : unwritten[d.session][i] = d
    BY <1>16 DEF Queued
  <2>2. CASE d.session # s
    BY <2>1, <2>2, <1>10, <1>16 DEF Queued
  <2>3. CASE d.session = s
    <3>1. i \in 1..Len(q) /\ q[i] = d
      BY <2>1, <2>3 DEF q
    <3>2. q[n].id < q[i].id
      BY <3>1, <1>6, <1>16
    <3>3. n < i
      BY <3>1, <3>2, <1>3, IdsTellPlaces
    <3>4. i - n \in 1..Len(nq) /\ nq[i - n] = d
      <4>1. ~(i <= n)
        BY <3>1, <3>3, <1>4
      <4> QED BY <4>1, <3>1, <1>14
    <3> QED BY <2>3, <3>4, <1>10 DEF Queued
  <2> QED BY <2>2, <2>3
<1>17. k \in 1..Len(coalesced[1].ids) /\ f.ids[k] = coalesced[1].ids[k]
  BY <1>3, <1>4 DEF k
<1>18. NoneIsInvented'
  <2>1. ASSUME NEW i \in 1..Len(channel) PROVE Queued(unwritten', channel[i])
    <3>1. channel[i] \in Commands /\ Queued(unwritten, channel[i])
      BY <1>2, <1>5 DEF NoneIsInvented, AllQueued
    <3>2. f.ids[k] < channel[i].id
      BY <1>2, <1>3, <1>17 DEF IdsGrow
    <3>3. channel[i].session \in Sessions
      BY <3>1 DEF Commands
    <3> QED BY <3>1, <3>2, <3>3, <1>16
  <2>2. ASSUME NEW g \in 1..Len(rest)
        PROVE  /\ rest[g].ids # <<>>
               /\ \A l \in 1..Len(rest[g].ids) : Queued(unwritten', CarriedAt(rest[g], l))
    <3>1. rest[g] = coalesced[g + 1] /\ g + 1 \in 1..Len(coalesced) /\ 1 < g + 1
          /\ rest[g] \in Outgoing
      BY <1>7, <1>8
    <3>2. ASSUME NEW l \in 1..Len(rest[g].ids) PROVE Queued(unwritten', CarriedAt(rest[g], l))
      <4>1. Queued(unwritten, CarriedAt(rest[g], l))
        BY <3>1, <1>2 DEF NoneIsInvented, AllQueued
      <4>2. f.ids[k] < rest[g].ids[l]
        BY <3>1, <1>2, <1>3, <1>17 DEF IdsGrow, IdsRise
      <4>3. CarriedAt(rest[g], l).id = rest[g].ids[l] /\ CarriedAt(rest[g], l).session \in Sessions
        BY <3>1 DEF CarriedAt, Outgoing
      <4> QED BY <4>1, <4>2, <4>3, <1>16
    <3>3. rest[g].ids # <<>>
      BY <3>1, <1>2 DEF NoneIsInvented, AllQueued
    <3> QED BY <3>2, <3>3
  <2>3. AllQueued(channel, rest, unwritten')
    BY <2>1, <2>2 DEF AllQueued
  <2> QED BY <2>3, <1>1 DEF NoneIsInvented
<1>19. NoneIsLost'
  <2> SUFFICES ASSUME NEW x \in Sessions, NEW i \in 1..Len(unwritten'[x])
               PROVE  OnItsWay(channel, rest, unwritten'[x], i)
    BY <1>1 DEF NoneIsLost, AllOnTheirWay
  <2> DEFINE p == IF x = s THEN i + n ELSE i
  <2> DEFINE c == unwritten[x][p]
  <2>1. p \in 1..Len(unwritten[x]) /\ c = unwritten'[x][i]
    <3>1. CASE x = s
      <4>1. i \in 1..Len(nq) /\ p = i + n
        BY <3>1, <1>10
      <4>2. p \in 1..Len(q) /\ nq[i] = q[p]
        BY <4>1, <1>9, <1>13
      <4> QED BY <3>1, <4>2, <1>10 DEF q
    <3>2. CASE x # s
      BY <3>2, <1>10
    <3> QED BY <3>1, <3>2
  <2>2. unwritten[x] \in Seq(Commands) /\ Len(unwritten[x]) \in Nat
    BY <1>2 DEF WriterTypes
  <2> HIDE DEF p, c
  <2>3. OnItsWay(channel, coalesced, unwritten[x], p)
    BY <2>1, <1>2 DEF NoneIsLost, AllOnTheirWay
  <2>4. CASE \E j \in 1..Len(channel) : channel[j] = c
    BY <2>1, <2>4 DEF OnItsWay
  <2>5. CASE \E g \in 1..Len(coalesced) : \E l \in 1..Len(coalesced[g].ids) :
                 CarriedAt(coalesced[g], l) = c
    <3>1. PICK g \in 1..Len(coalesced) : \E l \in 1..Len(coalesced[g].ids) :
                 CarriedAt(coalesced[g], l) = c
      BY <2>5
    <3>2. PICK l \in 1..Len(coalesced[g].ids) : CarriedAt(coalesced[g], l) = c
      BY <3>1
    <3>3. g # 1
      <4> SUFFICES ASSUME g = 1 PROVE FALSE
        OBVIOUS
      <4>1. l \in 1..k /\ c.id = f.ids[l] /\ c.session = s
        BY <3>2, <1>3 DEF CarriedAt, k, s
      <4>2. c.session = x
        BY <2>1, <1>2 DEF IdsGrow, c
      <4>3. x = s /\ p = i + n /\ i \in 1..Len(nq)
        BY <4>1, <4>2, <1>10 DEF p
      <4>4. p \in 1..Len(q) /\ q[p] = c /\ n < p
        BY <4>3, <2>1, <1>13 DEF q, c
      <4>5. q[n].id < q[p].id
        BY <4>4, <1>3 DEF Rises
      <4>6. f.ids[l] <= f.ids[k] /\ f.ids[k] \in Nat /\ f.ids[l] \in Nat
        <5>1. l < k => f.ids[l] < f.ids[k]
          BY <4>1, <1>2, <1>3, <1>17 DEF IdsGrow, IdsRise, k
        <5>2. f.ids[k] \in Nat /\ f.ids[l] \in Nat
          BY <4>1, <1>3, <1>4, WriterAssumption, SMTT(30) DEF k
        <5>3. l = k \/ l < k
          BY <4>1, <1>3
        <5> QED BY <5>1, <5>2, <5>3
      <4> QED BY <4>1, <4>4, <4>5, <4>6, <1>6
    <3>4. g - 1 \in 1..Len(rest) /\ rest[g - 1] = coalesced[g]
      <4>1. g - 1 \in 1..Len(rest) /\ (g - 1) + 1 = g
        BY <3>3, <1>5, <1>7
      <4> QED BY <4>1, <1>7
    <3> QED BY <2>1, <3>2, <3>4 DEF OnItsWay
  <2>6. CASE Promise!Superseded(unwritten[x], p)
    <3>1. c.op = "Resize"
      BY <2>6 DEF Promise!Superseded, c
    <3>2. PICK j \in (p + 1)..Len(unwritten[x]) : unwritten[x][j].op = "Resize"
      BY <2>6 DEF Promise!Superseded
    <3>3. \E m \in (i + 1)..Len(unwritten'[x]) : unwritten'[x][m].op = "Resize"
      <4>1. CASE x = s
        <5>1. p = i + n /\ i \in 1..Len(nq) /\ Len(unwritten[x]) = Len(q) /\ unwritten[x] = q
          BY <4>1, <1>10 DEF p, q
        <5>2. j \in 1..Len(q) /\ ~(j <= n) /\ i + n < j
          BY <3>2, <5>1, <1>4
        <5>3. j - n \in 1..Len(nq) /\ nq[j - n] = q[j]
          BY <5>2, <1>14
        <5>4. j - n \in (i + 1)..Len(nq)
          BY <5>1, <5>2, <5>3, <1>4
        <5> QED BY <3>2, <4>1, <5>1, <5>3, <5>4, <1>10
      <4>2. CASE x # s
        BY <3>2, <4>2, <1>10 DEF p
      <4> QED BY <4>1, <4>2
    <3>4. Promise!Superseded(unwritten'[x], i)
      BY <2>1, <3>1, <3>3 DEF Promise!Superseded
    <3> QED BY <3>4 DEF OnItsWay
  <2> QED BY <2>3, <2>4, <2>5, <2>6 DEF OnItsWay, c
<1> QED BY <1>12, <1>15, <1>18, <1>19 DEF WriterInv

(* KeepsOrder (coalesce_outgoing and writer_loop): whatever is given in      *)
(* whatever batches, each session's commands arrive in their order and once  *)
(* each, but that a resize may give way to a later one already given.        *)
THEOREM InputKeepsItsOrder == WriterSpec => KeepsOrder
<1>1. WriterInit => WriterInv /\ Promise!Init
  BY WriterStarts
<1>2. WriterInv /\ [WriterNext]_writerVars => WriterInv' /\ [Promise!Next]_(Promise!orderVars)
  <2> SUFFICES ASSUME WriterInv, [WriterNext]_writerVars
               PROVE  WriterInv' /\ [Promise!Next]_(Promise!orderVars)
    OBVIOUS
  <2>1. ASSUME NEW s \in Sessions, NEW op \in Ops, Send(s, op)
        PROVE  WriterInv' /\ [Promise!Next]_(Promise!orderVars)
    BY <2>1, SendGives
  <2>2. CASE TakeBatch
    BY <2>2, TakeBatchStutters
  <2>3. CASE WriteFrame
    BY <2>3, WriteFrameDelivers, WriteFrameKeeps
  <2>4. CASE UNCHANGED writerVars
    BY <2>4 DEF writerVars, WriterInv, WriterTypes, IdsGrow, NoneIsInvented, NoneIsLost,
                Promise!orderVars
  <2> QED BY <2>1, <2>2, <2>3, <2>4 DEF WriterNext
<1> QED BY <1>1, <1>2, PTL DEF WriterSpec, KeepsOrder, Promise!Spec

------------------------------------------------------------------------------
(* A session's stream: what a view is given, and what is missing from it.    *)

Phases == {"idle", "waiting", "refused", "attached", "failed", "dropped", "left"}
AppCommands == [type : {"CreateOrAttach", "Detach", "Kill"}, call : Calls]
Answers == [type : {"SessionAttached", "Error"}, n : Nat]
Events == [type : {"Data", "Exit"}, n : Nat]
SocketFrames == Answers \cup Events

RoutingTypes ==
    /\ phase \in [Calls -> Phases]
    /\ sender \in Calls \cup {Nobody} /\ pending \in Calls \cup {Nobody}
    /\ data \in [Calls -> Seq(Nat)] /\ read \in [Calls -> Seq(Nat)]
    /\ replay \in [Calls -> Nat]
    /\ commands \in Seq(AppCommands)
    /\ heldAnswer \in Seq(Answers)
    /\ clientEvents \in Seq(Events) /\ frames \in Seq(SocketFrames)
    /\ output \in Nat
    /\ servedAt \in [Calls -> SUBSET Nat] /\ unsent \in SUBSET Nat

Items(s) == {s[i] : i \in 1..Len(s)}
Rising(s) == \A i, j \in 1..Len(s) : i < j => s[i] < s[j]

\* Of two frames of the stream, the first was sent before the second.
Before(f, g) ==
    f \in Events /\ g \in Events => f.n <= g.n /\ (g.type = "Data" => f.n < g.n)
Ordered(s) == \A i, j \in 1..Len(s) : i < j => Before(s[i], s[j])

\* What is on its way to the app.
Coming == Items(frames) \cup Items(clientEvents)
IsComing(n) == \E f \in Coming : f \in Events /\ f.type = "Data" /\ f.n = n

StreamInOrder ==
    /\ Ordered(frames) /\ Ordered(clientEvents)
    /\ \A f \in Items(frames), g \in Items(clientEvents) : Before(f, g)
    /\ \A f \in Coming : f \in Events => f.n <= output
    /\ \A c \in Calls : Rising(Got(c)) /\ \A n \in Items(Got(c)) : n <= output
    /\ \A c \in Calls : \A n \in Items(Got(c)), f \in Coming :
           f \in Events /\ f.type = "Data" => n < f.n

\* What the call that is sent to has not got is on its way or was not sent.
NoneIsAstray ==
    \A c \in Calls : sender = c =>
        \A m \in servedAt[c] : \A n \in (m + 1)..output :
            n \in Items(Got(c)) \/ n \in unsent \/ IsComing(n)

SkippedAreUnsent ==
    \A c \in Calls : \A m \in servedAt[c] : \A g \in Items(Got(c)) :
        \A n \in (m + 1)..(g - 1) : n \in Items(Got(c)) \/ n \in unsent

IdleAreUnserved ==
    /\ \A c \in Calls : phase[c] = "idle" => servedAt[c] = {}
    /\ \A r \in Items(commands) : r.type = "CreateOrAttach" => phase[r.call] # "idle"

RoutingInv ==
    /\ RoutingTypes
    /\ StreamInOrder
    /\ NoneIsAstray
    /\ SkippedAreUnsent
    /\ IdleAreUnserved

------------------------------------------------------------------------------
(* The items of a sequence, and their order, when one is added or taken.     *)
LEMMA ItemsOfAppend ==
  ASSUME NEW S, NEW s \in Seq(S), NEW e \in S
  PROVE  Append(s, e) \in Seq(S) /\ Items(Append(s, e)) = Items(s) \cup {e}
<1>1. /\ Append(s, e) \in Seq(S) /\ Len(Append(s, e)) = Len(s) + 1 /\ Len(s) \in Nat
      /\ Append(s, e)[Len(s) + 1] = e /\ \A i \in 1..Len(s) : Append(s, e)[i] = s[i]
  OBVIOUS
<1>2. \A i \in 1..(Len(s) + 1) : i \in 1..Len(s) \/ i = Len(s) + 1
  BY <1>1
<1>3. /\ Len(s) + 1 \in 1..(Len(s) + 1)
      /\ \A i \in 1..Len(s) : i \in 1..(Len(s) + 1)
  BY <1>1
<1> QED
  BY <1>1, <1>2, <1>3, Zenon DEF Items

LEMMA ItemsOfTail ==
  ASSUME NEW S, NEW s \in Seq(S), s # <<>>
  PROVE  /\ Tail(s) \in Seq(S) /\ Head(s) \in S
         /\ Items(s) = {Head(s)} \cup Items(Tail(s))
<1> DEFINE k == Len(Tail(s))
<1>1. /\ Tail(s) \in Seq(S) /\ k \in Nat /\ Len(s) = k + 1
      /\ Head(s) = s[1] /\ s[1] \in S
  OBVIOUS
<1>2. \A i \in 1..k : Tail(s)[i] = s[i + 1]
  OBVIOUS
<1> HIDE DEF k
<1>3. /\ \A i \in 1..k : i + 1 \in 1..(k + 1)
      /\ 1 \in 1..(k + 1)
      /\ \A i \in 1..(k + 1) : i = 1 \/ (i - 1 \in 1..k /\ (i - 1) + 1 = i)
  BY <1>1
<1>4. ASSUME NEW i \in 1..(k + 1) PROVE s[i] \in {Head(s)} \cup Items(Tail(s))
  <2>1. CASE i = 1
    BY <1>1, <2>1
  <2>2. CASE i - 1 \in 1..k /\ (i - 1) + 1 = i
    <3>1. Tail(s)[i - 1] = s[i]
      BY <1>2, <2>2
    <3> QED
      BY <2>2, <3>1, Zenon DEF Items, k
  <2> QED
    BY <1>3, <2>1, <2>2
<1>5. ASSUME NEW i \in 1..k PROVE Tail(s)[i] \in Items(s)
  BY <1>1, <1>2, <1>3, <1>5, Zenon DEF Items
<1>6. Head(s) \in Items(s)
  BY <1>1, <1>3, Zenon DEF Items
<1>7. Items(s) \subseteq {Head(s)} \cup Items(Tail(s))
  BY <1>1, <1>4, Zenon DEF Items
<1>8. Items(Tail(s)) \subseteq Items(s)
  BY <1>5, Zenon DEF Items, k
<1> QED
  BY <1>1, <1>6, <1>7, <1>8

LEMMA ItemsOfBoth ==
  ASSUME NEW S, NEW s \in Seq(S), NEW t \in Seq(S)
  PROVE  s \o t \in Seq(S) /\ Items(s \o t) = Items(s) \cup Items(t)
<1> DEFINE k == Len(s)
           l == Len(t)
<1>1. /\ s \o t \in Seq(S) /\ Len(s \o t) = k + l /\ k \in Nat /\ l \in Nat
      /\ \A i \in 1..k : (s \o t)[i] = s[i]
      /\ \A i \in 1..(k + l) : i > k => (s \o t)[i] = t[i - k]
  OBVIOUS
<1> HIDE DEF k, l
<1>2. /\ \A i \in 1..k : i \in 1..(k + l)
      /\ \A i \in 1..l : i + k \in 1..(k + l) /\ i + k > k /\ (i + k) - k = i
      /\ \A i \in 1..(k + l) : i \in 1..k \/ (i > k /\ i - k \in 1..l)
  BY <1>1
<1>3. ASSUME NEW i \in 1..l PROVE t[i] = (s \o t)[i + k]
  BY <1>1, <1>2
<1>i. \A i \in 1..(k + l) : (s \o t)[i] \in Items(s \o t)
  BY <1>1, Zenon DEF Items
<1>4. ASSUME NEW i \in 1..k PROVE s[i] \in Items(s \o t)
  <2>1. i \in 1..(k + l) /\ (s \o t)[i] = s[i]
    BY <1>1, <1>2
  <2> QED
    BY <1>i, <2>1
<1>5. ASSUME NEW i \in 1..l PROVE t[i] \in Items(s \o t)
  <2>1. i + k \in 1..(k + l) /\ (s \o t)[i + k] = t[i]
    BY <1>2, <1>3
  <2> QED
    BY <1>i, <2>1
<1>6. ASSUME NEW i \in 1..(k + l) PROVE (s \o t)[i] \in Items(s) \cup Items(t)
  BY <1>1, <1>2, Zenon DEF Items, k, l
<1>7. Items(s) \subseteq Items(s \o t) /\ Items(t) \subseteq Items(s \o t)
  BY <1>4, <1>5, Zenon DEF Items, k, l
<1>8. Items(s \o t) \subseteq Items(s) \cup Items(t)
  BY <1>1, <1>6, Zenon DEF Items
<1> QED
  BY <1>1, <1>7, <1>8

LEMMA OrderOfAppend ==
  ASSUME NEW S, NEW s \in Seq(S), NEW e \in S, Ordered(s), \A f \in Items(s) : Before(f, e)
  PROVE  Ordered(Append(s, e))
<1>1. /\ Len(Append(s, e)) = Len(s) + 1 /\ Len(s) \in Nat
      /\ Append(s, e)[Len(s) + 1] = e /\ \A i \in 1..Len(s) : Append(s, e)[i] = s[i]
  OBVIOUS
<1>2. \A i \in 1..Len(s) : Before(s[i], e)
  BY DEF Items
<1>3. ASSUME NEW i \in 1..(Len(s) + 1), NEW j \in 1..(Len(s) + 1), i < j
      PROVE  i \in 1..Len(s) /\ (j \in 1..Len(s) \/ j = Len(s) + 1)
  BY <1>1, <1>3
<1> QED
  BY <1>1, <1>2, <1>3, Zenon DEF Ordered

LEMMA OrderOfTail ==
  ASSUME NEW S, NEW s \in Seq(S), s # <<>>, Ordered(s)
  PROVE  Ordered(Tail(s)) /\ \A f \in Items(Tail(s)) : Before(Head(s), f)
<1> DEFINE k == Len(Tail(s))
<1>1. k \in Nat /\ Len(s) = k + 1 /\ Head(s) = s[1]
  OBVIOUS
<1>2. \A i \in 1..k : Tail(s)[i] = s[i + 1]
  OBVIOUS
<1> HIDE DEF k
<1>3. /\ \A i \in 1..k : i + 1 \in 1..(k + 1) /\ 1 < i + 1
      /\ 1 \in 1..(k + 1)
      /\ \A i, j \in 1..k : i < j => i + 1 < j + 1
  BY <1>1
<1>4. \A i, j \in 1..(k + 1) : i < j => Before(s[i], s[j])
  BY <1>1, Zenon DEF Ordered
<1>5. \A i, j \in 1..k : i < j => Before(Tail(s)[i], Tail(s)[j])
  BY <1>2, <1>3, <1>4, Zenon
<1>6. \A i \in 1..k : Before(Head(s), Tail(s)[i])
  BY <1>1, <1>2, <1>3, <1>4, Zenon
<1> QED
  BY <1>5, <1>6, Zenon DEF Ordered, Items, k

LEMMA OrderWithAnswers ==
  ASSUME NEW s \in Seq(SocketFrames), NEW t \in Seq(Answers), Ordered(s)
  PROVE  Ordered(s \o t)
<1> DEFINE k == Len(s)
           l == Len(t)
<1>1. /\ Len(s \o t) = k + l /\ k \in Nat /\ l \in Nat
      /\ \A i \in 1..k : (s \o t)[i] = s[i]
      /\ \A i \in 1..(k + l) : i > k => (s \o t)[i] = t[i - k]
      /\ \A i \in 1..l : t[i] \in Answers
  OBVIOUS
<1>a. \A f, g : g \in Answers => Before(f, g)
  BY DEF Before, Answers, Events
<1> HIDE DEF k, l
<1>2. ASSUME NEW i \in 1..(k + l), NEW j \in 1..(k + l), i < j
      PROVE  (i \in 1..k /\ j \in 1..k) \/ (j > k /\ j - k \in 1..l)
  BY <1>1, <1>2
<1>3. \A i, j \in 1..k : i < j => Before(s[i], s[j])
  BY DEF Ordered, k
<1> QED
  BY <1>1, <1>a, <1>2, <1>3, Zenon DEF Ordered

LEMMA RisesOnAppend ==
  ASSUME NEW s \in Seq(Nat), NEW n \in Nat, Rising(s), \A m \in Items(s) : m < n
  PROVE  Rising(Append(s, n))
<1>1. /\ Len(Append(s, n)) = Len(s) + 1 /\ Len(s) \in Nat
      /\ Append(s, n)[Len(s) + 1] = n /\ \A i \in 1..Len(s) : Append(s, n)[i] = s[i]
  OBVIOUS
<1>2. \A i \in 1..Len(s) : s[i] < n
  BY DEF Items
<1>3. ASSUME NEW i \in 1..(Len(s) + 1), NEW j \in 1..(Len(s) + 1), i < j
      PROVE  i \in 1..Len(s) /\ (j \in 1..Len(s) \/ j = Len(s) + 1)
  BY <1>1, <1>3
<1> QED
  BY <1>1, <1>2, <1>3, Zenon DEF Rising

------------------------------------------------------------------------------
LEMMA RoutingInvInit == RoutingInit => RoutingInv
<1> SUFFICES ASSUME RoutingInit PROVE RoutingInv
  OBVIOUS
<1>1. RoutingTypes
  <2>1. /\ phase \in [Calls -> Phases] /\ replay \in [Calls -> Nat]
        /\ servedAt \in [Calls -> SUBSET Nat]
    BY DEF RoutingInit, Phases
  <2>2. /\ data \in [Calls -> Seq(Nat)] /\ read \in [Calls -> Seq(Nat)]
        /\ commands \in Seq(AppCommands) /\ heldAnswer \in Seq(Answers)
        /\ clientEvents \in Seq(Events) /\ frames \in Seq(SocketFrames)
    BY DEF RoutingInit
  <2> QED
    BY <2>1, <2>2 DEF RoutingInit, RoutingTypes
<1>2. Items(<<>>) = {} /\ Ordered(<<>>) /\ Rising(<<>>)
  BY DEF Items, Ordered, Rising
<1>3. \A c \in Calls : Got(c) = <<>>
  <2>1. <<>> \o <<>> = <<>>
    OBVIOUS
  <2> QED
    BY <2>1, Zenon DEF RoutingInit, Got
<1>4. Coming = {} /\ Items(commands) = {} /\ \A c \in Calls : Items(Got(c)) = {}
  <2>1. frames = <<>> /\ clientEvents = <<>> /\ commands = <<>>
    BY DEF RoutingInit
  <2>2. Items(frames) = {} /\ Items(clientEvents) = {} /\ Items(commands) = {}
    BY <1>2, <2>1
  <2> QED
    BY <1>2, <1>3, <2>2 DEF Coming
<1>5. StreamInOrder
  <2>1. Ordered(frames) /\ Ordered(clientEvents) /\ Items(frames) = {}
    BY <1>2, <1>4 DEF RoutingInit, Coming
  <2> QED
    BY <1>2, <1>3, <1>4, <2>1 DEF StreamInOrder
<1>6. \A c \in Calls : servedAt[c] = {}
  BY DEF RoutingInit
<1>7. NoneIsAstray /\ SkippedAreUnsent /\ IdleAreUnserved
  BY <1>4, <1>6 DEF NoneIsAstray, SkippedAreUnsent, IdleAreUnserved
<1> QED
  BY <1>1, <1>5, <1>7 DEF RoutingInv

------------------------------------------------------------------------------
(* What is on its way is the same, and so is what every view has got.        *)
LEMMA SameStream ==
  ASSUME RoutingInv, UNCHANGED <<frames, clientEvents, output, servedAt, unsent>>,
         \A c \in Calls : Got(c)' = Got(c),
         \A c \in Calls : sender' = c => sender = c \/ servedAt[c] = {}
  PROVE  StreamInOrder' /\ NoneIsAstray' /\ SkippedAreUnsent'
<1>1. StreamInOrder'
  BY DEF RoutingInv, StreamInOrder, Coming
<1>2. \A n : IsComing(n)' <=> IsComing(n)
  BY DEF IsComing, Coming
<1>3. NoneIsAstray'
  BY <1>2 DEF RoutingInv, NoneIsAstray
<1>4. SkippedAreUnsent'
  BY DEF RoutingInv, SkippedAreUnsent
<1> QED
  BY <1>1, <1>3, <1>4

(* What the app does on its own.                                             *)
LEMMA AppMovesKeep ==
  ASSUME RoutingInv, NEW c \in Calls,
         \/ CreateOrAttach(c) \/ TimesOut(c) \/ DropHandle(c) \/ Refused(c)
         \/ \E how \in {"Detach", "Kill"} : Leave(c, how)
  PROVE  RoutingInv'
<1> USE DEF daemonVars, wireVars
<1>1. RoutingTypes
  BY DEF RoutingInv
<1>2. UNCHANGED <<data, read, replay, clientEvents, heldAnswer, frames, output, servedAt, unsent>>
  BY Zenon DEF CreateOrAttach, TimesOut, DropHandle, Refused, Leave
<1>3. \A d \in Calls : Got(d)' = Got(d)
  BY <1>2 DEF Got
<1>4. /\ phase' \in [Calls -> Phases] /\ phase'[c] # "idle"
      /\ \A d \in Calls : d # c => phase'[d] = phase[d]
  BY <1>1 DEF RoutingTypes, Phases, CreateOrAttach, TimesOut, DropHandle, Refused, Leave
<1>5. /\ sender' \in Calls \cup {Nobody} /\ pending' \in Calls \cup {Nobody}
      /\ \A d \in Calls : sender' = d => sender = d \/ servedAt[d] = {}
  <2>1. CASE CreateOrAttach(c)
    BY <1>1, <2>1 DEF RoutingInv, RoutingTypes, CreateOrAttach, IdleAreUnserved
  <2>2. CASE ~CreateOrAttach(c)
    <3>1. pending' = pending /\ (sender' = sender \/ sender' = Nobody)
      BY <2>2 DEF TimesOut, DropHandle, Refused, Leave
    <3> QED
      BY <1>1, <3>1, RoutingAssumption DEF RoutingTypes
  <2> QED
    BY <2>1, <2>2
<1>6. /\ commands' \in Seq(AppCommands)
      /\ \A r \in Items(commands') : r \in Items(commands) \/ r.call = c
  <2>1. CASE commands' = commands
    BY <1>1, <2>1 DEF RoutingTypes
  <2>2. ASSUME NEW type \in {"CreateOrAttach", "Detach", "Kill"},
               commands' = Append(commands, [type |-> type, call |-> c])
        PROVE  <1>6
    <3>1. [type |-> type, call |-> c] \in AppCommands
      BY DEF AppCommands
    <3>2. commands' \in Seq(AppCommands)
          /\ Items(commands') = Items(commands) \cup {[type |-> type, call |-> c]}
      BY <1>1, <2>2, <3>1, ItemsOfAppend DEF RoutingTypes
    <3> QED
      BY <3>2
  <2>3. CASE CreateOrAttach(c)
    BY <2>2, <2>3 DEF CreateOrAttach
  <2>4. CASE \E how \in {"Detach", "Kill"} : Leave(c, how)
    BY <2>2, <2>4 DEF Leave
  <2>5. CASE TimesOut(c) \/ DropHandle(c) \/ Refused(c)
    BY <2>1, <2>5 DEF TimesOut, DropHandle, Refused
  <2> QED
    BY <2>3, <2>4, <2>5
<1>7. RoutingTypes'
  BY <1>1, <1>2, <1>4, <1>5, <1>6 DEF RoutingTypes
<1>8. IdleAreUnserved'
  <2>1. ASSUME NEW r \in Items(commands'), r.type = "CreateOrAttach"
        PROVE  phase'[r.call] # "idle"
    <3>1. CASE r.call = c
      BY <1>4, <3>1
    <3>2. CASE r.call # c /\ r \in Items(commands)
      <4>1. r \in AppCommands
        BY <1>1, <3>2 DEF RoutingTypes, Items
      <4> QED
        BY <1>4, <2>1, <3>2, <4>1 DEF RoutingInv, IdleAreUnserved, AppCommands
    <3> QED
      BY <1>6, <3>1, <3>2
  <2>2. ASSUME NEW d \in Calls, phase'[d] = "idle" PROVE servedAt'[d] = {}
    BY <1>2, <1>4, <2>2 DEF RoutingInv, IdleAreUnserved
  <2> QED
    BY <2>1, <2>2 DEF IdleAreUnserved
<1>9. StreamInOrder' /\ NoneIsAstray' /\ SkippedAreUnsent'
  BY <1>2, <1>3, <1>5, SameStream
<1> QED
  BY <1>7, <1>8, <1>9 DEF RoutingInv

LEMMA HeadMovesOver ==
  \A r, s \in Seq(Nat) : s # <<>> => Append(r, Head(s)) \o Tail(s) = r \o s
OBVIOUS

LEMMA AppendsLast ==
  ASSUME NEW r \in Seq(Nat), NEW s \in Seq(Nat), NEW n \in Nat
  PROVE  r \o Append(s, n) = Append(r \o s, n)
OBVIOUS

LEMMA LongerThanBefore ==
  ASSUME NEW s \in Seq(Nat), NEW n
  PROVE  Append(s, n) # s
<1>1. Len(Append(s, n)) = Len(s) + 1 /\ Len(s) \in Nat
  OBVIOUS
<1> QED
  BY <1>1

(* A view reads: what it has got is the same, and is read in that order.     *)
LEMMA ViewReadsKeeps ==
  ASSUME RoutingInv, NEW c \in Calls, ViewReads(c)
  PROVE  RoutingInv'
<1> USE DEF daemonVars, wireVars
<1>1. RoutingTypes
  BY DEF RoutingInv
<1>2. /\ read' = [read EXCEPT ![c] = Append(@, Head(data[c]))]
      /\ data' = [data EXCEPT ![c] = Tail(@)]
      /\ UNCHANGED <<phase, sender, pending, replay, commands, clientEvents, heldAnswer,
                     frames, output, servedAt, unsent>>
      /\ data[c] # <<>>
  BY DEF ViewReads
<1>3. data[c] \in Seq(Nat) /\ read[c] \in Seq(Nat)
  BY <1>1 DEF RoutingTypes
<1>4. /\ data' \in [Calls -> Seq(Nat)] /\ read' \in [Calls -> Seq(Nat)]
      /\ \A d \in Calls : d # c => data'[d] = data[d] /\ read'[d] = read[d]
      /\ data'[c] = Tail(data[c]) /\ read'[c] = Append(read[c], Head(data[c]))
  <2>1. Tail(data[c]) \in Seq(Nat) /\ Append(read[c], Head(data[c])) \in Seq(Nat)
    BY <1>2, <1>3
  <2> QED
    BY <1>1, <1>2, <2>1 DEF RoutingTypes
<1>5. Append(read[c], Head(data[c])) \o Tail(data[c]) = read[c] \o data[c]
  BY <1>2, <1>3, HeadMovesOver
<1>6. \A d \in Calls : Got(d)' = Got(d)
  BY <1>4, <1>5 DEF Got
<1>7. RoutingTypes'
  BY <1>1, <1>2, <1>4 DEF RoutingTypes
<1>8. IdleAreUnserved'
  BY <1>2 DEF RoutingInv, IdleAreUnserved
<1>9. StreamInOrder' /\ NoneIsAstray' /\ SkippedAreUnsent'
  BY <1>2, <1>6, SameStream
<1> QED
  BY <1>7, <1>8, <1>9 DEF RoutingInv

------------------------------------------------------------------------------
(* The daemon serves a command: nothing is put on its way yet, and a call     *)
(* that is attached now has all later output before it.                       *)
LEMMA DaemonServesKeeps ==
  ASSUME RoutingInv, DaemonServes
  PROVE  RoutingInv'
<1> DEFINE r == Head(commands)
<1> USE DEF appVars
<1>1. RoutingTypes
  BY DEF RoutingInv
<1>2. /\ commands # <<>> /\ commands' = Tail(commands)
      /\ UNCHANGED <<phase, sender, pending, data, read, replay, clientEvents, frames,
                     output, unsent>>
  BY DEF DaemonServes
<1>3. /\ commands' \in Seq(AppCommands) /\ r \in AppCommands
      /\ Items(commands) = {r} \cup Items(commands')
  BY <1>1, <1>2, ItemsOfTail DEF RoutingTypes
<1>4. r.call \in Calls
  BY <1>3 DEF AppCommands
<1>5. /\ heldAnswer' \in Seq(Answers)
      /\ \/ servedAt' = servedAt
         \/ r.type = "CreateOrAttach" /\ servedAt' = [servedAt EXCEPT ![r.call] = {output}]
  <2>1. ASSUME NEW type \in {"SessionAttached", "Error"}
        PROVE  <<[type |-> type, n |-> output]>> \in Seq(Answers)
    <3>1. [type |-> type, n |-> output] \in Answers
      BY <1>1 DEF RoutingTypes, Answers
    <3> QED
      BY <3>1
  <2> QED
    BY <1>1, <2>1 DEF DaemonServes, ServesAttach, ServesDetach, RoutingTypes
<1>6. /\ servedAt' \in [Calls -> SUBSET Nat]
      /\ \A d \in Calls : \A m \in servedAt'[d] : m \in servedAt[d] \/ m = output
      /\ \A d \in Calls : servedAt'[d] = servedAt[d] \/ (d = r.call /\ r.type = "CreateOrAttach")
  <2>1. servedAt \in [Calls -> SUBSET Nat] /\ {output} \in SUBSET Nat
    BY <1>1 DEF RoutingTypes
  <2>2. CASE servedAt' = servedAt
    BY <2>1, <2>2
  <2>3. CASE r.type = "CreateOrAttach" /\ servedAt' = [servedAt EXCEPT ![r.call] = {output}]
    <3>1. /\ servedAt' \in [Calls -> SUBSET Nat] /\ servedAt'[r.call] = {output}
          /\ \A d \in Calls : d # r.call => servedAt'[d] = servedAt[d]
      BY <1>4, <2>1, <2>3, Zenon
    <3> QED
      BY <2>3, <3>1
  <2> QED
    BY <1>5, <2>2, <2>3
<1>7. RoutingTypes'
  BY <1>1, <1>2, <1>3, <1>5, <1>6 DEF RoutingTypes
<1>8. IdleAreUnserved'
  <2>1. r.type = "CreateOrAttach" => phase[r.call] # "idle"
    BY <1>3 DEF RoutingInv, IdleAreUnserved
  <2>2. \A d \in Calls : phase'[d] = "idle" => servedAt'[d] = {}
    BY <1>2, <1>6, <2>1 DEF RoutingInv, IdleAreUnserved
  <2>3. \A q \in Items(commands') : q.type = "CreateOrAttach" => phase'[q.call] # "idle"
    BY <1>2, <1>3 DEF RoutingInv, IdleAreUnserved
  <2> QED
    BY <2>2, <2>3 DEF IdleAreUnserved
<1>9. \A d \in Calls : Got(d)' = Got(d)
  BY <1>2 DEF Got
<1>10. StreamInOrder'
  BY <1>2, <1>9 DEF RoutingInv, StreamInOrder, Coming
<1>11. NoneIsAstray'
  <2>1. \A n : IsComing(n)' <=> IsComing(n)
    BY <1>2 DEF IsComing, Coming
  <2>2. ASSUME NEW d \in Calls, sender' = d, NEW m \in servedAt'[d], NEW n \in (m + 1)..output
        PROVE  n \in Items(Got(d)) \/ n \in unsent \/ IsComing(n)
    <3>1. m # output
      BY <1>1, <2>2 DEF RoutingTypes
    <3> QED
      BY <1>2, <1>6, <2>2, <3>1 DEF RoutingInv, NoneIsAstray
  <2> QED
    BY <1>2, <1>9, <2>1, <2>2 DEF NoneIsAstray
<1>12. SkippedAreUnsent'
  <2>1. ASSUME NEW d \in Calls, NEW m \in servedAt'[d], NEW g \in Items(Got(d)),
               NEW n \in (m + 1)..(g - 1)
        PROVE  n \in Items(Got(d)) \/ n \in unsent
    <3>1. g \in Nat /\ g <= output
      <4>1. Got(d) \in Seq(Nat)
        BY <1>1 DEF RoutingTypes, Got
      <4> QED
        BY <4>1 DEF RoutingInv, StreamInOrder, Items
    <3>2. m # output
      BY <1>1, <2>1, <3>1 DEF RoutingTypes
    <3> QED
      BY <1>6, <2>1, <3>2 DEF RoutingInv, SkippedAreUnsent
  <2> QED
    BY <1>2, <1>9, <2>1 DEF SkippedAreUnsent
<1> QED
  BY <1>7, <1>8, <1>10, <1>11, <1>12 DEF RoutingInv

(* Nothing but answers is added to what is on its way.                       *)
LEMMA SameEvents ==
  ASSUME RoutingInv, UNCHANGED <<phase, sender, data, read, commands, output, servedAt, unsent>>,
         \A f \in Events : f \in Coming' <=> f \in Coming,
         Ordered(frames'), Ordered(clientEvents'),
         \A f \in Items(frames'), g \in Items(clientEvents') : Before(f, g)
  PROVE  StreamInOrder' /\ NoneIsAstray' /\ SkippedAreUnsent' /\ IdleAreUnserved'
<1>1. \A c \in Calls : Got(c)' = Got(c)
  BY DEF Got
<1>2. \A n : IsComing(n)' <=> IsComing(n)
  BY DEF IsComing
<1>3. \A f, g : Before(f, g)' <=> Before(f, g)
  BY DEF Before
<1>4. StreamInOrder'
  BY <1>1 DEF RoutingInv, StreamInOrder
<1>5. NoneIsAstray'
  BY <1>1, <1>2 DEF RoutingInv, NoneIsAstray
<1>6. SkippedAreUnsent'
  BY <1>1 DEF RoutingInv, SkippedAreUnsent
<1>7. IdleAreUnserved'
  BY DEF RoutingInv, IdleAreUnserved
<1> QED
  BY <1>4, <1>5, <1>6, <1>7

(* The read loop gets the socket, or the writer task does.                   *)
LEMMA SendingKeeps ==
  ASSUME RoutingInv, LoopSends \/ WriterSends
  PROVE  RoutingInv'
<1> USE DEF appVars, daemonVars
<1>1. RoutingTypes
  BY DEF RoutingInv
<1>t. /\ frames \in Seq(SocketFrames) /\ clientEvents \in Seq(Events)
      /\ heldAnswer \in Seq(Answers)
      /\ Ordered(frames) /\ Ordered(clientEvents)
      /\ \A f \in Items(frames), g \in Items(clientEvents) : Before(f, g)
  BY <1>1 DEF RoutingTypes, RoutingInv, StreamInOrder
<1>2. CASE LoopSends
  <2>1. /\ frames' = frames \o heldAnswer /\ heldAnswer' = <<>>
        /\ UNCHANGED <<phase, sender, pending, data, read, replay, commands, clientEvents,
                       output, servedAt, unsent>>
    BY <1>2 DEF LoopSends
  <2>2. heldAnswer \in Seq(SocketFrames) /\ \A f \in Items(heldAnswer) : f \in Answers
    BY <1>t DEF SocketFrames, Items
  <2>3. frames' \in Seq(SocketFrames) /\ Items(frames') = Items(frames) \cup Items(heldAnswer)
    BY <1>t, <2>1, <2>2, ItemsOfBoth
  <2>4. heldAnswer' \in Seq(Answers)
    BY <2>1
  <2>5. RoutingTypes'
    BY <1>1, <2>1, <2>3, <2>4 DEF RoutingTypes
  <2>6. \A f \in Answers : f \notin Events
    BY DEF Answers, Events
  <2>7. \A f \in Events : f \in Coming' <=> f \in Coming
    BY <2>1, <2>2, <2>3, <2>6 DEF Coming
  <2>8. Ordered(frames') /\ Ordered(clientEvents')
    BY <1>t, <2>1, OrderWithAnswers
  <2>9. \A f \in Items(frames'), g \in Items(clientEvents') : Before(f, g)
    BY <1>t, <2>1, <2>2, <2>3, <2>6 DEF Before
  <2>10. StreamInOrder' /\ NoneIsAstray' /\ SkippedAreUnsent' /\ IdleAreUnserved'
    BY <2>1, <2>7, <2>8, <2>9, SameEvents
  <2> QED
    BY <2>5, <2>10 DEF RoutingInv
<1>3. CASE WriterSends
  <2> DEFINE h == Head(clientEvents)
  <2>1. /\ clientEvents # <<>> /\ frames' = Append(frames, h)
        /\ clientEvents' = Tail(clientEvents)
        /\ UNCHANGED <<phase, sender, pending, data, read, replay, commands, heldAnswer,
                       output, servedAt, unsent>>
    BY <1>3 DEF WriterSends
  <2>2. /\ clientEvents' \in Seq(Events) /\ h \in Events
        /\ Items(clientEvents) = {h} \cup Items(clientEvents')
        /\ Ordered(clientEvents') /\ \A g \in Items(clientEvents') : Before(h, g)
    BY <1>t, <2>1, ItemsOfTail, OrderOfTail
  <2>3. h \in SocketFrames /\ \A f \in Items(frames) : Before(f, h)
    BY <1>t, <2>2 DEF SocketFrames
  <2> HIDE DEF h
  <2>4. /\ frames' \in Seq(SocketFrames) /\ Items(frames') = Items(frames) \cup {h}
        /\ Ordered(frames')
    BY <1>t, <2>1, <2>3, ItemsOfAppend, OrderOfAppend
  <2>5. RoutingTypes'
    BY <1>1, <2>1, <2>2, <2>4 DEF RoutingTypes
  <2>6. \A f \in Events : f \in Coming' <=> f \in Coming
    BY <2>2, <2>4 DEF Coming
  <2>7. \A f \in Items(frames'), g \in Items(clientEvents') : Before(f, g)
    BY <1>t, <2>2, <2>4
  <2>8. StreamInOrder' /\ NoneIsAstray' /\ SkippedAreUnsent' /\ IdleAreUnserved'
    BY <2>1, <2>2, <2>4, <2>6, <2>7, SameEvents
  <2> QED
    BY <2>5, <2>8 DEF RoutingInv
<1> QED
  BY <1>2, <1>3

------------------------------------------------------------------------------
(* The shell writes or exits.  An event that is put comes after all there is. *)
LEMMA ComesLast ==
  ASSUME RoutingInv, NEW e \in Events, e.type = "Data" => e.n = output + 1,
         e.type = "Exit" => e.n = output,
         clientEvents' = Append(clientEvents, e), UNCHANGED frames
  PROVE  /\ clientEvents' \in Seq(Events)
         /\ Coming' = Coming \cup {e}
         /\ Ordered(frames') /\ Ordered(clientEvents')
         /\ \A f \in Items(frames'), g \in Items(clientEvents') : Before(f, g)
<1>1. /\ frames \in Seq(SocketFrames) /\ clientEvents \in Seq(Events)
      /\ Ordered(frames) /\ Ordered(clientEvents) /\ output \in Nat
      /\ \A f \in Items(frames), g \in Items(clientEvents) : Before(f, g)
      /\ \A f \in Coming : f \in Events => f.n <= output
  BY DEF RoutingInv, RoutingTypes, StreamInOrder
<1>2. \A f \in Coming : Before(f, e)
  BY <1>1 DEF Before, Events
<1>3. /\ clientEvents' \in Seq(Events) /\ Items(clientEvents') = Items(clientEvents) \cup {e}
  BY <1>1, ItemsOfAppend
<1>4. Ordered(clientEvents')
  <2>1. \A f \in Items(clientEvents) : Before(f, e)
    BY <1>2 DEF Coming
  <2> QED
    BY <1>1, <2>1, OrderOfAppend
<1>5. \A f \in Items(frames) : Before(f, e)
  BY <1>2 DEF Coming
<1> QED
  BY <1>1, <1>3, <1>4, <1>5 DEF Coming

LEMMA ShellMovesKeep ==
  ASSUME RoutingInv, ShellWrites \/ ShellExits
  PROVE  RoutingInv'
<1> USE DEF appVars
<1>1. RoutingTypes /\ StreamInOrder /\ NoneIsAstray /\ SkippedAreUnsent /\ IdleAreUnserved
  BY DEF RoutingInv
<1>o. output \in Nat /\ output + 1 \in Nat
  BY <1>1 DEF RoutingTypes
<1>2. /\ UNCHANGED <<phase, sender, pending, data, read, replay, commands, heldAnswer, frames,
                     servedAt>>
      /\ unsent \subseteq unsent' /\ output <= output' /\ output' \in Nat
      /\ unsent' \in SUBSET Nat
  <2>1. unsent \in SUBSET Nat
    BY <1>1 DEF RoutingTypes
  <2>2. /\ unsent' = unsent \/ unsent' = unsent \cup {output + 1}
        /\ output' = output \/ output' = output + 1
    BY DEF ShellWrites, ShellExits
  <2>3. UNCHANGED <<phase, sender, pending, data, read, replay, commands, heldAnswer, frames,
                    servedAt>>
    BY DEF ShellWrites, ShellExits
  <2>4. output <= output' /\ output' \in Nat
    BY <1>o, <2>2
  <2>5. unsent \subseteq unsent' /\ unsent' \in SUBSET Nat
    BY <1>o, <2>1, <2>2, Zenon
  <2> QED
    BY <2>3, <2>4, <2>5, Zenon
\* Either an event is put, or the channel is left alone.
<1>3. \/ /\ UNCHANGED <<clientEvents, output>>
      \/ /\ UNCHANGED clientEvents /\ output' = output + 1
         /\ output + 1 \in unsent'
      \/ \E e \in Events :
             /\ clientEvents' = Append(clientEvents, e)
             /\ \/ e.type = "Data" /\ e.n = output + 1 /\ output' = output + 1
                \/ e.type = "Exit" /\ e.n = output /\ output' = output
  <2>1. CASE ShellWrites
    <3>1. CASE attached /\ Room
      <4>1. [type |-> "Data", n |-> output + 1] \in Events
        BY <1>o DEF Events
      <4>2. /\ clientEvents' = Append(clientEvents, [type |-> "Data", n |-> output + 1])
            /\ output' = output + 1
        BY <2>1, <3>1 DEF ShellWrites, PutsEvent
      <4> QED
        BY <4>1, <4>2
    <3>2. CASE ~(attached /\ Room)
      BY <2>1, <3>2 DEF ShellWrites
    <3> QED
      BY <3>1, <3>2
  <2>2. CASE ShellExits
    <3>1. CASE attached /\ Room
      <4>1. [type |-> "Exit", n |-> output] \in Events
        BY <1>o DEF Events
      <4>2. /\ clientEvents' = Append(clientEvents, [type |-> "Exit", n |-> output])
            /\ output' = output
        BY <2>2, <3>1 DEF ShellExits, PutsEvent
      <4> QED
        BY <4>1, <4>2
    <3>2. CASE ~(attached /\ Room)
      BY <2>2, <3>2 DEF ShellExits
    <3> QED
      BY <3>1, <3>2
  <2> QED
    BY <2>1, <2>2
<1>4. \A c \in Calls : Got(c)' = Got(c) /\ Got(c) \in Seq(Nat)
  BY <1>1, <1>2 DEF Got, RoutingTypes
<1>5. \A c \in Calls : \A n \in Items(Got(c)) : n \in Nat /\ n <= output
  BY <1>1, <1>4 DEF StreamInOrder, Items
<1>6. /\ clientEvents' \in Seq(Events)
      /\ Ordered(frames') /\ Ordered(clientEvents')
      /\ \A f \in Items(frames'), g \in Items(clientEvents') : Before(f, g)
      /\ Coming \subseteq Coming'
      /\ \A f \in Coming' : f \in Coming \/ (f \in Events /\ f.n <= output'
                                             /\ (f.type = "Data" => f.n = output + 1))
  <2>1. CASE UNCHANGED clientEvents
    BY <1>1, <1>2, <2>1 DEF RoutingTypes, StreamInOrder, Coming
  <2>2. ASSUME NEW e \in Events, clientEvents' = Append(clientEvents, e),
               \/ e.type = "Data" /\ e.n = output + 1 /\ output' = output + 1
               \/ e.type = "Exit" /\ e.n = output /\ output' = output
        PROVE  <1>6
    <3>1. /\ clientEvents' \in Seq(Events)
          /\ Coming' = Coming \cup {e}
          /\ Ordered(frames') /\ Ordered(clientEvents')
          /\ \A f \in Items(frames'), g \in Items(clientEvents') : Before(f, g)
      BY <1>2, <2>2, ComesLast
    <3> QED
      BY <1>o, <2>2, <3>1
  <2> QED
    BY <1>3, <2>1, <2>2
<1>7. RoutingTypes'
  BY <1>1, <1>2, <1>6 DEF RoutingTypes
<1>8. StreamInOrder'
  <2>1. \A f \in Coming' : f \in Events => f.n <= output'
    <3>1. \A f \in Coming : f \in Events => f.n <= output /\ f.n \in Nat
      BY <1>1 DEF StreamInOrder, Events
    <3> QED
      BY <1>o, <1>2, <1>6, <3>1
  <2>2. \A c \in Calls : Rising(Got(c)) /\ \A n \in Items(Got(c)) : n <= output'
    BY <1>1, <1>o, <1>2, <1>5 DEF StreamInOrder
  <2>3. ASSUME NEW c \in Calls, NEW n \in Items(Got(c)), NEW f \in Coming',
               f \in Events, f.type = "Data"
        PROVE  n < f.n
    <3>1. CASE f \in Coming
      BY <1>1, <2>3, <3>1 DEF StreamInOrder
    <3>2. CASE f.n = output + 1
      BY <1>5, <1>o, <3>2
    <3> QED
      BY <1>6, <2>3, <3>1, <3>2
  <2> QED
    BY <1>4, <1>6, <2>1, <2>2, <2>3 DEF StreamInOrder
<1>9. NoneIsAstray'
  <2>1. \A n : IsComing(n) => IsComing(n)'
    BY <1>6 DEF IsComing
  <2> PICK new : new = output + 1
    OBVIOUS
  <2>2. output' = output \/ (output' = output + 1 /\ (new \in unsent' \/ IsComing(new)'))
    <3>1. ASSUME NEW e \in Events, clientEvents' = Append(clientEvents, e),
                 e.type = "Data", e.n = output + 1
          PROVE  IsComing(new)'
      <4>1. Items(clientEvents') = Items(clientEvents) \cup {e}
        BY <1>1, <3>1, ItemsOfAppend DEF RoutingTypes
      <4>2. e \in Coming'
        BY <4>1 DEF Coming
      <4> QED
        BY <3>1, <4>2, Zenon DEF IsComing
    <3> QED
      BY <1>3, <3>1
  <2>3. ASSUME NEW c \in Calls, sender' = c, NEW m \in servedAt'[c], NEW n \in (m + 1)..output'
        PROVE  n \in Items(Got(c)) \/ n \in unsent' \/ IsComing(n)'
    <3>1. m \in Nat
      BY <1>1, <1>2, <2>3 DEF RoutingTypes
    <3>2. n \in (m + 1)..output \/ (n = output + 1 /\ output' = output + 1)
      <4>1. (output' = output \/ output' = output + 1) /\ n \in (m + 1)..output'
        BY <2>2, <2>3
      <4> QED
        BY <1>o, <3>1, <4>1
    <3>3. CASE n \in (m + 1)..output
      BY <1>1, <1>2, <2>1, <2>3, <3>3 DEF NoneIsAstray
    <3>4. CASE n = output + 1 /\ output' = output + 1
      BY <1>o, <2>2, <3>4
    <3> QED
      BY <3>2, <3>3, <3>4
  <2> QED
    BY <1>4, <2>3 DEF NoneIsAstray
<1>10. SkippedAreUnsent'
  BY <1>1, <1>2, <1>4 DEF SkippedAreUnsent
<1>11. IdleAreUnserved'
  BY <1>1, <1>2 DEF IdleAreUnserved
<1> QED
  BY <1>7, <1>8, <1>9, <1>10, <1>11 DEF RoutingInv

------------------------------------------------------------------------------
(* The reader thread takes the first frame, which all others come after.     *)
LEMMA TakesTheFirst ==
  ASSUME RoutingInv, frames # <<>>, frames' = Tail(frames), UNCHANGED clientEvents
  PROVE  /\ frames' \in Seq(SocketFrames) /\ Head(frames) \in SocketFrames
         /\ Head(frames) \in Coming
         /\ Coming = {Head(frames)} \cup Coming'
         /\ Ordered(frames') /\ Ordered(clientEvents')
         /\ \A f \in Items(frames'), g \in Items(clientEvents') : Before(f, g)
         /\ \A f \in Coming' : Before(Head(frames), f)
<1>1. /\ frames \in Seq(SocketFrames)
      /\ Ordered(frames) /\ Ordered(clientEvents)
      /\ \A f \in Items(frames), g \in Items(clientEvents) : Before(f, g)
  BY DEF RoutingInv, RoutingTypes, StreamInOrder
<1>2. /\ frames' \in Seq(SocketFrames) /\ Head(frames) \in SocketFrames
      /\ Items(frames) = {Head(frames)} \cup Items(frames')
      /\ Ordered(frames') /\ \A f \in Items(frames') : Before(Head(frames), f)
  BY <1>1, ItemsOfTail, OrderOfTail
<1> QED
  BY <1>1, <1>2 DEF Coming

(* A frame that nobody is given is lost, and so is the sender, unless the     *)
(* frame is not of the stream.                                                *)
LEMMA TakingKeeps ==
  ASSUME RoutingInv, frames # <<>>, frames' = Tail(frames),
         UNCHANGED <<data, read, clientEvents, output, servedAt, unsent>>,
         \A c \in Calls : sender' = c =>
             sender = c /\ ~(Head(frames) \in Events /\ Head(frames).type = "Data")
  PROVE  frames' \in Seq(SocketFrames) /\ StreamInOrder' /\ NoneIsAstray' /\ SkippedAreUnsent'
<1>1. /\ frames' \in Seq(SocketFrames)
      /\ Coming = {Head(frames)} \cup Coming'
      /\ Ordered(frames') /\ Ordered(clientEvents')
      /\ \A f \in Items(frames'), g \in Items(clientEvents') : Before(f, g)
  BY TakesTheFirst
<1>2. \A c \in Calls : Got(c)' = Got(c)
  BY DEF Got
<1>3. StreamInOrder'
  BY <1>1, <1>2 DEF RoutingInv, StreamInOrder
<1>4. SkippedAreUnsent'
  BY <1>2 DEF RoutingInv, SkippedAreUnsent
<1>5. NoneIsAstray'
  <2>1. ASSUME NEW n, IsComing(n), ~(Head(frames) \in Events /\ Head(frames).type = "Data")
        PROVE  IsComing(n)'
    BY <1>1, <2>1 DEF IsComing
  <2> QED
    BY <1>2, <2>1 DEF RoutingInv, NoneIsAstray
<1> QED
  BY <1>1, <1>3, <1>4, <1>5

(* A chunk that is given to a call is the first that was on its way: what     *)
(* the call has not got before it was not sent.                               *)
LEMMA ChunkIsGiven ==
  ASSUME RoutingInv, NEW c \in Calls, sender = c,
         frames # <<>>, frames' = Tail(frames), Head(frames).type = "Data",
         data' = [data EXCEPT ![c] = Append(@, Head(frames).n)],
         UNCHANGED <<read, sender, clientEvents, output, servedAt, unsent>>
  PROVE  /\ frames' \in Seq(SocketFrames) /\ data' \in [Calls -> Seq(Nat)]
         /\ StreamInOrder' /\ NoneIsAstray' /\ SkippedAreUnsent'
<1> DEFINE h == Head(frames)
<1>1. RoutingTypes /\ StreamInOrder /\ NoneIsAstray /\ SkippedAreUnsent
  BY DEF RoutingInv
<1>2. /\ frames' \in Seq(SocketFrames) /\ h \in SocketFrames /\ h \in Coming
      /\ Coming = {h} \cup Coming'
      /\ Ordered(frames') /\ Ordered(clientEvents')
      /\ \A f \in Items(frames'), g \in Items(clientEvents') : Before(f, g)
      /\ \A f \in Coming' : Before(h, f)
  BY TakesTheFirst
<1>h. h.type = "Data" /\ data' = [data EXCEPT ![c] = Append(@, h.n)]
  OBVIOUS
<1> HIDE DEF h
<1>3. h \in Events /\ h.n \in Nat /\ h.n <= output
  <2>1. h \in Events
    BY <1>2, <1>h DEF SocketFrames, Answers
  <2> QED
    BY <1>1, <1>2, <2>1 DEF StreamInOrder, Events
<1>4. /\ data' \in [Calls -> Seq(Nat)]
      /\ \A d \in Calls : d # c => Got(d)' = Got(d)
      /\ Got(c)' = read[c] \o Append(data[c], h.n)
      /\ \A d \in Calls : Got(d) \in Seq(Nat)
  <2>1. data \in [Calls -> Seq(Nat)] /\ read \in [Calls -> Seq(Nat)]
    BY <1>1 DEF RoutingTypes
  <2>2. Append(data[c], h.n) \in Seq(Nat) /\ read' = read
    BY <1>3, <2>1
  <2>3. /\ data' \in [Calls -> Seq(Nat)] /\ data'[c] = Append(data[c], h.n)
        /\ \A d \in Calls : d # c => data'[d] = data[d]
    BY <1>h, <2>1, <2>2
  <2>4. \A d \in Calls : Got(d) \in Seq(Nat)
    BY <2>1 DEF Got
  <2> QED
    BY <2>2, <2>3, <2>4 DEF Got
<1>5. Got(c)' = Append(Got(c), h.n)
  <2>1. read[c] \in Seq(Nat) /\ data[c] \in Seq(Nat)
    BY <1>1 DEF RoutingTypes
  <2> QED
    BY <1>3, <1>4, <2>1, AppendsLast DEF Got
<1>6. \A n \in Items(Got(c)) : n < h.n
  BY <1>1, <1>2, <1>3, <1>h DEF StreamInOrder
<1>7. /\ Items(Got(c)') = Items(Got(c)) \cup {h.n}
      /\ Rising(Got(c)')
  <2>1. Rising(Got(c))
    BY <1>1 DEF StreamInOrder
  <2>2. Got(c) \in Seq(Nat) /\ h.n \in Nat
    BY <1>3, <1>4
  <2>3. Items(Append(Got(c), h.n)) = Items(Got(c)) \cup {h.n}
    BY <2>2, ItemsOfAppend
  <2>4. Rising(Append(Got(c), h.n))
    BY <1>6, <2>1, <2>2, RisesOnAppend
  <2> QED
    BY <1>5, <2>3, <2>4, Zenon
<1>8. \A f \in Coming' : f \in Events /\ f.type = "Data" => h.n < f.n
  BY <1>2, <1>3 DEF Before
<1>9. StreamInOrder'
  <2>1. \A f \in Coming' : f \in Events => f.n <= output
    BY <1>1, <1>2 DEF StreamInOrder
  <2>2. \A d \in Calls : Rising(Got(d)') /\ \A n \in Items(Got(d)') : n <= output
    BY <1>1, <1>3, <1>4, <1>7 DEF StreamInOrder
  <2>3. \A d \in Calls : \A n \in Items(Got(d)'), f \in Coming' :
            f \in Events /\ f.type = "Data" => n < f.n
    <3>1. ASSUME NEW d \in Calls, NEW n \in Items(Got(d)'), NEW f \in Coming',
                 f \in Events, f.type = "Data"
          PROVE  n < f.n
      <4>1. CASE n \in Items(Got(d))
        BY <1>1, <1>2, <3>1, <4>1 DEF StreamInOrder
      <4>2. CASE n = h.n
        BY <1>8, <3>1, <4>2
      <4> QED
        BY <1>4, <1>7, <3>1, <4>1, <4>2
    <3> QED
      BY <3>1
  <2> QED
    BY <1>2, <2>1, <2>2, <2>3 DEF StreamInOrder
<1>10. NoneIsAstray'
  <2>1. ASSUME NEW n, IsComing(n) PROVE n = h.n \/ IsComing(n)'
    BY <1>2, <2>1 DEF IsComing
  <2>2. ASSUME NEW m \in servedAt[c], NEW n \in (m + 1)..output
        PROVE  n \in Items(Got(c)') \/ n \in unsent \/ IsComing(n)'
    BY <1>1, <1>7, <2>1, <2>2 DEF NoneIsAstray
  <2> QED
    BY <2>2 DEF NoneIsAstray
<1>11. SkippedAreUnsent'
  <2>1. ASSUME NEW m \in servedAt[c], NEW n \in (m + 1)..(h.n - 1)
        PROVE  n \in Items(Got(c)) \/ n \in unsent
    <3>1. m \in Nat /\ output \in Nat
      BY <1>1 DEF RoutingTypes
    <3>2. n \in (m + 1)..output /\ n < h.n /\ n \in Nat
      BY <1>3, <2>1, <3>1
    <3>3. ~IsComing(n)
      <4>1. ASSUME NEW f \in Coming, f \in Events, f.type = "Data", f.n = n PROVE FALSE
        <5>1. CASE f = h
          BY <1>3, <3>2, <4>1, <5>1
        <5>2. CASE f \in Coming'
          BY <1>3, <1>8, <3>2, <4>1, <5>2
        <5> QED
          BY <1>2, <5>1, <5>2
      <4> QED
        BY <4>1 DEF IsComing
    <3> QED
      BY <1>1, <3>2, <3>3 DEF NoneIsAstray
  <2>2. ASSUME NEW d \in Calls, NEW m \in servedAt[d], NEW g \in Items(Got(d)'),
               NEW n \in (m + 1)..(g - 1)
        PROVE  n \in Items(Got(d)') \/ n \in unsent
    <3>1. CASE g \in Items(Got(d))
      <4>1. n \in Items(Got(d)) \/ n \in unsent
        BY <1>1, <2>2, <3>1 DEF SkippedAreUnsent
      <4> QED
        BY <1>4, <1>7, <4>1
    <3>2. CASE d = c /\ g = h.n
      BY <1>7, <2>1, <2>2, <3>2
    <3> QED
      BY <1>4, <1>7, <2>2, <3>1, <3>2
  <2> QED
    BY <2>2 DEF SkippedAreUnsent
<1> QED
  BY <1>2, <1>4, <1>9, <1>10, <1>11

LEMMA ReaderMovesKeep ==
  ASSUME RoutingInv, OnData \/ OnExit \/ OnAnswer
  PROVE  RoutingInv'
<1> USE DEF daemonVars
<1>1. RoutingTypes /\ IdleAreUnserved
  BY DEF RoutingInv
<1>2. /\ frames # <<>> /\ frames' = Tail(frames)
      /\ UNCHANGED <<commands, clientEvents, heldAnswer, output, servedAt, unsent, read>>
  BY Zenon DEF OnData, OnExit, OnAnswer, Routes
<1>s. /\ sender' \in Calls \cup {Nobody}
      /\ OnExit \/ OnAnswer => data' = data
  BY <1>1 DEF RoutingTypes, OnData, OnExit, OnAnswer, AfterFailedSend
<1>p. /\ phase' \in [Calls -> Phases] /\ pending' \in Calls \cup {Nobody}
      /\ replay' \in [Calls -> Nat]
      /\ \A c \in Calls : phase'[c] = "idle" <=> phase[c] = "idle"
  <2>1. CASE UNCHANGED <<phase, pending, replay>>
    BY <1>1, <2>1 DEF RoutingTypes
  <2>2. CASE OnAnswer
    <3>1. Head(frames) \in SocketFrames
      BY <1>2, TakesTheFirst
    <3>2. Frame.n \in Nat
      BY <3>1 DEF SocketFrames, Answers, Events, Frame
    <3>3. pending' \in Calls \cup {Nobody}
      BY <2>2 DEF OnAnswer
    <3>4. CASE pending # Nobody /\ phase[pending] = "waiting"
      <4>1. pending \in Calls
        BY <1>1, <3>4 DEF RoutingTypes
      <4>2. PICK p \in {"refused", "attached"} : phase' = [phase EXCEPT ![pending] = p]
        BY <2>2, <3>4 DEF OnAnswer
      <4>3. replay' = [replay EXCEPT ![pending] = Frame.n]
        BY <2>2, <3>4 DEF OnAnswer
      <4>4. replay' \in [Calls -> Nat]
        BY <1>1, <3>2, <4>3 DEF RoutingTypes
      <4>5. phase' \in [Calls -> Phases] /\ \A c \in Calls : phase'[c] = "idle" <=> phase[c] = "idle"
        BY <1>1, <3>4, <4>1, <4>2 DEF RoutingTypes, Phases
      <4> QED
        BY <3>3, <4>4, <4>5
    <3>5. CASE ~(pending # Nobody /\ phase[pending] = "waiting")
      BY <1>1, <2>2, <3>3, <3>5 DEF OnAnswer, RoutingTypes
    <3> QED
      BY <3>4, <3>5
  <2> QED
    BY <2>1, <2>2 DEF OnData, OnExit
<1>3. /\ frames' \in Seq(SocketFrames) /\ data' \in [Calls -> Seq(Nat)]
      /\ StreamInOrder' /\ NoneIsAstray' /\ SkippedAreUnsent'
  <2>1. CASE OnData /\ data' # data
    <3>1. /\ sender \in Calls /\ sender' = sender /\ Head(frames).type = "Data"
          /\ data' = [data EXCEPT ![sender] = Append(@, Head(frames).n)]
      BY <1>1, <2>1 DEF OnData, Routes, Frame, RoutingTypes
    <3> QED
      BY <1>2, <3>1, ChunkIsGiven
  <2>2. CASE data' = data
    <3>1. ASSUME NEW c \in Calls, sender' = c
          PROVE  sender = c /\ ~(Head(frames) \in Events /\ Head(frames).type = "Data")
      <4>1. CASE OnData
        <5>1. sender # Nobody
          BY <3>1, <4>1, RoutingAssumption DEF OnData
        <5>2. sender \in Calls
          BY <1>1, <5>1 DEF RoutingTypes
        <5>3. CASE Closed(sender) \/ Len(data[sender]) >= Capacity
          BY <3>1, <4>1, <5>1, <5>3, RoutingAssumption DEF OnData, AfterFailedSend
        <5>4. CASE ~(Closed(sender) \/ Len(data[sender]) >= Capacity)
          <6>1. data' = [data EXCEPT ![sender] = Append(@, Frame.n)]
            BY <4>1, <5>1, <5>4 DEF OnData
          <6>2. data[sender] \in Seq(Nat) /\ data'[sender] = Append(data[sender], Frame.n)
            BY <1>1, <5>2, <6>1 DEF RoutingTypes
          <6>3. Append(data[sender], Frame.n) # data[sender]
            BY <6>2, LongerThanBefore
          <6> QED
            BY <2>2, <6>2, <6>3
        <5> QED
          BY <5>3, <5>4
      <4>2. CASE OnExit
        BY <3>1, <4>2, RoutingAssumption DEF OnExit
      <4>3. CASE OnAnswer
        <5>1. sender' = sender /\ Head(frames).type # "Data"
          BY <4>3 DEF OnAnswer, Routes, Frame
        <5> QED
          BY <3>1, <5>1
      <4> QED
        BY <4>1, <4>2, <4>3
    <3>2. data' \in [Calls -> Seq(Nat)]
      BY <1>1, <2>2 DEF RoutingTypes
    <3>3. UNCHANGED <<data, read, clientEvents, output, servedAt, unsent>>
      BY <1>2, <2>2
    <3> QED
      BY <1>2, <3>1, <3>2, <3>3, TakingKeeps
  <2>3. OnData \/ data' = data
    BY <1>s
  <2> QED
    BY <2>1, <2>2, <2>3, Zenon
<1>4. RoutingTypes'
  BY <1>1, <1>2, <1>s, <1>p, <1>3 DEF RoutingTypes
<1>5. IdleAreUnserved'
  <2>1. \A r \in Items(commands) : r.call \in Calls
    <3>1. \A i \in 1..Len(commands) : commands[i] \in AppCommands
      BY <1>1 DEF RoutingTypes
    <3>2. \A r \in Items(commands) : r \in AppCommands
      BY <3>1, Zenon DEF Items
    <3> QED
      BY <3>2 DEF AppCommands
  <2> QED
    BY <1>1, <1>2, <1>p, <2>1 DEF IdleAreUnserved
<1> QED
  BY <1>3, <1>4, <1>5 DEF RoutingInv

------------------------------------------------------------------------------
LEMMA RoutingNextKeeps == RoutingInv /\ [RoutingNext]_routeVars => RoutingInv'
<1> SUFFICES ASSUME RoutingInv, [RoutingNext]_routeVars PROVE RoutingInv'
  OBVIOUS
<1>1. ASSUME NEW c \in Calls,
             CreateOrAttach(c) \/ TimesOut(c) \/ DropHandle(c) \/ ViewReads(c) \/ Refused(c)
      PROVE  RoutingInv'
  BY <1>1, AppMovesKeep, ViewReadsKeeps
<1>2. ASSUME NEW c \in Calls, NEW how \in {"Detach", "Kill"}, Leave(c, how) PROVE RoutingInv'
  BY <1>2, AppMovesKeep
<1>3. CASE DaemonServes
  BY <1>3, DaemonServesKeeps
<1>4. CASE LoopSends \/ WriterSends
  BY <1>4, SendingKeeps
<1>5. CASE ShellWrites \/ ShellExits
  BY <1>5, ShellMovesKeep
<1>6. CASE OnData \/ OnExit \/ OnAnswer
  BY <1>6, ReaderMovesKeep
<1>7. CASE UNCHANGED routeVars
  <2>1. UNCHANGED <<phase, sender, pending, data, read, replay, commands, clientEvents,
                    heldAnswer, frames, output, servedAt, unsent>>
    BY <1>7 DEF routeVars, appVars, daemonVars, wireVars
  <2>2. \A c \in Calls : Got(c)' = Got(c)
    BY <2>1 DEF Got
  <2>3. StreamInOrder' /\ NoneIsAstray' /\ SkippedAreUnsent'
    BY <2>1, <2>2, SameStream
  <2>4. RoutingTypes' /\ IdleAreUnserved'
    BY <2>1 DEF RoutingInv, RoutingTypes, IdleAreUnserved
  <2> QED
    BY <2>3, <2>4 DEF RoutingInv
<1> QED
  BY <1>1, <1>2, <1>3, <1>4, <1>5, <1>6, <1>7 DEF RoutingNext

LEMMA InvGivesTheStream == RoutingInv => OnlyDroppedIsMissing
<1> SUFFICES ASSUME RoutingInv, NEW c \in Calls, OwnAnswer(c)
             PROVE  /\ \A i, j \in 1..Len(Got(c)) : i < j => Got(c)[i] < Got(c)[j]
                    /\ \A i \in 1..Len(Got(c)) : \A n \in (replay[c] + 1)..(Got(c)[i] - 1) :
                           Has(c, n) \/ n \in unsent
  BY DEF OnlyDroppedIsMissing
<1>1. Rising(Got(c)) /\ replay[c] \in servedAt[c]
  BY DEF RoutingInv, StreamInOrder, OwnAnswer
<1>2. \A n : n \in Items(Got(c)) <=> Has(c, n)
  BY Zenon DEF Items, Has
<1>3. \A i \in 1..Len(Got(c)) : Got(c)[i] \in Items(Got(c))
  BY DEF Items
<1>4. ASSUME NEW i \in 1..Len(Got(c)), NEW n \in (replay[c] + 1)..(Got(c)[i] - 1)
      PROVE  Has(c, n) \/ n \in unsent
  BY <1>1, <1>2, <1>3, <1>4 DEF RoutingInv, SkippedAreUnsent
<1> QED
  BY <1>1, <1>4 DEF Rising

(* For any number of calls, capacities and output: a view that was given its  *)
(* own answer gets the output after it in order and once, and lacks none of   *)
(* it but chunks that the daemon put into no channel (on_pty_data's dropped   *)
(* chunks), whatever the order of answers, chunks, exits, stalls, timeouts    *)
(* and later calls for the session.                                           *)
THEOREM StreamsLackOnlyTheDropped == RoutingSpec => []OnlyDroppedIsMissing
<1>1. RoutingInit => RoutingInv
  BY RoutingInvInit
<1>2. RoutingInv /\ [RoutingNext]_routeVars => RoutingInv'
  BY RoutingNextKeeps
<1>3. RoutingInv => OnlyDroppedIsMissing
  BY InvGivesTheStream
<1> QED
  BY <1>1, <1>2, <1>3, PTL DEF RoutingSpec

==============================================================================
