------------------------- MODULE AppOperationsProofs -------------------------
(***************************************************************************)
(* Proof that the books of AppOperations balance, for any devices, zones,  *)
(* effects and numbers of operations.                                      *)
(***************************************************************************)
EXTENDS AppOperations, SequenceTheorems, FunctionTheorems, FiniteSetTheorems,
        TLAPS

OpKind     == {"effect", "allOff", "profile"}
OpCall     == {"metadata", "profileEffect", "effect", "allOff"}
SingleKind == {"zone", "confirm", "revoke"}

Operation ==
  [kind : OpKind, total : Int, skipped : Int, settled : Int, pending : Int,
   reports : Int, offered : BOOLEAN]
Call == [kind : OpCall \cup SingleKind, op : Int, target : Target \cup Device, self : BOOLEAN]
Work == [ops : Seq(Operation), calls : SUBSET Call, busy : Int, profile : Int]

CallsOf(w, i) == {c \in w.calls : c.op = i}

Balanced(w, i) ==
  LET o == w.ops[i]
  IN  /\ o.settled + o.skipped + o.pending = o.total
      /\ o.pending = Cardinality(CallsOf(w, i))
      /\ o.reports = IF o.pending = 0 THEN 1 ELSE 0
      /\ ~o.offered => o.skipped = o.total
      /\ o.kind = "profile" => (w.profile = i <=> o.pending > 0)

(* The calls of the operations, and those of single zones and devices,     *)
(* which are numbered down from -1 to -n; a zone of an operation has one.  *)
WorkOK(w, n) ==
  /\ w \in Work
  /\ IsFiniteSet(w.calls)
  /\ w.busy = Cardinality(w.calls)
  /\ \A i \in DOMAIN w.ops : Balanced(w, i)
  /\ \A c \in w.calls : \/ c.op \in DOMAIN w.ops /\ c.kind \in OpCall
                        \/ -n <= c.op /\ c.op < 0 /\ c.kind \in SingleKind
  /\ \A c, d \in w.calls : c.op = d.op /\ c.target = d.target => c = d
  /\ w.profile # 0 => w.profile \in DOMAIN w.ops /\ w.ops[w.profile].kind = "profile"

LEMMA MapCardinality ==
  ASSUME NEW S, NEW T, IsFiniteSet(S), NEW f \in [S -> T],
         \A a, b \in S : f[a] = f[b] => a = b,
         \A t \in T : \E a \in S : f[a] = t
  PROVE  IsFiniteSet(T) /\ Cardinality(T) = Cardinality(S)
<1>1. f \in Bijection(S, T)
  BY Fun_IsBij
<1>2. ExistsBijection(S, T)
  BY <1>1, Fun_ExistsBij
<1> QED BY <1>2, FS_Bijection

LEMMA WorkFacts ==
  ASSUME NEW n, NEW w, WorkOK(w, n)
  PROVE  /\ w \in Work /\ w.ops \in Seq(Operation) /\ w.calls \subseteq Call
         /\ w.busy \in Int /\ w.profile \in Int
         /\ DOMAIN w.ops = 1 .. Len(w.ops) /\ Len(w.ops) \in Nat
         /\ \A i \in DOMAIN w.ops : w.ops[i] \in Operation
         /\ \A c \in w.calls : c.op \in Int /\ (c.op < 0 <=> c.op \notin DOMAIN w.ops)
<1>1. w \in Work /\ w.ops \in Seq(Operation) /\ w.calls \subseteq Call
      /\ w.busy \in Int /\ w.profile \in Int
  BY DEF WorkOK, Work
<1>2. \A c \in w.calls : c.op \in Int
  BY <1>1 DEF Call
<1>3. DOMAIN w.ops = 1 .. Len(w.ops) /\ Len(w.ops) \in Nat
      /\ \A i \in DOMAIN w.ops : w.ops[i] \in Operation
  BY <1>1
<1>4. ASSUME NEW c \in w.calls PROVE c.op \in Int /\ (c.op < 0 <=> c.op \notin DOMAIN w.ops)
  BY <1>2, <1>3 DEF WorkOK
<1> QED BY <1>1, <1>3, <1>4

(* The user's next operation only lowers the bound on the single calls.    *)
LEMMA MoreIssued ==
  ASSUME NEW n \in Nat, NEW w, WorkOK(w, n)
  PROVE  WorkOK(w, n + 1)
<1>1. ASSUME NEW c \in w.calls, -n <= c.op PROVE -(n + 1) <= c.op
  <2>1. c.op \in Int
    BY WorkFacts
  <2> QED BY <1>1, <2>1
<1> QED BY <1>1 DEF WorkOK

LEMMA CallsFinite ==
  ASSUME NEW n, NEW w, WorkOK(w, n), NEW i
  PROVE  IsFiniteSet(CallsOf(w, i)) /\ Cardinality(CallsOf(w, i)) \in Nat
<1>1. CallsOf(w, i) \in SUBSET w.calls /\ IsFiniteSet(w.calls)
  BY DEF CallsOf, WorkOK
<1>2. IsFiniteSet(CallsOf(w, i))
  BY <1>1, FS_Subset
<1> QED BY <1>2, FS_CardinalityType

-----------------------------------------------------------------------------
LEMMA FinishFacts ==
  ASSUME NEW p \in Operation
  PROVE  /\ Finish(p) \in Operation
         /\ Finish(p).kind = p.kind /\ Finish(p).total = p.total
         /\ Finish(p).skipped = p.skipped /\ Finish(p).offered = p.offered
         /\ Finish(p).settled = p.settled /\ Finish(p).pending = p.pending
         /\ Finish(p).reports = IF p.pending = 0 THEN p.reports + 1 ELSE p.reports
<1>1. CASE p.pending = 0
  BY <1>1 DEF Finish, Operation
<1>2. CASE p.pending # 0
  BY <1>2 DEF Finish
<1> QED BY <1>1, <1>2

LEMMA UpdatedOperation ==
  ASSUME NEW o \in Operation, NEW s \in Int, NEW k \in Int
  PROVE  [o EXCEPT !.settled = s, !.pending = k] \in Operation
BY DEF Operation

LEMMA SettledFacts ==
  ASSUME NEW o \in Operation
  PROVE  LET p == [o EXCEPT !.settled = @ + 1, !.pending = @ - 1]
         IN  /\ p \in Operation /\ p.kind = o.kind /\ p.total = o.total /\ p.skipped = o.skipped
             /\ p.offered = o.offered /\ p.reports = o.reports
             /\ p.settled = o.settled + 1 /\ p.pending = o.pending - 1
<1>1. PICK s \in Int, k \in Int : s = o.settled + 1 /\ k = o.pending - 1
  BY DEF Operation
<1> DEFINE p == [o EXCEPT !.settled = s, !.pending = k]
<1>2. p \in Operation
  BY UpdatedOperation
<1>3. /\ p.kind = o.kind /\ p.total = o.total /\ p.skipped = o.skipped
      /\ p.offered = o.offered /\ p.reports = o.reports /\ p.settled = s /\ p.pending = k
  BY DEF Operation
<1>4. [o EXCEPT !.settled = @ + 1, !.pending = @ - 1] = p
  BY <1>1
<1> HIDE DEF p
<1> QED BY <1>1, <1>2, <1>3, <1>4

(* A zone of an operation is settled.                                      *)
LEMMA SettleKeeps ==
  ASSUME NEW n, NEW w, WorkOK(w, n), NEW c \in w.calls, c.op \in DOMAIN w.ops
  PROVE  WorkOK(Settle(w, c), n)
<1> DEFINE i == c.op
           o == w.ops[i]
           p == [o EXCEPT !.settled = @ + 1, !.pending = @ - 1]
           q == Finish(p)
           v == Settle(w, c)
<1>1. /\ w \in Work /\ i \in DOMAIN w.ops /\ o \in Operation /\ i \in Int
      /\ Balanced(w, i)
  BY WorkFacts DEF WorkOK
<1>2. o.pending \in Int /\ o.pending >= 1
  <2>1. c \in CallsOf(w, i) /\ IsFiniteSet(CallsOf(w, i)) /\ Cardinality(CallsOf(w, i)) \in Nat
    BY CallsFinite DEF CallsOf
  <2>2. Cardinality(CallsOf(w, i)) # 0
    BY <2>1, FS_EmptySet
  <2> QED BY <1>1, <2>1, <2>2 DEF Balanced
<1>3. /\ p \in Operation /\ p.kind = o.kind /\ p.total = o.total /\ p.skipped = o.skipped
      /\ p.offered = o.offered /\ p.reports = o.reports
      /\ p.settled = o.settled + 1 /\ p.pending = o.pending - 1
  <2> HIDE DEF o
  <2> QED BY <1>1, SettledFacts
<1>4. /\ q \in Operation /\ q.kind = p.kind /\ q.total = p.total /\ q.skipped = p.skipped
      /\ q.offered = p.offered /\ q.settled = p.settled /\ q.pending = p.pending
      /\ q.reports = IF p.pending = 0 THEN p.reports + 1 ELSE p.reports
  <2> HIDE DEF p
  <2> QED BY <1>3, FinishFacts
<1>5. /\ v.ops = [w.ops EXCEPT ![i] = q] /\ v.calls = w.calls \ {c} /\ v.busy = w.busy - 1
      /\ v.profile = IF w.profile = i /\ q.pending = 0 THEN 0 ELSE w.profile
      /\ v = [ops |-> v.ops, calls |-> v.calls, busy |-> v.busy, profile |-> v.profile]
  <2>1. v = [w EXCEPT !.ops[i] = q, !.calls = @ \ {c}, !.busy = @ - 1,
                      !.profile = IF @ = i /\ q.pending = 0 THEN 0 ELSE @]
    BY DEF Settle
  <2> HIDE DEF q, v, i
  <2> QED BY <1>1, <2>1 DEF Work
<1> HIDE DEF p, q, v
<1>6. /\ v.ops \in Seq(Operation) /\ DOMAIN v.ops = DOMAIN w.ops
      /\ v.ops[i] = q /\ \A j \in DOMAIN w.ops : j # i => v.ops[j] = w.ops[j]
  <2>1. w.ops \in Seq(Operation)
    BY WorkFacts
  <2> QED BY <1>1, <1>4, <1>5, <2>1
<1>7. v \in Work
  <2>1. v.calls \subseteq Call /\ v.busy \in Int /\ v.profile \in Int
    BY <1>5, WorkFacts
  <2> QED BY <1>5, <1>6, <2>1 DEF Work
<1>8. IsFiniteSet(v.calls) /\ v.busy = Cardinality(v.calls)
  BY <1>5, FS_RemoveElement DEF WorkOK
<1>9. Balanced(v, i)
  <2>1. CallsOf(v, i) = CallsOf(w, i) \ {c} /\ c \in CallsOf(w, i)
    BY <1>5 DEF CallsOf
  <2>2. Cardinality(CallsOf(v, i)) = Cardinality(CallsOf(w, i)) - 1
    BY <2>1, CallsFinite, FS_RemoveElement
  <2>3. q.pending = Cardinality(CallsOf(v, i)) /\ q.pending \in Int /\ q.pending >= 0
    BY <1>1, <1>2, <1>3, <1>4, <2>2 DEF Balanced
  <2>4. q.settled + q.skipped + q.pending = q.total
    BY <1>1, <1>3, <1>4 DEF Balanced, Operation
  <2>5. q.reports = IF q.pending = 0 THEN 1 ELSE 0
    BY <1>1, <1>2, <1>3, <1>4 DEF Balanced
  <2>6. ~q.offered => q.skipped = q.total
    BY <1>1, <1>3, <1>4 DEF Balanced
  <2>7. q.kind = "profile" => (v.profile = i <=> q.pending > 0)
    <3>1. q.kind = "profile" => w.profile = i
      BY <1>1, <1>2, <1>3, <1>4 DEF Balanced
    <3>2. i # 0
      BY <1>1, WorkFacts
    <3> QED BY <1>5, <2>3, <3>1, <3>2
  <2> QED BY <1>6, <2>3, <2>4, <2>5, <2>6, <2>7 DEF Balanced
<1>10. ASSUME NEW j \in DOMAIN w.ops, j # i PROVE Balanced(v, j)
  <2>1. CallsOf(v, j) = CallsOf(w, j)
    BY <1>5, <1>10 DEF CallsOf
  <2>2. Balanced(w, j)
    BY DEF WorkOK
  <2>3. w.ops[j].kind = "profile" => (v.profile = j <=> w.profile = j)
    <3>1. j # 0
      BY WorkFacts
    <3> QED BY <1>5, <1>10, <3>1
  <2> QED BY <1>6, <1>10, <2>1, <2>2, <2>3 DEF Balanced
<1>11. v.profile # 0 => v.profile \in DOMAIN v.ops /\ v.ops[v.profile].kind = "profile"
  BY <1>3, <1>4, <1>5, <1>6 DEF WorkOK
<1>12. /\ \A d \in v.calls : \/ d.op \in DOMAIN v.ops /\ d.kind \in OpCall
                             \/ -n <= d.op /\ d.op < 0 /\ d.kind \in SingleKind
       /\ \A d, e \in v.calls : d.op = e.op /\ d.target = e.target => d = e
  BY <1>5, <1>6 DEF WorkOK
<1>13. WorkOK(v, n)
  BY <1>6, <1>7, <1>8, <1>9, <1>10, <1>11, <1>12 DEF WorkOK
<1> QED BY <1>13 DEF v

(* The operations and the balances are unchanged when the calls are mapped *)
(* one to one, each to one of the same operation and target.               *)
LEMMA MappedKeeps ==
  ASSUME NEW n, NEW w, WorkOK(w, n), NEW calls \in SUBSET Call, NEW f \in [w.calls -> calls],
         \A d \in calls : \E c \in w.calls : f[c] = d,
         \A c \in w.calls : /\ f[c].op = c.op /\ f[c].target = c.target
                            /\ c.kind \in OpCall => f[c].kind \in OpCall
                            /\ c.kind \in SingleKind => f[c].kind \in SingleKind
  PROVE  \A v : v = [w EXCEPT !.calls = calls] => WorkOK(v, n)
<1>2. \A a, b \in w.calls : f[a] = f[b] => a = b
  BY DEF WorkOK
<1>a. IsFiniteSet(w.calls)
  BY DEF WorkOK
<1>3. IsFiniteSet(calls) /\ Cardinality(calls) = Cardinality(w.calls)
  BY <1>a, <1>2, MapCardinality
<1> SUFFICES ASSUME NEW v, v = [w EXCEPT !.calls = calls] PROVE WorkOK(v, n)
  OBVIOUS
<1>1. /\ v \in Work /\ v.ops = w.ops /\ v.calls = calls /\ v.busy = w.busy /\ v.profile = w.profile
  BY DEF WorkOK, Work
<1>4. ASSUME NEW i \in DOMAIN w.ops PROVE Balanced(v, i)
  <2> DEFINE g == [c \in CallsOf(w, i) |-> f[c]]
  <2>a. ASSUME NEW c \in CallsOf(w, i) PROVE f[c] \in CallsOf(v, i)
    BY <1>1 DEF CallsOf
  <2>b. g \in [CallsOf(w, i) -> CallsOf(v, i)]
    BY <2>a
  <2>c. \A a, b \in CallsOf(w, i) : g[a] = g[b] => a = b
    BY <1>2 DEF CallsOf
  <2>d. ASSUME NEW d \in CallsOf(v, i) PROVE \E c \in CallsOf(w, i) : g[c] = d
    <3>1. PICK c \in w.calls : f[c] = d
      BY <1>1 DEF CallsOf
    <3>2. c \in CallsOf(w, i)
      BY <3>1 DEF CallsOf
    <3> QED BY <3>1, <3>2
  <2>e. \A d \in CallsOf(v, i) : \E c \in CallsOf(w, i) : g[c] = d
    BY <2>d
  <2> HIDE DEF g
  <2>1. IsFiniteSet(CallsOf(w, i))
    BY CallsFinite
  <2>2. Cardinality(CallsOf(v, i)) = Cardinality(CallsOf(w, i))
    BY <2>1, <2>b, <2>c, <2>e, MapCardinality
  <2> QED BY <1>1, <2>2 DEF Balanced, WorkOK
<1>5. \A d \in calls : \/ d.op \in DOMAIN w.ops /\ d.kind \in OpCall
                       \/ -n <= d.op /\ d.op < 0 /\ d.kind \in SingleKind
  BY DEF WorkOK
<1>6. \A d, e \in calls : d.op = e.op /\ d.target = e.target => d = e
  BY DEF WorkOK
<1> QED BY <1>1, <1>3, <1>4, <1>5, <1>6 DEF WorkOK

LEMMA OrphanedKeeps ==
  ASSUME NEW n, NEW w, WorkOK(w, n)
  PROVE  WorkOK(Orphaned(w), n) /\ Orphaned(w).profile = w.profile
<1> DEFINE calls == {[c EXCEPT !.self = FALSE] : c \in w.calls}
           f == [c \in w.calls |-> [c EXCEPT !.self = FALSE]]
<1>1. ASSUME NEW c \in w.calls
      PROVE  /\ f[c] \in Call /\ f[c].op = c.op /\ f[c].target = c.target
             /\ f[c].kind = c.kind
  <2>1. c \in Call
    BY WorkFacts
  <2> QED BY <2>1 DEF Call
<1>2. calls \in SUBSET Call /\ f \in [w.calls -> calls]
  BY <1>1
<1>a. \A d \in calls : \E c \in w.calls : f[c] = d
  OBVIOUS
<1>3. Orphaned(w) = [w EXCEPT !.calls = calls]
  BY DEF Orphaned
<1>b. \A c \in w.calls : /\ f[c].op = c.op /\ f[c].target = c.target
                         /\ c.kind \in OpCall => f[c].kind \in OpCall
                         /\ c.kind \in SingleKind => f[c].kind \in SingleKind
  BY <1>1
<1> HIDE DEF calls, f
<1>c. \A v : v = [w EXCEPT !.calls = calls] => WorkOK(v, n)
  BY <1>2, <1>a, <1>b, MappedKeeps
<1>4. WorkOK([w EXCEPT !.calls = calls], n)
  BY <1>c
<1>5. [w EXCEPT !.calls = calls].profile = w.profile
  BY WorkFacts DEF Work
<1> QED BY <1>3, <1>4, <1>5

(* A zone's metadata was stored, or it was not.                            *)
LEMMA MetadataKeeps ==
  ASSUME NEW n, NEW w, WorkOK(w, n), NEW c \in w.calls, c.kind = "metadata", NEW ok
  PROVE  WorkOK(MetadataEnds(w, c, ok), n)
<1>1. c.op \in DOMAIN w.ops
  BY DEF WorkOK, SingleKind
<1>2. CASE ok /\ c.self
  <2> DEFINE d == [c EXCEPT !.kind = "profileEffect"]
             calls == (w.calls \ {c}) \cup {d}
             f == [e \in w.calls |-> IF e = c THEN d ELSE e]
  <2>1. d \in Call /\ d.op = c.op /\ d.target = c.target /\ d.kind = "profileEffect"
    BY WorkFacts DEF Call, OpCall
  <2>2. MetadataEnds(w, c, ok) = [w EXCEPT !.calls = calls]
    BY <1>2 DEF MetadataEnds
  <2> HIDE DEF d
  <2>3. calls \in SUBSET Call /\ f \in [w.calls -> calls]
    BY <2>1, WorkFacts
  <2>4. \A e \in calls : \E a \in w.calls : f[a] = e
    OBVIOUS
  <2>5. \A e \in w.calls : /\ f[e].op = e.op /\ f[e].target = e.target
                           /\ e.kind \in OpCall => f[e].kind \in OpCall
                           /\ e.kind \in SingleKind => f[e].kind \in SingleKind
    BY <2>1 DEF OpCall, SingleKind
  <2> HIDE DEF calls, f
  <2>6. \A v : v = [w EXCEPT !.calls = calls] => WorkOK(v, n)
    BY <2>3, <2>4, <2>5, MappedKeeps
  <2> QED BY <2>2, <2>6
<1>3. CASE ~(ok /\ c.self)
  BY <1>1, <1>3, SettleKeeps DEF MetadataEnds
<1> QED BY <1>2, <1>3

-----------------------------------------------------------------------------
(* An operation is dispatched.  A profile is only when no other runs, and  *)
(* then the profile flag is raised if there is something to wait for.      *)
LEMMA DispatchKeeps ==
  ASSUME NEW n, NEW w, WorkOK(w, n), NEW kind \in OpKind, NEW T \in SUBSET (Target \cup Device),
         IsFiniteSet(T), NEW callKind \in OpCall, NEW skipped \in Int, NEW offered \in BOOLEAN,
         ~offered => T = {}, kind = "profile" => w.profile = 0
  PROVE  LET D == Dispatch(w, kind, T, callKind, skipped, offered)
         IN  \A v : v = [D EXCEPT !.profile = IF kind = "profile" /\ T # {} THEN Len(D.ops)
                                              ELSE @]
               => WorkOK(v, n)
<1> DEFINE D   == Dispatch(w, kind, T, callKind, skipped, offered)
           id  == Len(w.ops) + 1
           o   == [kind |-> kind, total |-> Cardinality(T) + skipped, skipped |-> skipped,
                   settled |-> 0, pending |-> Cardinality(T), reports |-> 0, offered |-> offered]
           q   == Finish(o)
           new == {[kind |-> callKind, op |-> id, target |-> t, self |-> TRUE] : t \in T}
<1> SUFFICES ASSUME NEW v, v = [D EXCEPT !.profile = IF kind = "profile" /\ T # {} THEN Len(D.ops)
                                                     ELSE @]
             PROVE  WorkOK(v, n)
  OBVIOUS
<1>1. /\ w \in Work /\ w.ops \in Seq(Operation) /\ w.calls \subseteq Call
      /\ w.busy \in Int /\ w.profile \in Int
      /\ DOMAIN w.ops = 1 .. Len(w.ops) /\ Len(w.ops) \in Nat
  BY WorkFacts
<1>2. Cardinality(T) \in Nat /\ (Cardinality(T) = 0 <=> T = {})
  BY FS_CardinalityType, FS_EmptySet
<1>3. id \in Int /\ id > 0 /\ id \notin DOMAIN w.ops
  BY <1>1
<1>4. o \in Operation
  <2>1. Cardinality(T) \in Int /\ Cardinality(T) + skipped \in Int /\ 0 \in Int
    BY <1>2
  <2> QED BY <2>1 DEF Operation
<1>5. /\ q \in Operation /\ q.kind = kind /\ q.total = Cardinality(T) + skipped
      /\ q.skipped = skipped /\ q.offered = offered /\ q.settled = 0
      /\ q.pending = Cardinality(T) /\ q.reports = IF T = {} THEN 1 ELSE 0
  <2>1. /\ o.kind = kind /\ o.total = Cardinality(T) + skipped /\ o.skipped = skipped
        /\ o.offered = offered /\ o.settled = 0 /\ o.pending = Cardinality(T) /\ o.reports = 0
    OBVIOUS
  <2> HIDE DEF o
  <2> QED BY <1>2, <1>4, <2>1, FinishFacts
<1>6. /\ D.ops = Append(w.ops, q) /\ D.calls = w.calls \cup new
      /\ D.busy = w.busy + Cardinality(T) /\ D.profile = w.profile
      /\ D = [ops |-> D.ops, calls |-> D.calls, busy |-> D.busy, profile |-> D.profile]
  <2>1. D = [w EXCEPT !.ops = Append(@, q), !.busy = @ + Cardinality(T), !.calls = @ \cup new]
    BY DEF Dispatch
  <2> HIDE DEF D, q, new
  <2> QED BY <1>1, <2>1 DEF Work
<1> HIDE DEF D, q, o
<1>7. /\ Append(w.ops, q) \in Seq(Operation) /\ Len(Append(w.ops, q)) = id
      /\ Append(w.ops, q)[id] = q
      /\ \A i \in DOMAIN w.ops : Append(w.ops, q)[i] = w.ops[i]
  BY <1>1, <1>5, AppendProperties
<1>8. /\ v.ops = Append(w.ops, q) /\ v.calls = w.calls \cup new
      /\ v.busy = w.busy + Cardinality(T)
      /\ v.profile = IF kind = "profile" /\ T # {} THEN id ELSE w.profile
      /\ v = [ops |-> v.ops, calls |-> v.calls, busy |-> v.busy, profile |-> v.profile]
  BY <1>6, <1>7
<1>9. \A c \in new : c \in Call /\ c.op = id /\ c.kind \in OpCall
  <2> SUFFICES ASSUME NEW t \in T
               PROVE  LET c == [kind |-> callKind, op |-> id, target |-> t, self |-> TRUE]
                      IN  c \in Call /\ c.op = id /\ c.kind \in OpCall
    OBVIOUS
  <2> HIDE DEF id
  <2> QED BY <1>3 DEF Call
<1>10. IsFiniteSet(new) /\ Cardinality(new) = Cardinality(T)
  <2> DEFINE f == [t \in T |-> [kind |-> callKind, op |-> id, target |-> t, self |-> TRUE]]
  <2>1. f \in [T -> new]
    OBVIOUS
  <2>2. \A a, b \in T : f[a] = f[b] => a = b
    <3> SUFFICES ASSUME NEW a \in T, NEW b \in T, f[a] = f[b] PROVE a = b
      OBVIOUS
    <3>1. f[a].target = a /\ f[b].target = b
      OBVIOUS
    <3> QED BY <3>1
  <2>3. \A c \in new : \E t \in T : f[t] = c
    OBVIOUS
  <2> HIDE DEF f, new
  <2> QED BY <2>1, <2>2, <2>3, MapCardinality
<1>11. ASSUME NEW c \in new, NEW d \in new, c.target = d.target PROVE c = d
  <2>1. PICK t \in T : c = [kind |-> callKind, op |-> id, target |-> t, self |-> TRUE]
    OBVIOUS
  <2>2. PICK u \in T : d = [kind |-> callKind, op |-> id, target |-> u, self |-> TRUE]
    OBVIOUS
  <2>3. c.target = t /\ d.target = u
    BY <2>1, <2>2
  <2> QED BY <1>11, <2>1, <2>2, <2>3
<1>a. \A c \in w.calls : c.op # id
  BY <1>1, <1>3 DEF WorkOK
<1> HIDE DEF new
<1>12. w.calls \cap new = {}
  BY <1>9, <1>a
<1>13. IsFiniteSet(v.calls) /\ v.busy = Cardinality(v.calls)
  <2>1. IsFiniteSet(w.calls) /\ w.busy = Cardinality(w.calls)
    BY DEF WorkOK
  <2>2. /\ IsFiniteSet(w.calls \cup new)
        /\ Cardinality(w.calls \cup new)
             = Cardinality(w.calls) + Cardinality(new) - Cardinality(w.calls \cap new)
    BY <1>10, <2>1, FS_Union
  <2>3. Cardinality(w.calls \cap new) = 0
    BY <1>12, FS_EmptySet
  <2>4. Cardinality(w.calls \cup new) = Cardinality(w.calls) + Cardinality(T)
    <3>1. Cardinality(w.calls) \in Int /\ Cardinality(T) \in Int
      BY <1>1, <1>2, <2>1
    <3> QED BY <1>10, <2>2, <2>3, <3>1
  <2> QED BY <1>8, <2>1, <2>2, <2>4
<1>14. v \in Work
  <2>1. v.ops \in Seq(Operation) /\ v.calls \subseteq Call
    BY <1>1, <1>7, <1>8, <1>9
  <2>2. v.busy \in Int /\ v.profile \in Int
    BY <1>1, <1>2, <1>3, <1>8
  <2> QED BY <1>8, <2>1, <2>2 DEF Work
<1>15. DOMAIN v.ops = DOMAIN w.ops \cup {id}
  <2>1. DOMAIN v.ops = 1 .. id
    BY <1>7, <1>8
  <2> QED BY <1>1, <2>1
<1> HIDE DEF id
<1>16. Balanced(v, id)
  <2>1. CallsOf(v, id) = new
    BY <1>8, <1>9, <1>a DEF CallsOf
  <2>2. v.ops[id] = q
    BY <1>7, <1>8
  <2>3. q.settled + q.skipped + q.pending = q.total
    BY <1>2, <1>5
  <2>4. q.reports = IF q.pending = 0 THEN 1 ELSE 0
    BY <1>2, <1>5
  <2>5. ~q.offered => q.skipped = q.total
    BY <1>2, <1>5
  <2>6. q.kind = "profile" => (v.profile = id <=> q.pending > 0)
    BY <1>2, <1>3, <1>5, <1>8
  <2> QED BY <1>5, <1>10, <2>1, <2>2, <2>3, <2>4, <2>5, <2>6 DEF Balanced
<1>17. ASSUME NEW i \in DOMAIN w.ops PROVE Balanced(v, i)
  <2>1. i # id /\ i # 0 /\ Balanced(w, i) /\ v.ops[i] = w.ops[i]
    BY <1>1, <1>3, <1>7, <1>8 DEF WorkOK
  <2>2. CallsOf(v, i) = CallsOf(w, i)
    BY <1>8, <1>9, <2>1 DEF CallsOf
  <2>3. w.ops[i].kind = "profile" => (v.profile = i <=> w.profile = i)
    BY <1>8, <2>1
  <2> QED BY <2>1, <2>2, <2>3 DEF Balanced
<1>18. \A c \in v.calls : \/ c.op \in DOMAIN v.ops /\ c.kind \in OpCall
                          \/ -n <= c.op /\ c.op < 0 /\ c.kind \in SingleKind
  BY <1>8, <1>9, <1>15 DEF WorkOK
<1>19. \A c, d \in v.calls : c.op = d.op /\ c.target = d.target => c = d
  BY <1>8, <1>9, <1>11, <1>a DEF WorkOK
<1>20. v.profile # 0 => v.profile \in DOMAIN v.ops /\ v.ops[v.profile].kind = "profile"
  BY <1>3, <1>5, <1>7, <1>8, <1>15 DEF WorkOK
<1> QED BY <1>13, <1>14, <1>15, <1>16, <1>17, <1>18, <1>19, <1>20 DEF WorkOK

LEMMA OperationKeeps ==
  ASSUME NEW n, NEW w, WorkOK(w, n), NEW kind \in {"effect", "allOff"},
         NEW T \in SUBSET (Target \cup Device), IsFiniteSet(T), NEW callKind \in OpCall,
         NEW skipped \in Int, NEW offered \in BOOLEAN, ~offered => T = {}
  PROVE  WorkOK(Dispatch(w, kind, T, callKind, skipped, offered), n)
<1> DEFINE D == Dispatch(w, kind, T, callKind, skipped, offered)
<1>1. \A v : v = [D EXCEPT !.profile = IF kind = "profile" /\ T # {} THEN Len(D.ops) ELSE @]
            => WorkOK(v, n)
  BY DispatchKeeps DEF OpKind
<1>2. D = [D EXCEPT !.profile = IF kind = "profile" /\ T # {} THEN Len(D.ops) ELSE @]
  BY DEF Dispatch, WorkOK, Work
<1> HIDE DEF D
<1>3. WorkOK(D, n)
  BY <1>1, <1>2
<1> QED BY <1>3 DEF D

LEMMA ApplyProfileKeeps ==
  ASSUME NEW n, NEW w, WorkOK(w, n), w.profile = 0, NEW T \in SUBSET Target, NEW loads
  PROVE  WorkOK(ApplyProfile(w, T, loads), n)
<1> DEFINE D == Dispatch(w, "profile", T, "metadata", Cardinality(Target \ T), TRUE)
<1>1. /\ IsFiniteSet(T) /\ T \in SUBSET (Target \cup Device)
      /\ Cardinality(Target \ T) \in Int
  <2>1. IsFiniteSet(Target)
    BY OperationsAssumption
  <2>2. IsFiniteSet(T) /\ IsFiniteSet(Target \ T)
    BY <2>1, FS_Subset
  <2> QED BY <2>2, FS_CardinalityType
<1>2. "profile" \in OpKind /\ "metadata" \in OpCall /\ TRUE \in BOOLEAN
  BY DEF OpKind, OpCall
<1>3. \A v : v = [D EXCEPT !.profile = IF "profile" = "profile" /\ T # {} THEN Len(D.ops) ELSE @]
            => WorkOK(v, n)
  BY <1>1, <1>2, DispatchKeeps
<1>4. D.profile = 0
  BY DEF Dispatch, WorkOK, Work
<1>5. CASE ~loads
  BY <1>5 DEF ApplyProfile
<1>6. CASE loads
  <2>1. ApplyProfile(w, T, loads) = [D EXCEPT !.profile = IF T = {} THEN 0 ELSE Len(D.ops)]
    BY <1>6 DEF ApplyProfile
  <2> HIDE DEF D
  <2>2. ApplyProfile(w, T, loads)
          = [D EXCEPT !.profile = IF "profile" = "profile" /\ T # {} THEN Len(D.ops) ELSE @]
    BY <1>4, <2>1
  <2> QED BY <1>3, <2>2
<1> QED BY <1>5, <1>6

-----------------------------------------------------------------------------
(* Calls on single devices and zones come and go beside the operations.    *)
LEMMA BesideKeeps ==
  ASSUME NEW n, NEW w, WorkOK(w, n), NEW v \in Work, v.ops = w.ops, v.profile = w.profile,
         \A i \in DOMAIN w.ops : CallsOf(v, i) = CallsOf(w, i)
  PROVE  \A i \in DOMAIN v.ops : Balanced(v, i)
BY DEF WorkOK, Balanced

LEMMA SingleAdded ==
  ASSUME NEW n \in Nat, NEW w, WorkOK(w, n), NEW kind \in SingleKind,
         NEW t \in Target \cup Device
  PROVE  LET c == [kind |-> kind, op |-> -(n + 1), target |-> t, self |-> TRUE]
         IN  WorkOK([w EXCEPT !.busy = @ + 1, !.calls = @ \cup {c}], n + 1)
<1> DEFINE c == [kind |-> kind, op |-> -(n + 1), target |-> t, self |-> TRUE]
           v == [w EXCEPT !.busy = @ + 1, !.calls = @ \cup {c}]
<1>1. /\ w \in Work /\ w.ops \in Seq(Operation) /\ w.calls \subseteq Call
      /\ w.busy \in Int /\ w.profile \in Int
      /\ DOMAIN w.ops = 1 .. Len(w.ops) /\ Len(w.ops) \in Nat
  BY WorkFacts
<1>2. -(n + 1) \in Int /\ -(n + 1) < 0 /\ -(n + 1) < -n
  OBVIOUS
<1>3. c \in Call /\ c.op = -(n + 1) /\ c.kind \in SingleKind
  BY <1>2 DEF Call
<1> HIDE DEF c
<1>a. PICK busy \in Int, calls \in SUBSET Call : busy = w.busy + 1 /\ calls = w.calls \cup {c}
  <2>1. w.busy + 1 \in Int /\ w.calls \cup {c} \in SUBSET Call
    BY <1>1, <1>3
  <2> QED BY <2>1
<1>b. v = [w EXCEPT !.busy = busy, !.calls = calls]
  BY <1>a
<1> HIDE DEF v
<1>6. v \in Work
  BY <1>1, <1>b DEF Work
<1>4. /\ v.ops = w.ops /\ v.calls = w.calls \cup {c} /\ v.busy = w.busy + 1
      /\ v.profile = w.profile
  BY <1>1, <1>a, <1>b DEF Work
<1>5. \A d \in w.calls : d.op # c.op
  BY <1>1, <1>2, <1>3 DEF WorkOK
<1>7. IsFiniteSet(v.calls) /\ v.busy = Cardinality(v.calls)
  <2>1. c \notin w.calls /\ IsFiniteSet(w.calls) /\ w.busy = Cardinality(w.calls)
    BY <1>5 DEF WorkOK
  <2>2. /\ IsFiniteSet(w.calls \cup {c})
        /\ Cardinality(w.calls \cup {c}) = Cardinality(w.calls) + 1
    BY <2>1, FS_AddElement
  <2> QED BY <1>4, <2>1, <2>2
<1>8. \A i \in DOMAIN w.ops : CallsOf(v, i) = CallsOf(w, i)
  <2>1. c.op \notin DOMAIN w.ops
    BY <1>1, <1>2, <1>3
  <2> QED BY <1>4, <2>1 DEF CallsOf
<1>9. \A i \in DOMAIN v.ops : Balanced(v, i)
  BY <1>4, <1>6, <1>8, BesideKeeps
<1>10. ASSUME NEW d \in v.calls
       PROVE  \/ d.op \in DOMAIN v.ops /\ d.kind \in OpCall
              \/ -(n + 1) <= d.op /\ d.op < 0 /\ d.kind \in SingleKind
  <2>1. CASE d = c
    BY <1>2, <1>3, <2>1
  <2>2. CASE d \in w.calls
    <3>1. d.op \in Int
      BY <1>1, <2>2 DEF Call
    <3> QED BY <1>4, <2>2, <3>1 DEF WorkOK
  <2> QED BY <1>4, <2>1, <2>2
<1>11. \A d, e \in v.calls : d.op = e.op /\ d.target = e.target => d = e
  BY <1>4, <1>5 DEF WorkOK
<1>12. v.profile # 0 => v.profile \in DOMAIN v.ops /\ v.ops[v.profile].kind = "profile"
  BY <1>4 DEF WorkOK
<1>13. WorkOK(v, n + 1)
  BY <1>6, <1>7, <1>9, <1>10, <1>11, <1>12 DEF WorkOK
<1> QED BY <1>13 DEF v, c

LEMMA SingleRemoved ==
  ASSUME NEW n, NEW w, WorkOK(w, n), NEW c \in w.calls, c.kind \in SingleKind
  PROVE  WorkOK([w EXCEPT !.calls = @ \ {c}, !.busy = @ - 1], n)
<1> DEFINE v == [w EXCEPT !.calls = @ \ {c}, !.busy = @ - 1]
<1>1. /\ w \in Work /\ w.ops \in Seq(Operation) /\ w.calls \subseteq Call
      /\ w.busy \in Int /\ w.profile \in Int
  BY WorkFacts
<1>a. PICK busy \in Int, calls \in SUBSET Call : busy = w.busy - 1 /\ calls = w.calls \ {c}
  <2>1. w.busy - 1 \in Int /\ w.calls \ {c} \in SUBSET Call
    BY <1>1
  <2> QED BY <2>1
<1>b. v = [w EXCEPT !.calls = calls, !.busy = busy]
  BY <1>a
<1> HIDE DEF v
<1>3. v \in Work
  BY <1>1, <1>b DEF Work
<1>2. /\ v.ops = w.ops /\ v.calls = w.calls \ {c} /\ v.busy = w.busy - 1
      /\ v.profile = w.profile
  BY <1>1, <1>a, <1>b DEF Work
<1>4. IsFiniteSet(v.calls) /\ v.busy = Cardinality(v.calls)
  <2>1. IsFiniteSet(w.calls) /\ w.busy = Cardinality(w.calls)
    BY DEF WorkOK
  <2>2. /\ IsFiniteSet(w.calls \ {c})
        /\ Cardinality(w.calls \ {c}) = Cardinality(w.calls) - 1
    BY <2>1, FS_RemoveElement
  <2> QED BY <1>2, <2>1, <2>2
<1>5. c.op \notin DOMAIN w.ops
  <2>1. c.op < 0
    BY DEF WorkOK, OpCall, SingleKind
  <2> QED BY <2>1, WorkFacts
<1>6. \A i \in DOMAIN w.ops : CallsOf(v, i) = CallsOf(w, i)
  BY <1>2, <1>5 DEF CallsOf
<1>7. \A i \in DOMAIN v.ops : Balanced(v, i)
  BY <1>2, <1>3, <1>6, BesideKeeps
<1>8. WorkOK(v, n)
  BY <1>2, <1>3, <1>4, <1>7 DEF WorkOK
<1> QED BY <1>8 DEF v

(* All that is outstanding fails at once.                                  *)
LEMMA DisconnectKeeps ==
  ASSUME NEW n, NEW w, WorkOK(w, n)
  PROVE  WorkOK([ops |-> [i \in DOMAIN w.ops |->
                            LET o == w.ops[i]
                            IN  IF o.pending = 0 THEN o
                                ELSE Finish([o EXCEPT !.settled = @ + o.pending, !.pending = 0])],
                 calls |-> {}, busy |-> 0, profile |-> 0], n)
<1> DEFINE Q(i) == LET o == w.ops[i]
                   IN  IF o.pending = 0 THEN o
                       ELSE Finish([o EXCEPT !.settled = @ + o.pending, !.pending = 0])
           v == [ops |-> [i \in DOMAIN w.ops |-> Q(i)], calls |-> {}, busy |-> 0, profile |-> 0]
<1>1. ASSUME NEW i \in DOMAIN w.ops
      PROVE  /\ Q(i) \in Operation /\ Q(i).pending = 0 /\ Q(i).reports = 1
             /\ Q(i).settled + Q(i).skipped = Q(i).total
             /\ ~Q(i).offered => Q(i).skipped = Q(i).total
  <2> DEFINE o == w.ops[i]
             p == [o EXCEPT !.settled = @ + o.pending, !.pending = 0]
  <2>1. o \in Operation
    BY WorkFacts
  <2>2. /\ o.settled + o.skipped + o.pending = o.total
        /\ o.reports = IF o.pending = 0 THEN 1 ELSE 0
        /\ ~o.offered => o.skipped = o.total
    BY DEF WorkOK, Balanced
  <2> HIDE DEF o
  <2>3. /\ o.settled \in Int /\ o.skipped \in Int /\ o.pending \in Int /\ o.total \in Int
    BY <2>1 DEF Operation
  <2>4. CASE o.pending = 0
    <3>1. Q(i) = o
      BY <2>4 DEF o
    <3> QED BY <2>1, <2>2, <2>3, <2>4, <3>1
  <2>5. CASE o.pending # 0
    <3>1. Q(i) = Finish(p)
      BY <2>5 DEF o
    <3>2. PICK s \in Int : s = o.settled + o.pending
      BY <2>3
    <3>3. p = [o EXCEPT !.settled = s, !.pending = 0]
      BY <3>2
    <3> HIDE DEF p, Q
    <3>4. p \in Operation
      <4>1. 0 \in Int
        OBVIOUS
      <4> QED BY <2>1, <3>3, <4>1, UpdatedOperation
    <3>5. /\ p.total = o.total /\ p.skipped = o.skipped /\ p.offered = o.offered
          /\ p.reports = o.reports /\ p.settled = s /\ p.pending = 0
      BY <2>1, <3>3 DEF Operation
    <3>6. /\ Finish(p) \in Operation /\ Finish(p).total = o.total
          /\ Finish(p).skipped = o.skipped /\ Finish(p).offered = o.offered
          /\ Finish(p).settled = s /\ Finish(p).pending = 0 /\ Finish(p).reports = o.reports + 1
      BY <3>4, <3>5, FinishFacts
    <3>7. o.reports + 1 = 1 /\ s + o.skipped = o.total
      BY <2>2, <2>3, <2>5, <3>2
    <3> QED BY <2>2, <3>1, <3>6, <3>7
  <2> QED BY <2>4, <2>5
<1> HIDE DEF Q
<1>2. /\ DOMAIN v.ops = DOMAIN w.ops /\ \A i \in DOMAIN w.ops : v.ops[i] = Q(i)
      /\ v.calls = {} /\ v.busy = 0 /\ v.profile = 0
  OBVIOUS
<1>3. v \in Work
  <2>1. DOMAIN w.ops = 1 .. Len(w.ops) /\ Len(w.ops) \in Nat
    BY WorkFacts
  <2>2. [i \in DOMAIN w.ops |-> Q(i)] \in Seq(Operation)
    BY <1>1, <2>1
  <2> QED BY <2>2 DEF Work
<1> HIDE DEF v
<1>4. ASSUME NEW i \in DOMAIN v.ops PROVE Balanced(v, i)
  <2>1. CallsOf(v, i) = {}
    BY <1>2 DEF CallsOf
  <2>2. v.ops[i] = Q(i) /\ i # 0
    BY <1>2, WorkFacts
  <2>3. Cardinality(CallsOf(v, i)) = 0
    BY <2>1, FS_EmptySet
  <2>4. Q(i).settled + Q(i).skipped + Q(i).pending = Q(i).total
    <3>1. Q(i).settled \in Int /\ Q(i).skipped \in Int
      BY <1>1, <1>2 DEF Operation
    <3> QED BY <1>1, <1>2, <3>1
  <2> QED BY <1>1, <1>2, <2>2, <2>3, <2>4 DEF Balanced
<1>5. IsFiniteSet(v.calls) /\ v.busy = Cardinality(v.calls)
  BY <1>2, FS_EmptySet
<1>6. WorkOK(v, n)
  BY <1>2, <1>3, <1>4, <1>5 DEF WorkOK
<1> QED BY <1>6 DEF v, Q

-----------------------------------------------------------------------------
BooksInv == issued \in Nat /\ WorkOK(work, issued)

LEMMA InitBooks == Init => BooksInv
<1> SUFFICES ASSUME Init PROVE BooksInv
  OBVIOUS
<1>1. work = [ops |-> <<>>, calls |-> {}, busy |-> 0, profile |-> 0] /\ issued = 0
  BY DEF Init
<1>2. /\ work.ops = <<>> /\ work.calls = {} /\ work.busy = 0 /\ work.profile = 0
      /\ DOMAIN work.ops = {}
  BY <1>1
<1>3. work \in Work
  BY <1>1 DEF Work
<1> QED BY <1>1, <1>2, <1>3, FS_EmptySet DEF BooksInv, WorkOK

LEMMA PlansAreTargets == ASSUME NEW T \in Plans PROVE T \in SUBSET Target
BY DEF Plans

LEMMA ProfileEndsKeeps ==
  ASSUME NEW n, NEW w, WorkOK(w, n), WhenProfileEnds(w)
  PROVE  WorkOK(work', n)
<1>1. CASE work' = w
  BY <1>1
<1>2. CASE w.profile = 0 /\ \E T \in Plans, loads \in BOOLEAN : work' = ApplyProfile(w, T, loads)
  <2>1. PICK T \in Plans, loads \in BOOLEAN : work' = ApplyProfile(w, T, loads)
    BY <1>2
  <2> QED BY <1>2, <2>1, PlansAreTargets, ApplyProfileKeeps
<1> QED BY <1>1, <1>2 DEF WhenProfileEnds

LEMMA GlobalEffectBooks ==
  ASSUME BooksInv, NEW G, NEW effect, NEW preserve, ApplyGlobalEffect(G, effect, preserve)
  PROVE  BooksInv'
<1> DEFINE zones   == {t \in Target : listed /\ t[1] \in G}
           T       == {t \in zones : Applies(t, effect[t], preserve)}
           offered == \E t \in zones : GlobalTargetSupportsEffect(G, effect[t])
<1>1. /\ work' = Dispatch(work, "effect", T, "effect", Cardinality(zones \ T), offered)
      /\ issued' = issued + 1
  BY DEF ApplyGlobalEffect, Issue
<1>2. /\ T \in SUBSET (Target \cup Device) /\ IsFiniteSet(T)
      /\ Cardinality(zones \ T) \in Int
  <2>1. T \in SUBSET Target /\ zones \ T \in SUBSET Target /\ IsFiniteSet(Target)
    BY OperationsAssumption
  <2> HIDE DEF T, zones
  <2>2. IsFiniteSet(T) /\ IsFiniteSet(zones \ T)
    BY <2>1, FS_Subset
  <2> QED BY <2>1, <2>2, FS_CardinalityType
<1>3. ~offered => T = {}
  BY DEF Applies, GlobalTargetSupportsEffect
<1>4. offered \in BOOLEAN /\ "effect" \in OpCall
  BY DEF OpCall
<1> HIDE DEF T, zones, offered
<1>5. WorkOK(work', issued)
  BY <1>1, <1>2, <1>3, <1>4, OperationKeeps DEF BooksInv
<1> QED BY <1>1, <1>5, MoreIssued DEF BooksInv

LEMMA AllOffBooks ==
  ASSUME BooksInv, NEW G \in SUBSET Device, AllOffDevices(G)
  PROVE  BooksInv'
<1> DEFINE devices == {d \in G : listed}
           T       == {d \in devices : ~Unconfirmed(d)}
<1>1. /\ work' = Dispatch(work, "allOff", T, "allOff", Cardinality(devices \ T), TRUE)
      /\ issued' = issued + 1
  BY DEF AllOffDevices, Issue
<1>2. /\ T \in SUBSET (Target \cup Device) /\ IsFiniteSet(T)
      /\ Cardinality(devices \ T) \in Int
  <2>1. T \in SUBSET Device /\ devices \ T \in SUBSET Device /\ IsFiniteSet(Device)
    BY OperationsAssumption
  <2> HIDE DEF T, devices
  <2>2. IsFiniteSet(T) /\ IsFiniteSet(devices \ T)
    BY <2>1, FS_Subset
  <2> QED BY <2>1, <2>2, FS_CardinalityType
<1>3. TRUE \in BOOLEAN /\ "allOff" \in OpCall
  BY DEF OpCall
<1> HIDE DEF T, devices
<1>4. WorkOK(work', issued)
  BY <1>1, <1>2, <1>3, OperationKeeps DEF BooksInv
<1>5. issued \in Nat
  BY DEF BooksInv
<1>6. WorkOK(work', issued + 1)
  BY <1>4, <1>5, MoreIssued
<1>7. issued' \in Nat /\ issued' = issued + 1
  BY <1>1, <1>5
<1> QED BY <1>6, <1>7 DEF BooksInv

LEMMA SingleBooks ==
  ASSUME BooksInv, NEW kind \in SingleKind, NEW t \in Target \cup Device, SingleCall(kind, t)
  PROVE  BooksInv'
<1>1. /\ issued' = issued + 1
      /\ work' = [work EXCEPT !.busy = @ + 1,
                    !.calls = @ \cup {[kind |-> kind, op |-> -(issued + 1), target |-> t,
                                       self |-> TRUE]}]
  BY DEF SingleCall, Issue
<1>2. WorkOK(work', issued + 1)
  BY <1>1, SingleAdded DEF BooksInv
<1> QED BY <1>1, <1>2 DEF BooksInv

LEMMA CallEndsBooks ==
  ASSUME BooksInv, NEW c \in work.calls, NEW ok, CallEnds(c, ok)
  PROVE  BooksInv'
<1>1. issued' = issued /\ issued \in Nat /\ WorkOK(work, issued)
  BY DEF CallEnds, bounds, BooksInv
<1>2. CASE c.kind = "metadata"
  <2>1. WhenProfileEnds(MetadataEnds(work, c, ok))
    BY <1>2 DEF CallEnds
  <2>2. WorkOK(MetadataEnds(work, c, ok), issued)
    BY <1>1, <1>2, MetadataKeeps
  <2>3. WorkOK(work', issued)
    BY <2>1, <2>2, ProfileEndsKeeps
  <2> QED BY <1>1, <2>3 DEF BooksInv
<1>3. CASE c.kind \in {"profileEffect", "effect", "allOff"}
  <2>1. WhenProfileEnds(Settle(work, c))
    BY <1>3 DEF CallEnds
  <2>2. c.op \in DOMAIN work.ops
    BY <1>1, <1>3 DEF WorkOK, SingleKind
  <2>3. WorkOK(Settle(work, c), issued)
    BY <1>1, <2>2, SettleKeeps
  <2>4. WorkOK(work', issued)
    BY <2>1, <2>3, ProfileEndsKeeps
  <2> QED BY <1>1, <2>4 DEF BooksInv
<1>4. CASE c.kind \notin {"metadata", "profileEffect", "effect", "allOff"}
  <2>1. work' = [work EXCEPT !.calls = @ \ {c}, !.busy = @ - 1]
    BY <1>4 DEF CallEnds
  <2>2. c.kind \in SingleKind
    BY <1>1, <1>4 DEF WorkOK, OpCall
  <2>3. WorkOK(work', issued)
    BY <1>1, <2>1, <2>2, SingleRemoved
  <2> QED BY <1>1, <2>3 DEF BooksInv
<1> QED BY <1>2, <1>3, <1>4

LEMMA ListCompleteBooks ==
  ASSUME BooksInv, ListComplete
  PROVE  BooksInv'
<1>1. issued' = issued /\ issued \in Nat /\ WorkOK(work, issued)
  BY DEF ListComplete, bounds, BooksInv
<1>2. PICK T1 \in Plans, T2 \in Plans, loads1 \in BOOLEAN, loads2 \in BOOLEAN :
        LET start  == launch = "parked" /\ work.profile = 0
            first  == IF start THEN ApplyProfile(Orphaned(work), T1, loads1) ELSE Orphaned(work)
            second == scheduled = "parked" /\ first.profile = 0
        IN  work' = IF second THEN ApplyProfile(first, T2, loads2) ELSE first
  BY DEF ListComplete
<1> DEFINE start  == launch = "parked" /\ work.profile = 0
           first  == IF start THEN ApplyProfile(Orphaned(work), T1, loads1) ELSE Orphaned(work)
           second == scheduled = "parked" /\ first.profile = 0
<1>3. WorkOK(Orphaned(work), issued) /\ Orphaned(work).profile = work.profile
  BY <1>1, OrphanedKeeps
<1>4. WorkOK(first, issued)
  <2>1. CASE start
    <3>1. Orphaned(work).profile = 0
      BY <1>3, <2>1
    <3>2. WorkOK(ApplyProfile(Orphaned(work), T1, loads1), issued)
      BY <1>3, <3>1, PlansAreTargets, ApplyProfileKeeps
    <3> QED BY <2>1, <3>2
  <2>2. CASE ~start
    BY <1>3, <2>2
  <2> QED BY <2>1, <2>2
<1>5. work' = IF second THEN ApplyProfile(first, T2, loads2) ELSE first
  BY <1>2
<1> HIDE DEF first
<1>6. WorkOK(work', issued)
  <2>1. CASE second
    BY <1>4, <1>5, <2>1, PlansAreTargets, ApplyProfileKeeps
  <2>2. CASE ~second
    BY <1>4, <1>5, <2>2
  <2> QED BY <2>1, <2>2
<1> QED BY <1>1, <1>6 DEF BooksInv

LEMMA NextBooks == BooksInv /\ [Next]_vars => BooksInv'
<1> SUFFICES ASSUME BooksInv, [Next]_vars PROVE BooksInv'
  OBVIOUS
<1>0. issued \in Nat /\ WorkOK(work, issued)
  BY DEF BooksInv
<1>a. ASSUME UNCHANGED <<work, issued>> PROVE BooksInv'
  BY <1>a DEF BooksInv
<1>b. ASSUME work' = Orphaned(work), UNCHANGED issued PROVE BooksInv'
  BY <1>0, <1>b, OrphanedKeeps DEF BooksInv
<1>1. CASE UNCHANGED vars
  BY <1>1, <1>a DEF vars, bounds
<1>2. CASE UserOperation
  <2>1. ASSUME NEW G, NEW effect, NEW preserve, ApplyGlobalEffect(G, effect, preserve)
        PROVE  BooksInv'
    BY <2>1, GlobalEffectBooks
  <2>2. ASSUME NEW G \in SUBSET Device, AllOffDevices(G) PROVE BooksInv'
    BY <2>2, AllOffBooks
  <2>3. ASSUME NEW T \in Plans, NEW loads \in BOOLEAN, ApplyUserProfile(T, loads) PROVE BooksInv'
    <3>1. work.profile = 0 /\ work' = ApplyProfile(work, T, loads) /\ issued' = issued + 1
      BY <2>3 DEF ApplyUserProfile, Issue
    <3>2. WorkOK(work', issued)
      BY <1>0, <3>1, PlansAreTargets, ApplyProfileKeeps
    <3> QED BY <1>0, <3>1, <3>2, MoreIssued DEF BooksInv
  <2>4. ASSUME NEW d \in Device, SingleCall("confirm", d) \/ SingleCall("revoke", d) PROVE BooksInv'
    BY <2>4, SingleBooks DEF SingleKind
  <2>5. ASSUME NEW t \in Target, SingleCall("zone", t) PROVE BooksInv'
    BY <2>5, SingleBooks DEF SingleKind
  <2>6. CASE SetDryRunEnabled
    <3>1. issued' = issued + 1 /\ work' = work
      BY <2>6 DEF SetDryRunEnabled
    <3> QED BY <1>0, <3>1, MoreIssued DEF BooksInv
  <2> QED BY <1>2, <2>1, <2>2, <2>3, <2>4, <2>5, <2>6 DEF UserOperation
<1>3. ASSUME NEW c \in work.calls, NEW ok \in BOOLEAN, CallEnds(c, ok) PROVE BooksInv'
  BY <1>3, CallEndsBooks
<1>4. CASE ScheduleFires
  <2>1. CASE UNCHANGED <<work, issued>>
    BY <1>a, <2>1
  <2>2. ASSUME work.profile = 0, UNCHANGED issued,
               NEW T \in Plans, NEW loads \in BOOLEAN, work' = ApplyProfile(work, T, loads)
        PROVE  BooksInv'
    BY <1>0, <2>2, PlansAreTargets, ApplyProfileKeeps DEF BooksInv
  <2> QED BY <1>4, <2>1, <2>2 DEF ScheduleFires
<1>5. CASE DeferredRefresh \/ PollTimeout
  BY <1>5, <1>a DEF DeferredRefresh, PollTimeout, RefreshDaemonDevices
<1>6. CASE Rescan
  <2>1. issued' = issued + 1 /\ work' = work
    BY <1>6 DEF Rescan, RefreshDaemonDevices
  <2> QED BY <1>0, <2>1, MoreIssued DEF BooksInv
<1>7. CASE ListFails
  BY <1>7, <1>a DEF ListFails, bounds
<1>8. CASE ListIncomplete
  BY <1>8, <1>b DEF ListIncomplete, bounds
<1>9. CASE ListComplete
  BY <1>9, ListCompleteBooks
<1>10. CASE DiscoveryEnds
  BY <1>10, <1>a DEF DiscoveryEnds, bounds
<1>11. CASE Connect
  BY <1>11, <1>a DEF Connect, bounds
<1>12. CASE Disconnect
  <2>1. UNCHANGED issued
    BY <1>12 DEF Disconnect
  <2>2. WorkOK(work', issued)
    BY <1>0, <1>12, DisconnectKeeps DEF Disconnect
  <2> QED BY <1>0, <2>1, <2>2 DEF BooksInv
<1> QED
  BY <1>1, <1>2, <1>3, <1>4, <1>5, <1>6, <1>7, <1>8, <1>9, <1>10, <1>11, <1>12 DEF Next

(* Each operation accounts for each of its zones once, waits for exactly   *)
(* its outstanding calls and reports once, for any devices, zones, effects *)
(* and numbers of operations, disconnects and replaced device lists.       *)
THEOREM BooksBalance == Spec => []CountsAddUp
<1>1. BooksInv => CountsAddUp
  <2> SUFFICES ASSUME BooksInv PROVE CountsAddUp
    OBVIOUS
  <2>1. WorkOK(work, issued)
    BY DEF BooksInv
  <2>2. work.busy = Cardinality(work.calls)
    BY <2>1 DEF WorkOK
  <2>3. \A i \in DOMAIN work.ops : Balanced(work, i)
    BY <2>1 DEF WorkOK
  <2> QED BY <2>2, <2>3 DEF CountsAddUp, Balanced, CallsOf
<1> QED BY <1>1, InitBooks, NextBooks, PTL DEF Spec
=============================================================================
