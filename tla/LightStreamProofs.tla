--------------------------- MODULE LightStreamProofs ---------------------------
(***************************************************************************)
(* Proofs about LightStream for any zones, effects and bounds: the proxy's *)
(* books balance, and an acknowledged colour stays on the LEDs.            *)
(***************************************************************************)
EXTENDS LightStream, SequenceTheorems, FunctionTheorems, FiniteSetTheorems, TLAPS

MaybeEffect == Effect \cup {NoEffect}
Kind == {"apply", "allOff", "update", "paint", "setDryRun", "list"}

Call ==
  {c \in [kind : Kind, zone : Zone \cup {NoZone}, effect : MaybeEffect, expect : BOOLEAN,
          self : BOOLEAN, open : BOOLEAN, ok : BOOLEAN, told : BOOLEAN,
          seen : [Zone -> Effect]] :
     /\ c.kind \in {"apply", "update", "paint"} => c.zone \in Zone
     /\ c.kind \in {"apply", "paint"} => c.effect \in Effect
     /\ c.kind = "allOff" => c.effect = OffEffect}
ProxyState ==
  [effect : Effect, suspended : Int, inFlight : BOOLEAN, waiting : MaybeEffect]
Channel == [mode : {"other", "direct", "off"}, shows : MaybeEffect]

GuiTypeOK ==
  /\ dryRun \in BOOLEAN /\ syncing \in BOOLEAN /\ again \in BOOLEAN /\ loaded \in BOOLEAN
  /\ refresh \in {"idle", "due", "busy"}
  /\ proxy \in [Zone -> ProxyState]
  /\ streaming \in SUBSET Zone /\ accepted \in [Zone -> MaybeEffect]
DaemonTypeOK ==
  /\ daemonDryRun \in BOOLEAN
  /\ zoneEffect \in [Zone -> Effect]
  /\ channel \in [Zone -> Channel]
TypeOK ==
  /\ GuiTypeOK /\ DaemonTypeOK
  /\ known \in SUBSET BOOLEAN /\ connected \in BOOLEAN
  /\ calls \in Seq(Call) /\ answered \in 0 .. Len(calls)
  /\ holds \in [Zone -> StaticEffect \cup {NoEffect}]

(* The positions at which a call of C stands on the wire q.                *)
At(q, C) == {i \in DOMAIN q : q[i] \in C}

(* The calls whose end the present proxy waits for.                        *)
MineCalls     == {c \in Call : c.open /\ c.self}
Suspending(z) == {c \in MineCalls : z \in Suspends(c)}
Frames(z)     == {c \in MineCalls : c.kind = "paint" /\ c.zone = z}

Commands(c, z) == c.kind \in {"apply", "allOff"} /\ z \in Suspends(c)
Paints(c, z)   == c.kind = "paint" /\ c.zone = z
Quiet(q, z)    == \A i \in DOMAIN q : ~Commands(q[i], z) /\ ~Paints(q[i], z)

Books(p, q) ==
  \A z \in Zone :
    /\ p[z].suspended = Cardinality(At(q, Suspending(z)))
    /\ Cardinality(At(q, Frames(z))) = IF p[z].inFlight THEN 1 ELSE 0
    /\ p[z].waiting # NoEffect => p[z].inFlight /\ p[z].suspended = 0

(* No frame of a zone is sent behind a call that suspends it.              *)
Shadowed(q) ==
  \A i, j \in DOMAIN q : i < j => \A z \in Zone : q[i] \in Suspending(z) => ~Paints(q[j], z)

(* The last executed command shows, unless the proxy that sent it is gone. *)
Shown(q, n, ch) ==
  \A z \in Zone, i \in 1 .. n :
    /\ q[i] \in MineCalls /\ q[i].ok /\ ~q[i].expect /\ Commands(q[i], z)
    /\ \A j \in i + 1 .. n : ~Commands(q[j], z)
    => ch[z].shows = q[i].effect

(* A colour that may be relied on: nothing is on its way that changes it.  *)
Held(h, p, s, q, ch) ==
  \A z \in Zone : h[z] # NoEffect =>
    /\ ch[z].shows = h[z]
    /\ z \notin s /\ p[z].waiting = NoEffect /\ Quiet(q, z)

StreamInv ==
  /\ TypeOK
  /\ Books(proxy, calls) /\ Shadowed(calls)
  /\ Shown(calls, answered, channel)
  /\ Held(holds, proxy, streaming, calls, channel)

-----------------------------------------------------------------------------
(* Counting the calls on the wire. *)

LEMMA AtFacts ==
  ASSUME NEW q \in Seq(Call), NEW C
  PROVE  /\ At(q, C) \subseteq 1 .. Len(q) /\ IsFiniteSet(At(q, C))
         /\ Cardinality(At(q, C)) \in Nat
<1>1. At(q, C) \in SUBSET (1 .. Len(q)) /\ IsFiniteSet(1 .. Len(q))
  BY FS_Interval DEF At
<1>2. IsFiniteSet(At(q, C))
  BY <1>1, FS_Subset
<1> QED BY <1>1, <1>2, FS_CardinalityType

LEMMA AtNone ==
  ASSUME NEW q \in Seq(Call), NEW C, \A i \in DOMAIN q : q[i] \notin C
  PROVE  At(q, C) = {} /\ Cardinality(At(q, C)) = 0
<1>1. At(q, C) = {}
  BY DEF At
<1> QED BY <1>1, FS_EmptySet

LEMMA AtSome ==
  ASSUME NEW q \in Seq(Call), NEW C, NEW i \in DOMAIN q, q[i] \in C
  PROVE  Cardinality(At(q, C)) >= 1
<1>1. At(q, C) # {}
  BY DEF At
<1> QED BY <1>1, AtFacts, FS_EmptySet

LEMMA AtAppend ==
  ASSUME NEW q \in Seq(Call), NEW c \in Call, NEW C
  PROVE  Cardinality(At(Append(q, c), C)) = Cardinality(At(q, C)) + IF c \in C THEN 1 ELSE 0
<1> DEFINE r == Append(q, c)
<1>1. /\ r \in Seq(Call) /\ Len(r) = Len(q) + 1 /\ r[Len(q) + 1] = c
      /\ \A i \in 1 .. Len(q) : r[i] = q[i]
  BY AppendProperties
<1> HIDE DEF r
<1>2. CASE c \in C
  <2>1. At(r, C) = At(q, C) \cup {Len(q) + 1} /\ Len(q) + 1 \notin At(q, C)
    BY <1>1, <1>2 DEF At
  <2> QED BY <1>2, <2>1, AtFacts, FS_AddElement DEF r
<1>3. CASE c \notin C
  <2>1. At(r, C) = At(q, C)
    BY <1>1, <1>3 DEF At
  <2> QED BY <1>3, <2>1, AtFacts DEF r
<1> QED BY <1>2, <1>3

LEMMA MapCardinality ==
  ASSUME NEW S, NEW T, IsFiniteSet(S), NEW f \in [S -> T],
         \A a, b \in S : f[a] = f[b] => a = b,
         \A t \in T : \E a \in S : f[a] = t
  PROVE  IsFiniteSet(T) /\ Cardinality(T) = Cardinality(S)
<1>1. f \in Bijection(S, T)
  BY Fun_IsBij
<1>2. ExistsBijection(S, T)
  BY <1>1, Fun_ExistsBij
<1> QED BY <1>2, FS_Bijection

LEMMA TailFacts ==
  ASSUME NEW q \in Seq(Call), q # <<>>
  PROVE  /\ Tail(q) \in Seq(Call) /\ Head(q) = q[1] /\ Head(q) \in Call
         /\ Len(q) >= 1 /\ Len(Tail(q)) = Len(q) - 1
         /\ \A i \in 1 .. Len(q) - 1 : Tail(q)[i] = q[i + 1]
<1>1. Len(q) \in Nat /\ Len(q) # 0
  BY EmptySeq
<1>2. /\ Tail(q) \in Seq(Call) /\ Head(q) \in Call
      /\ Len(Tail(q)) = Len(q) - 1 /\ \A i \in 1 .. Len(Tail(q)) : Tail(q)[i] = q[i + 1]
  BY HeadTailProperties
<1>3. Head(q) = q[1]
  OBVIOUS
<1> QED BY <1>1, <1>2, <1>3

LEMMA AtTail ==
  ASSUME NEW q \in Seq(Call), q # <<>>, NEW C
  PROVE  Cardinality(At(Tail(q), C)) = Cardinality(At(q, C)) - IF Head(q) \in C THEN 1 ELSE 0
<1> DEFINE r == Tail(q)
           T == At(q, C) \ {1}
           f == [i \in At(r, C) |-> i + 1]
<1>1. /\ r \in Seq(Call) /\ Head(q) = q[1]
      /\ Len(q) \in Nat /\ Len(q) >= 1 /\ Len(r) = Len(q) - 1
      /\ \A i \in 1 .. Len(q) - 1 : r[i] = q[i + 1]
  BY TailFacts
<1> HIDE DEF r
<1>2. DOMAIN r = 1 .. Len(q) - 1 /\ DOMAIN q = 1 .. Len(q)
  BY <1>1
<1>3. f \in [At(r, C) -> T]
  BY <1>1, <1>2 DEF At
<1>4. \A a, b \in At(r, C) : f[a] = f[b] => a = b
  BY <1>2 DEF At
<1>5. ASSUME NEW t \in T PROVE \E a \in At(r, C) : f[a] = t
  <2>1. t - 1 \in At(r, C)
    BY <1>1, <1>2 DEF At
  <2>2. f[t - 1] = t
    BY <1>2, <2>1 DEF At
  <2> QED BY <2>1, <2>2
<1>6. Cardinality(T) = Cardinality(At(r, C))
  <2> HIDE DEF f, T
  <2>1. IsFiniteSet(At(r, C))
    BY <1>1, AtFacts
  <2> QED BY <1>3, <1>4, <1>5, <2>1, MapCardinality
<1>7. 1 \in At(q, C) <=> Head(q) \in C
  BY <1>1, <1>2 DEF At
<1>8. Cardinality(T) = Cardinality(At(q, C)) - IF 1 \in At(q, C) THEN 1 ELSE 0
  <2>1. IsFiniteSet(At(q, C)) /\ Cardinality(At(q, C)) \in Nat
    BY AtFacts
  <2>2. CASE 1 \in At(q, C)
    BY <2>1, <2>2, FS_RemoveElement
  <2>3. CASE 1 \notin At(q, C)
    <3>1. T = At(q, C)
      BY <2>3
    <3>2. Cardinality(T) = Cardinality(At(q, C))
      BY <3>1
    <3> HIDE DEF T
    <3> QED BY <2>1, <2>3, <3>2
  <2> QED BY <2>2, <2>3
<1> QED BY <1>6, <1>7, <1>8 DEF r

(* A call that ends without leaving the wire.                              *)
LEMMA AtReplaced ==
  ASSUME NEW q \in Seq(Call), NEW i \in DOMAIN q, NEW d \in Call, NEW C, d \notin C
  PROVE  Cardinality(At([q EXCEPT ![i] = d], C))
           = Cardinality(At(q, C)) - IF q[i] \in C THEN 1 ELSE 0
<1> DEFINE r == [q EXCEPT ![i] = d]
<1>1. r \in Seq(Call) /\ DOMAIN r = DOMAIN q /\ r[i] = d /\ \A j \in DOMAIN q : j # i => r[j] = q[j]
  OBVIOUS
<1> HIDE DEF r
<1>2. At(r, C) = At(q, C) \ {i}
  BY <1>1 DEF At
<1>3. i \in At(q, C) <=> q[i] \in C
  BY DEF At
<1>4. IsFiniteSet(At(q, C)) /\ Cardinality(At(q, C)) \in Nat
  BY AtFacts
<1>5. CASE i \in At(q, C)
  BY <1>2, <1>3, <1>4, <1>5, FS_RemoveElement DEF r
<1>6. CASE i \notin At(q, C)
  <2>1. At(r, C) = At(q, C)
    BY <1>2, <1>6
  <2> QED BY <1>3, <1>4, <1>6, <2>1 DEF r
<1> QED BY <1>5, <1>6

-----------------------------------------------------------------------------
(* The wire without a call that ended. *)

(* rest is q without the call c, which is gone or no longer waited for.    *)
Without(q, rest, c) ==
  /\ rest \in Seq(Call)
  /\ \A C \in SUBSET MineCalls :
       Cardinality(At(rest, C)) = Cardinality(At(q, C)) - IF c \in C THEN 1 ELSE 0
  /\ Shadowed(rest)
  /\ \E i \in DOMAIN q : q[i] = c
  /\ \A z \in Zone : Quiet(q, z) => Quiet(rest, z)

LEMMA SubsetsOfMine ==
  ASSUME NEW z
  PROVE  /\ Suspending(z) \in SUBSET MineCalls /\ Frames(z) \in SUBSET MineCalls
         /\ \A c \in Call : c \in Suspending(z) => c \notin Frames(z)
BY DEF Suspending, Frames, MineCalls, Suspends, Call

LEMMA TailWithout ==
  ASSUME NEW q \in Seq(Call), q # <<>>, Shadowed(q)
  PROVE  Without(q, Tail(q), Head(q))
<1> DEFINE r == Tail(q)
<1>1. /\ r \in Seq(Call) /\ Head(q) = q[1] /\ Len(q) \in Nat /\ Len(q) >= 1
      /\ DOMAIN r = 1 .. Len(q) - 1 /\ DOMAIN q = 1 .. Len(q)
      /\ \A i \in 1 .. Len(q) - 1 : r[i] = q[i + 1]
  BY TailFacts
<1>2. \A C : Cardinality(At(r, C)) = Cardinality(At(q, C)) - IF Head(q) \in C THEN 1 ELSE 0
  BY AtTail
<1> HIDE DEF r
<1>3. Shadowed(r)
  <2> SUFFICES ASSUME NEW i \in DOMAIN r, NEW j \in DOMAIN r, i < j,
                      NEW z \in Zone, r[i] \in Suspending(z)
               PROVE  ~Paints(r[j], z)
    BY DEF Shadowed
  <2>1. i + 1 \in DOMAIN q /\ j + 1 \in DOMAIN q /\ i + 1 < j + 1
        /\ q[i + 1] = r[i] /\ q[j + 1] = r[j]
    BY <1>1
  <2> QED BY <2>1 DEF Shadowed
<1>4. ASSUME NEW z \in Zone, Quiet(q, z) PROVE Quiet(r, z)
  <2>1. ASSUME NEW i \in DOMAIN r PROVE i + 1 \in DOMAIN q /\ q[i + 1] = r[i]
    BY <1>1
  <2> QED BY <1>4, <2>1 DEF Quiet
<1>5. \E i \in DOMAIN q : q[i] = Head(q)
  BY <1>1
<1> QED BY <1>1, <1>2, <1>3, <1>4, <1>5 DEF Without, r

(* A call that timed out stays on the wire, and nobody waits for it.       *)
Abandoned(c) == [c EXCEPT !.open = FALSE, !.self = FALSE]

LEMMA AbandonedFacts ==
  ASSUME NEW c \in Call
  PROVE  /\ Abandoned(c) \in Call /\ Abandoned(c) \notin MineCalls
         /\ Abandoned(c).kind = c.kind /\ Abandoned(c).zone = c.zone
         /\ \A z : /\ Commands(Abandoned(c), z) <=> Commands(c, z)
                   /\ Paints(Abandoned(c), z) <=> Paints(c, z)
<1>1. Abandoned(c).kind = c.kind /\ Abandoned(c).zone = c.zone /\ Abandoned(c) \in Call
      /\ Abandoned(c).open = FALSE
  BY DEF Abandoned, Call
<1>2. Suspends(Abandoned(c)) = Suspends(c)
  BY <1>1 DEF Suspends
<1> QED BY <1>1, <1>2 DEF MineCalls, Commands, Paints

LEMMA TimeoutWithout ==
  ASSUME NEW q \in Seq(Call), NEW i \in DOMAIN q, Shadowed(q)
  PROVE  Without(q, [q EXCEPT ![i] = Abandoned(q[i])], q[i])
<1> DEFINE d == Abandoned(q[i])
           r == [q EXCEPT ![i] = d]
<1>1. /\ d \in Call /\ d \notin MineCalls
      /\ \A z : (Commands(d, z) <=> Commands(q[i], z)) /\ (Paints(d, z) <=> Paints(q[i], z))
  <2>1. q[i] \in Call
    OBVIOUS
  <2> QED BY <2>1, AbandonedFacts
<1> HIDE DEF d
<1>2. /\ r \in Seq(Call) /\ DOMAIN r = DOMAIN q
      /\ r[i] = d /\ \A j \in DOMAIN q : j # i => r[j] = q[j]
  BY <1>1
<1>3. ASSUME NEW C \in SUBSET MineCalls
      PROVE  Cardinality(At(r, C)) = Cardinality(At(q, C)) - IF q[i] \in C THEN 1 ELSE 0
  <2>1. d \notin C
    BY <1>1
  <2> QED BY <1>1, <2>1, AtReplaced
<1> HIDE DEF r
<1>4. Shadowed(r)
  <2> SUFFICES ASSUME NEW a \in DOMAIN r, NEW b \in DOMAIN r, a < b,
                      NEW z \in Zone, r[a] \in Suspending(z)
               PROVE  ~Paints(r[b], z)
    BY DEF Shadowed
  <2>1. a # i
    BY <1>1, <1>2, SubsetsOfMine
  <2>2. ~Paints(q[b], z)
    BY <1>2, <2>1 DEF Shadowed
  <2> QED BY <1>1, <1>2, <2>2
<1>5. ASSUME NEW z \in Zone, Quiet(q, z) PROVE Quiet(r, z)
  BY <1>1, <1>2, <1>5 DEF Quiet
<1> QED BY <1>2, <1>3, <1>4, <1>5 DEF Without, r, d

-----------------------------------------------------------------------------
(* What follows on the wire. *)

(* r goes on from q; what r still waits for, q waited for.                 *)
Continues(q, r) ==
  /\ Len(q) <= Len(r)
  /\ \A i \in DOMAIN q :
       /\ \A z : Commands(r[i], z) <=> Commands(q[i], z)
       /\ r[i] \in MineCalls => r[i] = q[i]

LEMMA ContinuesRefl ==
  ASSUME NEW q \in Seq(Call)
  PROVE  Continues(q, q)
BY DEF Continues

(* A call that neither commands, paints nor suspends a zone.               *)
Neutral(c) == c \in Call /\ c.kind \in {"setDryRun", "list"}

LEMMA NeutralFacts ==
  ASSUME NEW c, Neutral(c), NEW z
  PROVE  /\ c \in Call /\ c \notin Suspending(z) /\ c \notin Frames(z)
         /\ ~Commands(c, z) /\ ~Paints(c, z)
BY DEF Neutral, Suspending, Frames, Commands, Paints, Suspends

LEMMA AppendFacts ==
  ASSUME NEW q \in Seq(Call), NEW c \in Call
  PROVE  /\ Append(q, c) \in Seq(Call) /\ Len(q) \in Nat
         /\ DOMAIN q = 1 .. Len(q) /\ DOMAIN Append(q, c) = 1 .. Len(q) + 1
         /\ Append(q, c)[Len(q) + 1] = c
         /\ \A i \in 1 .. Len(q) : Append(q, c)[i] = q[i]
         /\ Continues(q, Append(q, c))
<1>1. /\ Append(q, c) \in Seq(Call) /\ Len(Append(q, c)) = Len(q) + 1
      /\ Append(q, c)[Len(q) + 1] = c
      /\ \A i \in 1 .. Len(q) : Append(q, c)[i] = q[i]
  BY AppendProperties
<1> DEFINE r == Append(q, c)
<1> HIDE DEF r
<1> QED BY <1>1 DEF Continues, r

(* Shadowed with one call more: it may not be a frame of a suspended zone. *)
LEMMA ShadowedAppend ==
  ASSUME NEW q \in Seq(Call), NEW c \in Call, Shadowed(q),
         \A z \in Zone : Paints(c, z) => \A i \in DOMAIN q : q[i] \notin Suspending(z)
  PROVE  Shadowed(Append(q, c))
<1> DEFINE r == Append(q, c)
<1>1. /\ r \in Seq(Call) /\ Len(q) \in Nat
      /\ DOMAIN q = 1 .. Len(q) /\ DOMAIN r = 1 .. Len(q) + 1
      /\ r[Len(q) + 1] = c /\ \A i \in 1 .. Len(q) : r[i] = q[i]
  BY AppendFacts
<1> HIDE DEF r
<1> SUFFICES ASSUME NEW i \in DOMAIN r, NEW j \in DOMAIN r, i < j,
                    NEW z \in Zone, r[i] \in Suspending(z)
             PROVE  ~Paints(r[j], z)
  BY DEF Shadowed, r
<1>2. i \in DOMAIN q /\ r[i] = q[i]
  BY <1>1
<1>3. CASE j \in DOMAIN q
  BY <1>1, <1>2, <1>3 DEF Shadowed
<1>4. CASE j = Len(q) + 1
  BY <1>1, <1>2, <1>4
<1> QED BY <1>1, <1>3, <1>4

LEMMA NeutralAppend ==
  ASSUME NEW q \in Seq(Call), NEW c, Neutral(c), Shadowed(q), NEW p, Books(p, q)
  PROVE  /\ Append(q, c) \in Seq(Call) /\ Continues(q, Append(q, c))
         /\ Shadowed(Append(q, c)) /\ Books(p, Append(q, c))
         /\ \A z \in Zone : Quiet(q, z) => Quiet(Append(q, c), z)
<1>1. c \in Call /\ \A z : c \notin Suspending(z) /\ c \notin Frames(z)
                           /\ ~Commands(c, z) /\ ~Paints(c, z)
  BY NeutralFacts
<1>2. Append(q, c) \in Seq(Call) /\ Continues(q, Append(q, c))
  BY <1>1, AppendFacts
<1>3. Shadowed(Append(q, c))
  BY <1>1, ShadowedAppend
<1>4. ASSUME NEW z \in Zone
      PROVE  /\ Cardinality(At(Append(q, c), Suspending(z))) = Cardinality(At(q, Suspending(z)))
             /\ Cardinality(At(Append(q, c), Frames(z))) = Cardinality(At(q, Frames(z)))
  <2>1. /\ Cardinality(At(q, Suspending(z))) \in Nat /\ Cardinality(At(q, Frames(z))) \in Nat
    BY AtFacts
  <2> QED BY <1>1, <2>1, AtAppend
<1>5. Books(p, Append(q, c))
  BY <1>4 DEF Books
<1>6. ASSUME NEW z \in Zone, Quiet(q, z) PROVE Quiet(Append(q, c), z)
  <2>1. /\ DOMAIN q = 1 .. Len(q) /\ DOMAIN Append(q, c) = 1 .. Len(q) + 1 /\ Len(q) \in Nat
        /\ Append(q, c)[Len(q) + 1] = c /\ \A i \in 1 .. Len(q) : Append(q, c)[i] = q[i]
    BY <1>1, AppendFacts
  <2> HIDE DEF Neutral
  <2> QED BY <1>1, <1>6, <2>1 DEF Quiet
<1> QED BY <1>2, <1>3, <1>5, <1>6

-----------------------------------------------------------------------------
(* The end of a call in the GUI. *)

(* What the end of call c leaves, rest being the wire without it: the      *)
(* books and the wire are in order, and a zone on which nothing is under   *)
(* way but this call stays quiet, unless the call started its stream.      *)
Still(c, ok, rest, z) ==
  /\ Quiet(rest, z) /\ proxy[z].waiting = NoEffect /\ ~Paints(c, z)
  /\ \/ z \notin streaming /\ ~Commands(c, z)
     \/ ok /\ Commands(c, z) /\ c.effect \in StaticEffect

EndKept(c, ok, rest) ==
  /\ GuiTypeOK'
  /\ calls' \in Seq(Call) /\ Continues(rest, calls') /\ Shadowed(calls')
  /\ Books(proxy', calls')
  /\ \A z \in Zone : Still(c, ok, rest, z) =>
       z \notin streaming' /\ proxy'[z].waiting = NoEffect /\ Quiet(calls', z)

(* The call that ended stands on the wire before: its zone's count is at   *)
(* least one, and a frame of its own is the one in flight.                 *)
LEMMA BooksBefore ==
  ASSUME NEW q \in Seq(Call), NEW p, Books(p, q), NEW c \in MineCalls, NEW rest,
         Without(q, rest, c), NEW z \in Zone
  PROVE  /\ c \in Suspending(z) => p[z].suspended >= 1 /\ p[z].waiting = NoEffect
         /\ c \in Frames(z) => p[z].inFlight /\ Cardinality(At(rest, Frames(z))) = 0
<1>1. PICK i \in DOMAIN q : q[i] = c
  BY DEF Without
<1>2. ASSUME c \in Suspending(z) PROVE p[z].suspended >= 1 /\ p[z].waiting = NoEffect
  <2>1. Cardinality(At(q, Suspending(z))) >= 1
    BY <1>1, <1>2, AtSome
  <2> QED BY <2>1 DEF Books
<1>3. ASSUME c \in Frames(z)
      PROVE  p[z].inFlight /\ Cardinality(At(rest, Frames(z))) = 0
  <2>1. Cardinality(At(q, Frames(z))) >= 1
    BY <1>1, <1>3, AtSome
  <2>2. Cardinality(At(rest, Frames(z))) = Cardinality(At(q, Frames(z))) - 1
    BY <1>3, SubsetsOfMine DEF Without
  <2>3. Cardinality(At(q, Frames(z))) = IF p[z].inFlight THEN 1 ELSE 0
    BY DEF Books
  <2> QED BY <2>1, <2>2, <2>3
<1> QED BY <1>2, <1>3

(* A command that ends takes its suspension back.                          *)
LEMMA ResumedBalance ==
  ASSUME NEW q \in Seq(Call), NEW p, Books(p, q), NEW c \in Call, c.open, NEW rest,
         Without(q, rest, c), c.kind # "paint", NEW r,
         \A z \in Zone : /\ r[z].inFlight = p[z].inFlight /\ r[z].waiting = p[z].waiting
                         /\ r[z].suspended = IF c.self /\ z \in Suspends(c)
                                             THEN p[z].suspended - 1 ELSE p[z].suspended
  PROVE  Books(r, rest)
<1> SUFFICES ASSUME NEW z \in Zone
             PROVE  /\ r[z].suspended = Cardinality(At(rest, Suspending(z)))
                    /\ Cardinality(At(rest, Frames(z))) = IF r[z].inFlight THEN 1 ELSE 0
                    /\ r[z].waiting # NoEffect => r[z].inFlight /\ r[z].suspended = 0
  BY DEF Books
<1>1. /\ c \notin Frames(z)
      /\ c \in Suspending(z) <=> c.self /\ z \in Suspends(c)
      /\ c \in Suspending(z) => c \in MineCalls
  BY DEF Frames, Suspending, MineCalls
<1>2. /\ Cardinality(At(rest, Suspending(z)))
           = Cardinality(At(q, Suspending(z))) - IF c \in Suspending(z) THEN 1 ELSE 0
      /\ Cardinality(At(rest, Frames(z)))
           = Cardinality(At(q, Frames(z))) - IF c \in Frames(z) THEN 1 ELSE 0
      /\ Cardinality(At(q, Suspending(z))) \in Nat /\ Cardinality(At(q, Frames(z))) \in Nat
  BY SubsetsOfMine, AtFacts DEF Without
<1>3. /\ p[z].suspended = Cardinality(At(q, Suspending(z)))
      /\ Cardinality(At(q, Frames(z))) = IF p[z].inFlight THEN 1 ELSE 0
      /\ p[z].waiting # NoEffect => p[z].inFlight /\ p[z].suspended = 0
  BY DEF Books
<1>4. c \in Suspending(z) => p[z].waiting = NoEffect
  BY <1>1, BooksBefore
<1>5. /\ r[z].inFlight = p[z].inFlight /\ r[z].waiting = p[z].waiting
      /\ r[z].suspended = IF c \in Suspending(z) THEN p[z].suspended - 1 ELSE p[z].suspended
  BY <1>1
<1> QED BY <1>1, <1>2, <1>3, <1>4, <1>5

LEMMA ResumedFacts ==
  ASSUME proxy \in [Zone -> ProxyState], NEW c, NEW z \in Zone, NEW e, NEW ok \in BOOLEAN,
         ok /\ c.self /\ z \in Suspends(c) => e \in Effect
  PROVE  /\ Resumed(c, z, e, ok) \in ProxyState
         /\ Resumed(c, z, e, ok).inFlight = proxy[z].inFlight
         /\ Resumed(c, z, e, ok).waiting = proxy[z].waiting
         /\ Resumed(c, z, e, ok).suspended = IF c.self /\ z \in Suspends(c)
                                             THEN proxy[z].suspended - 1 ELSE proxy[z].suspended
<1>1. proxy[z] \in ProxyState
  OBVIOUS
<1>2. CASE c.self /\ z \in Suspends(c)
  <2> DEFINE s == proxy[z].suspended - 1
             f == IF ok THEN e ELSE proxy[z].effect
             r == [proxy[z] EXCEPT !.suspended = s, !.effect = f]
  <2>1. s \in Int /\ f \in Effect
    BY <1>1, <1>2 DEF ProxyState
  <2>2. Resumed(c, z, e, ok) = r
    BY <1>1, <1>2 DEF Resumed, ProxyState
  <2> HIDE DEF s, f
  <2>3. r \in ProxyState /\ r.inFlight = proxy[z].inFlight /\ r.waiting = proxy[z].waiting
        /\ r.suspended = s
    BY <1>1, <2>1 DEF ProxyState
  <2> QED BY <1>2, <2>2, <2>3 DEF s
<1>3. CASE ~(c.self /\ z \in Suspends(c))
  <2>1. Resumed(c, z, e, ok) = proxy[z]
    BY <1>3 DEF Resumed
  <2> QED BY <1>1, <1>3, <2>1
<1> QED BY <1>2, <1>3

LEMMA StopStreamingTypes ==
  ASSUME GuiTypeOK, NEW Z, StopStreaming(Z)
  PROVE  streaming' \in SUBSET Zone /\ accepted' \in [Zone -> MaybeEffect]
         /\ streaming' \subseteq streaming /\ \A z \in Z : z \notin streaming'
<1>1. streaming \in SUBSET Zone /\ streaming' = streaming \ Z
  BY DEF StopStreaming, GuiTypeOK
<1>2. accepted \in [Zone -> MaybeEffect] /\ NoEffect \in MaybeEffect
      /\ accepted' = [z \in Zone |-> IF z \in Z THEN NoEffect ELSE accepted[z]]
  BY DEF StopStreaming, GuiTypeOK, MaybeEffect
<1>3. accepted' \in [Zone -> MaybeEffect]
  BY <1>2
<1> QED BY <1>1, <1>3

LEMMA SyncStreamingTypes ==
  ASSUME GuiTypeOK, NEW z \in Zone, NEW e, SyncZoneFrameStreaming(z, e)
  PROVE  /\ streaming' \in SUBSET Zone /\ accepted' \in [Zone -> MaybeEffect]
         /\ streaming' \subseteq streaming \cup {z}
         /\ e \in StaticEffect => z \notin streaming'
<1>1. CASE e \in AnimatedEffect
  <2>1. streaming \in SUBSET Zone /\ streaming' = streaming \cup {z}
    BY <1>1 DEF SyncZoneFrameStreaming, StartZoneFrameStreaming, GuiTypeOK
  <2>2. accepted \in [Zone -> MaybeEffect] /\ NoEffect \in MaybeEffect
        /\ accepted' = [accepted EXCEPT ![z] = NoEffect]
    BY <1>1 DEF SyncZoneFrameStreaming, StartZoneFrameStreaming, GuiTypeOK, MaybeEffect
  <2>3. accepted' \in [Zone -> MaybeEffect]
    BY <2>2
  <2>4. e \notin StaticEffect
    BY <1>1, StreamAssumption
  <2> QED BY <2>1, <2>3, <2>4
<1>2. CASE e \notin AnimatedEffect
  <2>1. StopStreaming({z})
    BY <1>2 DEF SyncZoneFrameStreaming
  <2> QED BY <2>1, StopStreamingTypes
<1> QED BY <1>1, <1>2

(* apply, allOff and update end alike.                                     *)
LEMMA CommandEndKept ==
  ASSUME TypeOK, NEW c \in Call, c.open, NEW ok \in BOOLEAN, NEW rest,
         Without(calls, rest, c), Books(proxy, calls), c.kind \in {"apply", "allOff", "update"},
         NEW e, c.kind = "apply" => e = [z \in Zone |-> c.effect],
         \A z \in Zone : e[z] \in Effect,
         proxy' = [z \in Zone |-> Resumed(c, z, e[z], ok)],
         NoSync(rest), UNCHANGED <<dryRun, refresh, loaded>>,
         streaming' \in SUBSET Zone, accepted' \in [Zone -> MaybeEffect],
         \A z \in Zone : Still(c, ok, rest, z) => z \notin streaming'
  PROVE  EndKept(c, ok, rest)
<1>1. proxy \in [Zone -> ProxyState] /\ GuiTypeOK /\ calls \in Seq(Call) /\ rest \in Seq(Call)
      /\ calls' = rest /\ UNCHANGED <<dryRun, refresh, loaded, syncing, again>>
  BY DEF TypeOK, GuiTypeOK, NoSync, Without
<1>2. ASSUME NEW z \in Zone
      PROVE  /\ proxy'[z] \in ProxyState
             /\ proxy'[z].inFlight = proxy[z].inFlight /\ proxy'[z].waiting = proxy[z].waiting
             /\ proxy'[z].suspended = IF c.self /\ z \in Suspends(c)
                                      THEN proxy[z].suspended - 1 ELSE proxy[z].suspended
  <2>1. PICK x \in Effect : x = e[z]
    OBVIOUS
  <2>2. proxy'[z] = Resumed(c, z, x, ok)
    BY <2>1
  <2>3. /\ Resumed(c, z, x, ok) \in ProxyState
        /\ Resumed(c, z, x, ok).inFlight = proxy[z].inFlight
        /\ Resumed(c, z, x, ok).waiting = proxy[z].waiting
        /\ Resumed(c, z, x, ok).suspended = IF c.self /\ z \in Suspends(c)
                                            THEN proxy[z].suspended - 1 ELSE proxy[z].suspended
    BY <1>1, ResumedFacts
  <2> QED BY <2>2, <2>3
<1>3. proxy' \in [Zone -> ProxyState]
  BY <1>2
<1>4. Books(proxy', rest)
  <2>1. c.kind # "paint"
    OBVIOUS
  <2> HIDE DEF Books, Without
  <2> QED BY <1>1, <1>2, <2>1, ResumedBalance
<1>5. GuiTypeOK'
  BY <1>1, <1>3 DEF GuiTypeOK
<1>6. ASSUME NEW z \in Zone, Still(c, ok, rest, z)
      PROVE  z \notin streaming' /\ proxy'[z].waiting = NoEffect /\ Quiet(rest, z)
  BY <1>2, <1>6 DEF Still
<1> QED BY <1>1, <1>4, <1>5, <1>6, ContinuesRefl DEF EndKept, Without

LEMMA ApplyEndKept ==
  ASSUME TypeOK, NEW c \in Call, c.open, NEW ok \in BOOLEAN, NEW rest,
         Without(calls, rest, c), Books(proxy, calls), c.kind = "apply",
         UNCHANGED dryRun, ApplyEnds(c, ok, rest)
  PROVE  EndKept(c, ok, rest)
<1> DEFINE e == [z \in Zone |-> c.effect]
<1>1. /\ c.zone \in Zone /\ c.effect \in Effect /\ Suspends(c) = {c.zone} /\ GuiTypeOK
      /\ \A z : Commands(c, z) <=> z = c.zone
  BY DEF Call, Suspends, TypeOK, Commands
<1>2. /\ proxy' = [z \in Zone |-> Resumed(c, z, e[z], ok)]
      /\ NoSync(rest) /\ UNCHANGED <<dryRun, refresh, loaded>>
  BY DEF ApplyEnds
<1>3. /\ streaming' \in SUBSET Zone /\ accepted' \in [Zone -> MaybeEffect]
      /\ \A z \in Zone : Still(c, ok, rest, z) => z \notin streaming'
  <2>1. CASE ok
    <3>1. /\ streaming' \in SUBSET Zone /\ accepted' \in [Zone -> MaybeEffect]
          /\ streaming' \subseteq streaming \cup {c.zone}
          /\ c.effect \in StaticEffect => c.zone \notin streaming'
      BY <1>1, <2>1, SyncStreamingTypes DEF ApplyEnds
    <3> QED BY <1>1, <3>1 DEF Still
  <2>2. CASE ~ok
    BY <1>1, <2>2 DEF ApplyEnds, GuiTypeOK, Still
  <2> QED BY <2>1, <2>2
<1>4. \A z \in Zone : e[z] \in Effect
  BY <1>1
<1> HIDE DEF e
<1> QED BY <1>2, <1>3, <1>4, CommandEndKept DEF e

LEMMA AllOffEndKept ==
  ASSUME TypeOK, NEW c \in Call, c.open, NEW ok \in BOOLEAN, NEW rest,
         Without(calls, rest, c), Books(proxy, calls), c.kind = "allOff",
         UNCHANGED dryRun, AllOffEnds(c, ok, rest)
  PROVE  EndKept(c, ok, rest)
<1> DEFINE e == [z \in Zone |-> OffEffect]
<1>1. OffEffect \in Effect /\ GuiTypeOK /\ \A z \in Zone : Commands(c, z)
  BY StreamAssumption DEF Effect, TypeOK, Commands, Suspends
<1>2. /\ proxy' = [z \in Zone |-> Resumed(c, z, e[z], ok)]
      /\ NoSync(rest) /\ UNCHANGED <<dryRun, refresh, loaded>>
  BY DEF AllOffEnds
<1>3. /\ streaming' \in SUBSET Zone /\ accepted' \in [Zone -> MaybeEffect]
      /\ \A z \in Zone : Still(c, ok, rest, z) => z \notin streaming'
  <2>1. CASE ok
    BY <1>1, <2>1, StopStreamingTypes DEF AllOffEnds
  <2>2. CASE ~ok
    BY <1>1, <2>2 DEF AllOffEnds, GuiTypeOK, Still
  <2> QED BY <2>1, <2>2
<1>4. \A z \in Zone : e[z] \in Effect
  BY <1>1
<1> HIDE DEF e
<1> QED BY <1>2, <1>3, <1>4, CommandEndKept

LEMMA UpdateEndKept ==
  ASSUME TypeOK, NEW c \in Call, c.open, NEW ok \in BOOLEAN, NEW rest,
         Without(calls, rest, c), Books(proxy, calls), c.kind = "update",
         UNCHANGED dryRun, UpdateEnds(c, ok, rest)
  PROVE  EndKept(c, ok, rest)
<1> DEFINE e == [z \in Zone |-> proxy[z].effect]
<1>1. GuiTypeOK /\ \A z \in Zone : proxy[z] \in ProxyState /\ ~Commands(c, z)
  BY DEF TypeOK, GuiTypeOK, Commands
<1>2. /\ proxy' = [z \in Zone |-> Resumed(c, z, e[z], ok)]
      /\ NoSync(rest) /\ UNCHANGED <<dryRun, refresh, loaded>>
  BY DEF UpdateEnds
<1>3. /\ streaming' \in SUBSET Zone /\ accepted' \in [Zone -> MaybeEffect]
      /\ \A z \in Zone : Still(c, ok, rest, z) => z \notin streaming'
  BY <1>1 DEF UpdateEnds, GuiTypeOK, Still
<1>4. \A z \in Zone : e[z] \in Effect
  BY <1>1 DEF ProxyState
<1> HIDE DEF e
<1> QED BY <1>2, <1>3, <1>4, CommandEndKept

(* A frame's end leaves no frame of the zone in flight, or the next one.   *)
LEMMA PaintEndKept ==
  ASSUME TypeOK, NEW c \in Call, c.open, NEW ok \in BOOLEAN, NEW rest,
         Without(calls, rest, c), Books(proxy, calls), c.kind = "paint",
         UNCHANGED dryRun, PaintEnds(c, ok, rest)
  PROVE  EndKept(c, ok, rest)
<1> DEFINE y == c.zone
           p == proxy[y]
           next == ok /\ connected /\ p.suspended = 0 /\ p.waiting # NoEffect
           d == NewCall("paint", y, p.waiting, FALSE)
<1>1. /\ y \in Zone /\ GuiTypeOK /\ proxy \in [Zone -> ProxyState] /\ p \in ProxyState
      /\ calls \in Seq(Call) /\ rest \in Seq(Call) /\ Shadowed(rest)
      /\ UNCHANGED <<dryRun, syncing, again, refresh, loaded, streaming, accepted>>
  BY DEF Call, TypeOK, GuiTypeOK, PaintEnds, NoSync, Without
<1>2. ASSUME NEW z \in Zone
      PROVE  /\ Cardinality(At(rest, Suspending(z))) = proxy[z].suspended
             /\ Cardinality(At(rest, Frames(z)))
                  = IF proxy[z].inFlight /\ ~(c.self /\ z = y) THEN 1 ELSE 0
             /\ proxy[z].waiting # NoEffect => proxy[z].inFlight /\ proxy[z].suspended = 0
  <2>1. c \notin Suspending(z) /\ (c \in Frames(z) <=> c.self /\ z = y)
        /\ (c \in Frames(z) => c \in MineCalls)
    BY DEF Suspending, Frames, Suspends, MineCalls
  <2>2. /\ Cardinality(At(rest, Suspending(z)))
             = Cardinality(At(calls, Suspending(z))) - IF c \in Suspending(z) THEN 1 ELSE 0
        /\ Cardinality(At(rest, Frames(z)))
             = Cardinality(At(calls, Frames(z))) - IF c \in Frames(z) THEN 1 ELSE 0
        /\ Cardinality(At(calls, Suspending(z))) \in Nat /\ Cardinality(At(calls, Frames(z))) \in Nat
    BY <1>1, SubsetsOfMine, AtFacts DEF Without
  <2>3. /\ proxy[z].suspended = Cardinality(At(calls, Suspending(z)))
        /\ Cardinality(At(calls, Frames(z))) = IF proxy[z].inFlight THEN 1 ELSE 0
        /\ proxy[z].waiting # NoEffect => proxy[z].inFlight /\ proxy[z].suspended = 0
    BY DEF Books
  <2>4. c \in Frames(z) => proxy[z].inFlight /\ Cardinality(At(rest, Frames(z))) = 0
    BY <1>1, <2>1, BooksBefore
  <2> QED BY <2>1, <2>2, <2>3, <2>4
<1>3. CASE ~c.self
  <2>1. proxy' = proxy /\ calls' = rest
    BY <1>3 DEF PaintEnds, NoSync
  <2>2. Books(proxy', rest)
    BY <1>2, <1>3, <2>1 DEF Books
  <2>3. GuiTypeOK'
    BY <1>1, <2>1 DEF GuiTypeOK
  <2>4. ASSUME NEW z \in Zone, Still(c, ok, rest, z)
        PROVE  z \notin streaming' /\ proxy'[z].waiting = NoEffect /\ Quiet(rest, z)
    BY <1>1, <2>1, <2>4 DEF Still, Commands
  <2> QED BY <1>1, <2>1, <2>2, <2>3, <2>4, ContinuesRefl DEF EndKept
<1>4. CASE c.self
  <2>1. /\ proxy' = [proxy EXCEPT ![y].inFlight = next, ![y].waiting = NoEffect]
        /\ calls' = IF next THEN Append(rest, d) ELSE rest
    BY <1>4 DEF PaintEnds, NoSync
  <2>2. NoEffect \in MaybeEffect /\ next \in BOOLEAN
    BY DEF MaybeEffect
  <2> HIDE DEF next
  <2>3. /\ proxy' \in [Zone -> ProxyState]
        /\ proxy'[y].inFlight = next /\ proxy'[y].waiting = NoEffect
        /\ proxy'[y].suspended = p.suspended
        /\ \A z \in Zone : z # y => proxy'[z] = proxy[z]
    <3> DEFINE r == [p EXCEPT !.inFlight = next, !.waiting = NoEffect]
    <3>1. r \in ProxyState /\ r.inFlight = next /\ r.waiting = NoEffect /\ r.suspended = p.suspended
      BY <1>1, <2>2 DEF ProxyState
    <3>2. proxy' = [proxy EXCEPT ![y] = r]
      BY <1>1, <2>1 DEF ProxyState
    <3> HIDE DEF r
    <3> QED BY <1>1, <3>1, <3>2
  <2>4. GuiTypeOK'
    BY <1>1, <2>3 DEF GuiTypeOK
  <2>5. next => d \in Call /\ d \in MineCalls /\ d.kind = "paint" /\ d.zone = y
    <3>1. next => p.waiting \in Effect
      BY <1>1 DEF ProxyState, MaybeEffect, next
    <3>2. OffEffect \in Effect
      BY StreamAssumption DEF Effect
    <3> HIDE DEF p, y
    <3> QED BY <1>1, <3>1, <3>2 DEF NewCall, Call, MineCalls, MaybeEffect, Kind
  <2> HIDE DEF d
  <2>6. next => \A i \in DOMAIN rest : rest[i] \notin Suspending(y)
    <3>1. ASSUME next, NEW i \in DOMAIN rest, rest[i] \in Suspending(y) PROVE FALSE
      <4>1. Cardinality(At(rest, Suspending(y))) >= 1
        BY <1>1, <3>1, AtSome
      <4>2. Cardinality(At(rest, Suspending(y))) = 0
        BY <1>1, <1>2, <3>1 DEF next
      <4> QED BY <4>1, <4>2
    <3> QED BY <3>1
  <2>7. calls' \in Seq(Call) /\ Continues(rest, calls') /\ Shadowed(calls')
    <3>1. CASE next
      <4>1. Append(rest, d) \in Seq(Call) /\ Continues(rest, Append(rest, d))
        BY <1>1, <2>5, <3>1, AppendFacts
      <4>2. Shadowed(Append(rest, d))
        <5>1. \A z \in Zone : Paints(d, z) => \A i \in DOMAIN rest : rest[i] \notin Suspending(z)
          BY <2>5, <2>6, <3>1 DEF Paints
        <5> QED BY <1>1, <2>5, <3>1, <5>1, ShadowedAppend
      <4> QED BY <2>1, <3>1, <4>1, <4>2
    <3>2. CASE ~next
      BY <1>1, <2>1, <3>2, ContinuesRefl
    <3> QED BY <3>1, <3>2
  <2>8. Books(proxy', calls')
    <3> SUFFICES ASSUME NEW z \in Zone
                 PROVE  /\ proxy'[z].suspended = Cardinality(At(calls', Suspending(z)))
                        /\ Cardinality(At(calls', Frames(z))) = IF proxy'[z].inFlight THEN 1 ELSE 0
                        /\ proxy'[z].waiting # NoEffect => proxy'[z].inFlight /\ proxy'[z].suspended = 0
      BY DEF Books
    <3>1. /\ Cardinality(At(calls', Suspending(z))) = Cardinality(At(rest, Suspending(z)))
          /\ Cardinality(At(calls', Frames(z)))
               = Cardinality(At(rest, Frames(z))) + IF next /\ z = y THEN 1 ELSE 0
      <4>a. Cardinality(At(rest, Suspending(z))) \in Nat /\ Cardinality(At(rest, Frames(z))) \in Nat
        BY <1>1, AtFacts
      <4>1. CASE next
        <5>1. d \in Call /\ d \notin Suspending(z) /\ (d \in Frames(z) <=> z = y)
          BY <2>5, <4>1 DEF Suspending, Frames, Suspends
        <5>2. /\ Cardinality(At(Append(rest, d), Suspending(z)))
                   = Cardinality(At(rest, Suspending(z))) + IF d \in Suspending(z) THEN 1 ELSE 0
              /\ Cardinality(At(Append(rest, d), Frames(z)))
                   = Cardinality(At(rest, Frames(z))) + IF d \in Frames(z) THEN 1 ELSE 0
          BY <1>1, <5>1, AtAppend
        <5> QED BY <2>1, <4>a, <4>1, <5>1, <5>2
      <4>2. CASE ~next
        BY <2>1, <4>a, <4>2
      <4> QED BY <4>1, <4>2
    <3>2. CASE z = y
      BY <1>1, <1>2, <1>4, <2>2, <2>3, <3>1, <3>2
    <3>3. CASE z # y
      BY <1>2, <2>3, <3>1, <3>3
    <3> QED BY <3>2, <3>3
  <2>9. ASSUME NEW z \in Zone, Still(c, ok, rest, z)
        PROVE  z \notin streaming' /\ proxy'[z].waiting = NoEffect /\ Quiet(calls', z)
    <3>1. z # y /\ z \notin streaming' /\ proxy'[z].waiting = NoEffect /\ Quiet(rest, z)
      BY <1>1, <2>3, <2>9 DEF Still, Commands, Paints
    <3>2. CASE next
      <4>1. /\ DOMAIN rest = 1 .. Len(rest) /\ DOMAIN Append(rest, d) = 1 .. Len(rest) + 1
            /\ Len(rest) \in Nat /\ Append(rest, d)[Len(rest) + 1] = d
            /\ \A i \in 1 .. Len(rest) : Append(rest, d)[i] = rest[i]
        BY <1>1, <2>5, <3>2, AppendFacts
      <4>2. ~Commands(d, z) /\ ~Paints(d, z)
        BY <2>5, <3>1, <3>2 DEF Commands, Paints
      <4> DEFINE r == Append(rest, d)
      <4> HIDE DEF r
      <4>3. Quiet(r, z)
        BY <3>1, <4>1, <4>2 DEF Quiet, r
      <4> QED BY <2>1, <3>1, <3>2, <4>3 DEF r
    <3>3. CASE ~next
      BY <2>1, <3>1, <3>3
    <3> QED BY <3>2, <3>3
  <2> QED BY <2>4, <2>7, <2>8, <2>9 DEF EndKept
<1> QED BY <1>3, <1>4

(* syncDaemonDryRun sends at most one call, which touches no zone.         *)
LEMMA SyncKept ==
  ASSUME NEW q \in Seq(Call), Shadowed(q), NEW p, Books(p, q), NEW busy \in BOOLEAN,
         dryRun' \in BOOLEAN, SyncDaemonDryRun(busy, q)
  PROVE  /\ syncing' \in BOOLEAN /\ again' \in BOOLEAN
         /\ calls' \in Seq(Call) /\ Continues(q, calls') /\ Shadowed(calls') /\ Books(p, calls')
         /\ \A z \in Zone : Quiet(q, z) => Quiet(calls', z)
<1> DEFINE d == NewCall("setDryRun", NoZone, NoEffect, dryRun')
<1>1. Neutral(d)
  <2>1. OffEffect \in Effect
    BY StreamAssumption DEF Effect
  <2> QED BY <2>1 DEF Neutral, NewCall, Call, Kind, MaybeEffect
<1>2. /\ syncing' \in BOOLEAN /\ again' \in BOOLEAN
      /\ calls' = q \/ calls' = Append(q, d)
  BY DEF SyncDaemonDryRun
<1> HIDE DEF d
<1>3. CASE calls' = q
  BY <1>2, <1>3, ContinuesRefl
<1>4. CASE calls' = Append(q, d)
  BY <1>1, <1>2, <1>4, NeutralAppend
<1> QED BY <1>2, <1>3, <1>4

LEMMA ContinuesTrans ==
  ASSUME NEW q \in Seq(Call), NEW r \in Seq(Call), NEW s \in Seq(Call),
         Continues(q, r), Continues(r, s)
  PROVE  Continues(q, s)
<1>1. DOMAIN q \subseteq DOMAIN r
  BY DEF Continues
<1> QED BY <1>1 DEF Continues

(* A call that suspends no zone and is no frame ends without a trace.      *)
LEMMA PlainBalance ==
  ASSUME NEW q \in Seq(Call), NEW p, Books(p, q), NEW c \in Call, c.open, NEW rest,
         Without(q, rest, c), c.kind \in {"setDryRun", "list"}
  PROVE  Books(p, rest)
<1>1. c.kind # "paint" /\ Suspends(c) = {}
  BY DEF Suspends
<1> QED BY <1>1, ResumedBalance

LEMMA SetDryRunEndKept ==
  ASSUME TypeOK, NEW c \in Call, c.open, NEW ok \in BOOLEAN, NEW rest,
         Without(calls, rest, c), Books(proxy, calls), c.kind = "setDryRun",
         UNCHANGED dryRun, SetDryRunEnds(c, ok, rest)
  PROVE  EndKept(c, ok, rest)
<1>1. /\ GuiTypeOK /\ calls \in Seq(Call) /\ rest \in Seq(Call) /\ Shadowed(rest)
      /\ UNCHANGED <<dryRun, refresh, loaded, proxy, streaming, accepted>>
      /\ dryRun' \in BOOLEAN /\ again \in BOOLEAN
  BY DEF TypeOK, GuiTypeOK, SetDryRunEnds, Without
<1>2. Books(proxy, rest)
  BY <1>1, PlainBalance
<1>3. /\ syncing' \in BOOLEAN /\ again' \in BOOLEAN
      /\ calls' \in Seq(Call) /\ Continues(rest, calls') /\ Shadowed(calls') /\ Books(proxy, calls')
      /\ \A z \in Zone : Quiet(rest, z) => Quiet(calls', z)
  <2>1. CASE SyncDaemonDryRun(FALSE, rest)
    BY <1>1, <1>2, <2>1, SyncKept
  <2>2. CASE syncing' = FALSE /\ calls' = rest /\ UNCHANGED again
    BY <1>1, <1>2, <2>2, ContinuesRefl
  <2> QED BY <2>1, <2>2 DEF SetDryRunEnds
<1>4. GuiTypeOK'
  BY <1>1, <1>3 DEF GuiTypeOK
<1>5. ASSUME NEW z \in Zone, Still(c, ok, rest, z)
      PROVE  z \notin streaming' /\ proxy'[z].waiting = NoEffect /\ Quiet(calls', z)
  <2>1. ~Commands(c, z)
    BY DEF Commands
  <2> QED BY <1>1, <1>3, <1>5, <2>1 DEF Still
<1> QED BY <1>1, <1>3, <1>4, <1>5 DEF EndKept

(* The calls of the proxies that were replaced.                            *)
Orphaned(q) == [i \in DOMAIN q |-> [q[i] EXCEPT !.self = FALSE]]

LEMMA OrphanedFacts ==
  ASSUME NEW q \in Seq(Call)
  PROVE  /\ Orphaned(q) \in Seq(Call) /\ Continues(q, Orphaned(q)) /\ Shadowed(Orphaned(q))
         /\ \A i \in DOMAIN Orphaned(q) : Orphaned(q)[i] \notin MineCalls
         /\ \A z \in Zone : Quiet(q, z) => Quiet(Orphaned(q), z)
<1> DEFINE r == Orphaned(q)
<1>1. ASSUME NEW i \in DOMAIN q
      PROVE  /\ r[i] \in Call /\ r[i] \notin MineCalls
             /\ \A z : /\ Commands(r[i], z) <=> Commands(q[i], z)
                       /\ Paints(r[i], z) <=> Paints(q[i], z)
  <2>1. q[i] \in Call /\ r[i] = [q[i] EXCEPT !.self = FALSE]
    BY DEF Orphaned
  <2>2. r[i] \in Call /\ r[i].self = FALSE /\ r[i].kind = q[i].kind /\ r[i].zone = q[i].zone
    BY <2>1 DEF Call
  <2>3. Suspends(r[i]) = Suspends(q[i])
    BY <2>2 DEF Suspends
  <2> QED BY <2>2, <2>3 DEF MineCalls, Commands, Paints
<1>2. DOMAIN q = 1 .. Len(q) /\ DOMAIN r = 1 .. Len(q) /\ Len(q) \in Nat
      /\ r = [i \in 1 .. Len(q) |-> r[i]]
  BY DEF Orphaned
<1> HIDE DEF r
<1>3. r \in Seq(Call) /\ Len(r) = Len(q)
  BY <1>1, <1>2
<1>4. Continues(q, r)
  BY <1>1, <1>2, <1>3 DEF Continues
<1>5. Shadowed(r)
  BY <1>1, <1>2, SubsetsOfMine DEF Shadowed
<1>6. \A z \in Zone : Quiet(q, z) => Quiet(r, z)
  BY <1>1, <1>2 DEF Quiet
<1> QED BY <1>1, <1>2, <1>3, <1>4, <1>5, <1>6 DEF r

(* New proxies wait for no call, and no call for them is on the wire.      *)
LEMMA FreshBalance ==
  ASSUME NEW q \in Seq(Call), \A i \in DOMAIN q : q[i] \notin MineCalls, NEW p,
         \A z \in Zone : p[z].suspended = 0 /\ ~p[z].inFlight /\ p[z].waiting = NoEffect
  PROVE  Books(p, q)
<1>1. ASSUME NEW z \in Zone
      PROVE  Cardinality(At(q, Suspending(z))) = 0 /\ Cardinality(At(q, Frames(z))) = 0
  BY SubsetsOfMine, AtNone
<1> QED BY <1>1 DEF Books

LEMMA FreshFacts ==
  ASSUME NEW z, NEW e \in Effect
  PROVE  /\ FreshProxy(z, e) \in ProxyState /\ FreshProxy(z, e).suspended = 0
         /\ ~FreshProxy(z, e).inFlight /\ FreshProxy(z, e).waiting = NoEffect
BY DEF FreshProxy, ProxyState, MaybeEffect

LEMMA ListEndKept ==
  ASSUME TypeOK, NEW c \in Call, c.open, NEW ok \in BOOLEAN, NEW rest,
         Without(calls, rest, c), Books(proxy, calls), c.kind = "list",
         UNCHANGED dryRun, ListEnds(c, ok, rest)
  PROVE  EndKept(c, ok, rest)
<1>1. /\ GuiTypeOK /\ calls \in Seq(Call) /\ rest \in Seq(Call) /\ Shadowed(rest)
      /\ refresh' = "idle" /\ dryRun' \in BOOLEAN /\ syncing \in BOOLEAN /\ again \in BOOLEAN
  BY DEF TypeOK, GuiTypeOK, ListEnds, Without
<1>2. Books(proxy, rest)
  BY <1>1, PlainBalance
<1>3. CASE ~ok
  <2>1. calls' = rest /\ UNCHANGED <<syncing, again, proxy, streaming, accepted, loaded>>
    BY <1>3 DEF ListEnds, NoSync
  <2>2. GuiTypeOK'
    BY <1>1, <2>1 DEF GuiTypeOK
  <2>3. ASSUME NEW z \in Zone, Still(c, ok, rest, z)
        PROVE  z \notin streaming' /\ proxy'[z].waiting = NoEffect /\ Quiet(rest, z)
    BY <1>3, <2>1, <2>3 DEF Still
  <2> QED BY <1>1, <1>2, <2>1, <2>2, <2>3, ContinuesRefl DEF EndKept
<1>4. CASE ok
  <2> DEFINE r == Orphaned(rest)
  <2>1. /\ proxy' = [z \in Zone |-> FreshProxy(z, c.seen[z])]
        /\ StopStreaming(Zone) /\ loaded' = TRUE
        /\ SyncDaemonDryRun(syncing, r) \/ NoSync(r)
    BY <1>4 DEF ListEnds, Orphaned
  <2>2. /\ r \in Seq(Call) /\ Continues(rest, r) /\ Shadowed(r)
        /\ \A i \in DOMAIN r : r[i] \notin MineCalls
        /\ \A z \in Zone : Quiet(rest, z) => Quiet(r, z)
    BY <1>1, OrphanedFacts
  <2> HIDE DEF r
  <2>3. /\ proxy' \in [Zone -> ProxyState]
        /\ \A z \in Zone : proxy'[z].suspended = 0 /\ ~proxy'[z].inFlight
                           /\ proxy'[z].waiting = NoEffect
    <3>1. \A z \in Zone : c.seen[z] \in Effect
      BY DEF Call
    <3> QED BY <2>1, <3>1, FreshFacts
  <2>4. /\ streaming' \in SUBSET Zone /\ accepted' \in [Zone -> MaybeEffect]
        /\ \A z \in Zone : z \notin streaming'
    BY <1>1, <2>1, StopStreamingTypes
  <2>5. Books(proxy', r)
    BY <2>2, <2>3, FreshBalance
  <2>6. /\ syncing' \in BOOLEAN /\ again' \in BOOLEAN
        /\ calls' \in Seq(Call) /\ Continues(r, calls') /\ Shadowed(calls') /\ Books(proxy', calls')
        /\ \A z \in Zone : Quiet(r, z) => Quiet(calls', z)
    <3>1. CASE SyncDaemonDryRun(syncing, r)
      <4> DEFINE p == proxy'
      <4>1. Books(p, r)
        BY <2>5
      <4> HIDE DEF p
      <4>2. /\ syncing' \in BOOLEAN /\ again' \in BOOLEAN
            /\ calls' \in Seq(Call) /\ Continues(r, calls') /\ Shadowed(calls') /\ Books(p, calls')
            /\ \A z \in Zone : Quiet(r, z) => Quiet(calls', z)
        BY <1>1, <2>2, <3>1, <4>1, SyncKept
      <4> QED BY <4>2 DEF p
    <3>2. CASE NoSync(r)
      BY <1>1, <2>2, <2>5, <3>2, ContinuesRefl DEF NoSync
    <3> QED BY <2>1, <3>1, <3>2
  <2>7. GuiTypeOK'
    BY <1>1, <2>1, <2>3, <2>4, <2>6 DEF GuiTypeOK
  <2>8. Continues(rest, calls')
    BY <1>1, <2>2, <2>6, ContinuesTrans
  <2>9. ASSUME NEW z \in Zone, Still(c, ok, rest, z)
        PROVE  z \notin streaming' /\ proxy'[z].waiting = NoEffect /\ Quiet(calls', z)
    BY <2>2, <2>3, <2>4, <2>6, <2>9 DEF Still
  <2> QED BY <2>6, <2>7, <2>8, <2>9 DEF EndKept
<1> QED BY <1>3, <1>4

LEMMA EndsKept ==
  ASSUME TypeOK, NEW c \in Call, c.open, NEW ok \in BOOLEAN, NEW rest,
         Without(calls, rest, c), Books(proxy, calls), Ends(c, ok, rest)
  PROVE  EndKept(c, ok, rest) /\ UNCHANGED dryRun
<1>1. UNCHANGED dryRun
  BY DEF Ends
<1> QED BY <1>1, ApplyEndKept, AllOffEndKept, UpdateEndKept, PaintEndKept, SetDryRunEndKept,
           ListEndKept DEF Ends

(* What the executed commands show survives what the end of a call adds.   *)
LEMMA ShownContinues ==
  ASSUME NEW q \in Seq(Call), NEW r \in Seq(Call), Continues(q, r), NEW n \in 0 .. Len(q),
         NEW ch, Shown(q, n, ch)
  PROVE  Shown(r, n, ch)
<1>1. 1 .. n \subseteq DOMAIN q
  OBVIOUS
<1> SUFFICES ASSUME NEW z \in Zone, NEW i \in 1 .. n, r[i] \in MineCalls, r[i].ok, ~r[i].expect,
                    Commands(r[i], z), \A j \in i + 1 .. n : ~Commands(r[j], z)
             PROVE  ch[z].shows = r[i].effect
  BY DEF Shown
<1>2. r[i] = q[i]
  BY <1>1 DEF Continues
<1>3. \A j \in i + 1 .. n : ~Commands(q[j], z)
  <2>1. i + 1 .. n \subseteq DOMAIN q
    OBVIOUS
  <2> QED BY <2>1 DEF Continues
<1> QED BY <1>2, <1>3 DEF Shown

-----------------------------------------------------------------------------
(* The steps. *)

LEMMA InitOK == Init => StreamInv
<1> SUFFICES ASSUME Init PROVE StreamInv
  OBVIOUS
<1>1. OffEffect \in Effect /\ NoEffect \in MaybeEffect
  BY StreamAssumption DEF Effect, MaybeEffect
<1>2. calls = <<>> /\ <<>> \in Seq(Call) /\ DOMAIN <<>> = {} /\ answered = 0
  BY DEF Init
<1>3. /\ proxy \in [Zone -> ProxyState]
      /\ \A z \in Zone : proxy[z].suspended = 0 /\ ~proxy[z].inFlight
                         /\ proxy[z].waiting = NoEffect
  BY <1>1, FreshFacts DEF Init
<1>4. TypeOK
  <2>1. GuiTypeOK
    BY <1>1, <1>3 DEF Init, GuiTypeOK
  <2>2. DaemonTypeOK
    BY <1>1 DEF Init, DaemonTypeOK, Channel
  <2> QED BY <1>1, <1>2, <2>1, <2>2 DEF Init, TypeOK
<1>5. Books(proxy, calls)
  BY <1>2, <1>3, FreshBalance
<1>6. Shadowed(calls) /\ Shown(calls, answered, channel)
  BY <1>2 DEF Shadowed, Shown
<1>7. Held(holds, proxy, streaming, calls, channel)
  BY DEF Init, Held
<1> QED BY <1>4, <1>5, <1>6, <1>7 DEF StreamInv

LEMMA TimeoutOK ==
  ASSUME StreamInv, NEW i \in DOMAIN calls, Timeout(i)
  PROVE  StreamInv'
<1> DEFINE c == calls[i]
           rest == [calls EXCEPT ![i] = Abandoned(c)]
<1>1. /\ TypeOK /\ calls \in Seq(Call) /\ c \in Call /\ c.open /\ answered \in 0 .. Len(calls)
      /\ UNCHANGED <<known, connected, answered, holds, daemonDryRun, zoneEffect, channel>>
      /\ Books(proxy, calls) /\ Shadowed(calls) /\ Shown(calls, answered, channel)
      /\ Held(holds, proxy, streaming, calls, channel)
  BY DEF StreamInv, TypeOK, Timeout, daemon
<1>2. Ends(c, FALSE, rest)
  <2>1. [calls EXCEPT ![i].open = FALSE, ![i].self = FALSE] = rest
    BY <1>1 DEF Abandoned, Call
  <2> QED BY <2>1 DEF Timeout
<1>3. Without(calls, rest, c)
  BY <1>1, TimeoutWithout
<1>4. EndKept(c, FALSE, rest) /\ UNCHANGED dryRun
  <2> HIDE DEF c, rest
  <2> QED BY <1>1, <1>2, <1>3, EndsKept
<1>5. /\ rest \in Seq(Call) /\ Len(rest) = Len(calls)
      /\ rest[i] = Abandoned(c) /\ \A j \in DOMAIN calls : j # i => rest[j] = calls[j]
      /\ Abandoned(c) \notin MineCalls
      /\ \A z : Commands(Abandoned(c), z) <=> Commands(c, z)
  BY <1>1, <1>3, AbandonedFacts DEF Without
<1> HIDE DEF rest
<1>6. Continues(calls, rest)
  BY <1>1, <1>5 DEF Continues
<1>7. /\ GuiTypeOK' /\ calls' \in Seq(Call) /\ Continues(rest, calls') /\ Shadowed(calls')
      /\ Books(proxy', calls')
  BY <1>4 DEF EndKept
<1>8. Continues(calls, calls') /\ answered \in 0 .. Len(calls')
  <2>1. Continues(calls, calls')
    BY <1>1, <1>5, <1>6, <1>7, ContinuesTrans
  <2> QED BY <1>1, <1>7, <2>1 DEF Continues
<1>9. Shown(calls', answered', channel')
  BY <1>1, <1>7, <1>8, ShownContinues
<1>10. Held(holds', proxy', streaming', calls', channel')
  <2> SUFFICES ASSUME NEW z \in Zone, holds[z] # NoEffect
               PROVE  /\ channel[z].shows = holds[z]
                      /\ z \notin streaming' /\ proxy'[z].waiting = NoEffect /\ Quiet(calls', z)
    BY <1>1 DEF Held
  <2>1. /\ channel[z].shows = holds[z] /\ z \notin streaming /\ proxy[z].waiting = NoEffect
        /\ Quiet(calls, z)
    BY <1>1 DEF Held
  <2>2. ~Commands(c, z) /\ ~Paints(c, z) /\ Quiet(rest, z)
    BY <1>3, <2>1 DEF Quiet, Without
  <2>3. Still(c, FALSE, rest, z)
    BY <2>1, <2>2 DEF Still
  <2> QED BY <1>4, <2>1, <2>3 DEF EndKept
<1>11. TypeOK'
  BY <1>1, <1>4, <1>7, <1>8 DEF TypeOK, DaemonTypeOK
<1> QED BY <1>7, <1>9, <1>10, <1>11 DEF StreamInv

(* The replies that wait are one fewer when the first call leaves.         *)
LEMMA ShownTail ==
  ASSUME NEW q \in Seq(Call), q # <<>>, NEW n \in 1 .. Len(q), NEW ch, Shown(q, n, ch)
  PROVE  Shown(Tail(q), n - 1, ch)
<1> DEFINE r == Tail(q)
<1>1. /\ r \in Seq(Call) /\ Len(q) \in Nat /\ DOMAIN r = 1 .. Len(q) - 1
      /\ \A i \in 1 .. Len(q) - 1 : r[i] = q[i + 1]
  BY TailFacts
<1> HIDE DEF r
<1> SUFFICES ASSUME NEW z \in Zone, NEW i \in 1 .. n - 1, r[i] \in MineCalls, r[i].ok,
                    ~r[i].expect, Commands(r[i], z),
                    \A j \in i + 1 .. n - 1 : ~Commands(r[j], z)
             PROVE  ch[z].shows = r[i].effect
  BY DEF Shown, r
<1>2. r[i] = q[i + 1] /\ i + 1 \in 1 .. n
  BY <1>1
<1>3. ASSUME NEW j \in (i + 1) + 1 .. n PROVE ~Commands(q[j], z)
  <2>1. r[j - 1] = q[j] /\ j - 1 \in i + 1 .. n - 1
    BY <1>1
  <2> QED BY <2>1
<1> QED BY <1>2, <1>3 DEF Shown

(* The end of an acknowledged command with no later one: the colour shows, *)
(* and nothing is under way that repaints it.                              *)
LEMMA ReliedHolds ==
  ASSUME StreamInv, calls # <<>>, answered > 0, Head(calls).open, NEW z \in Zone,
         Relied(Head(calls), z, Tail(calls)) # NoEffect
  PROVE  LET c == Head(calls)
         IN  /\ channel[z].shows = Relied(c, z, Tail(calls))
             /\ Relied(c, z, Tail(calls)) \in StaticEffect
             /\ Still(c, c.ok, Tail(calls), z)
<1> DEFINE c == Head(calls)
           r == Tail(calls)
           v == Relied(c, z, r)
<1>1. /\ calls \in Seq(Call) /\ answered \in 0 .. Len(calls)
      /\ Books(proxy, calls) /\ Shadowed(calls) /\ Shown(calls, answered, channel)
      /\ Held(holds, proxy, streaming, calls, channel)
      /\ holds \in [Zone -> StaticEffect \cup {NoEffect}]
  BY DEF StreamInv, TypeOK
<1>2. /\ r \in Seq(Call) /\ c = calls[1] /\ c \in Call /\ Len(calls) \in Nat /\ Len(calls) >= 1
      /\ DOMAIN r = 1 .. Len(calls) - 1 /\ DOMAIN calls = 1 .. Len(calls)
      /\ \A i \in 1 .. Len(calls) - 1 : r[i] = calls[i + 1]
  BY <1>1, TailFacts
<1>3. Without(calls, r, c)
  BY <1>1, TailWithout
<1> HIDE DEF r, c
<1> DEFINE Meant == /\ c.ok /\ c.self /\ ~c.expect /\ Commands(c, z)
                    /\ \A i \in DOMAIN r : ~Commands(r[i], z)
           e == IF c.kind = "allOff" THEN OffEffect ELSE c.effect
<1>4. v = IF Meant THEN (IF e \in StaticEffect THEN e ELSE NoEffect) ELSE holds[z]
  BY DEF Relied, Commands
<1>5. CASE Meant
  <2>1. e = c.effect /\ v = e /\ e \in StaticEffect
    BY <1>2, <1>4, <1>5 DEF Call, c, r
  <2>2. c \in MineCalls /\ c \in Suspending(z)
    BY <1>2, <1>5 DEF MineCalls, Suspending, Commands, c
  <2>3. \A j \in 2 .. answered : ~Commands(calls[j], z)
    <3> SUFFICES ASSUME NEW j \in 2 .. answered PROVE ~Commands(calls[j], z)
      OBVIOUS
    <3>1. j - 1 \in DOMAIN r /\ r[j - 1] = calls[j]
      BY <1>1, <1>2
    <3> QED BY <1>5, <3>1
  <2>4. channel[z].shows = c.effect
    <3>1. 1 \in 1 .. answered
      BY <1>1
    <3>2. \A j \in 1 + 1 .. answered : ~Commands(calls[j], z)
      BY <2>3
    <3> QED BY <1>1, <1>2, <1>5, <2>2, <3>1, <3>2 DEF Shown
  <2>5. proxy[z].waiting = NoEffect
    BY <1>1, <1>3, <2>2, BooksBefore
  <2>6. Quiet(r, z)
    <3> SUFFICES ASSUME NEW i \in DOMAIN r PROVE ~Paints(r[i], z)
      BY <1>5 DEF Quiet
    <3>1. i + 1 \in DOMAIN calls /\ 1 < i + 1 /\ r[i] = calls[i + 1] /\ 1 \in DOMAIN calls
      BY <1>2
    <3> QED BY <1>1, <1>2, <2>2, <3>1 DEF Shadowed
  <2>7. ~Paints(c, z)
    BY <1>5 DEF Commands, Paints
  <2>8. Still(c, c.ok, r, z)
    BY <1>5, <2>1, <2>5, <2>6, <2>7 DEF Still
  <2> QED BY <2>1, <2>4, <2>8 DEF c, r
<1>6. CASE ~Meant
  <2>1. v = holds[z] /\ v # NoEffect
    BY <1>4, <1>6 DEF c, r
  <2>2. /\ channel[z].shows = v /\ z \notin streaming /\ proxy[z].waiting = NoEffect
        /\ Quiet(calls, z) /\ v \in StaticEffect
    BY <1>1, <2>1 DEF Held
  <2>3. Quiet(r, z) /\ ~Commands(c, z) /\ ~Paints(c, z)
    BY <1>2, <1>3, <2>2 DEF Quiet, Without
  <2> QED BY <2>2, <2>3 DEF Still, c, r
<1> QED BY <1>5, <1>6

LEMMA ReadReplyOK ==
  ASSUME StreamInv, ReadReply
  PROVE  StreamInv'
<1> DEFINE c == Head(calls)
           r == Tail(calls)
<1>1. /\ TypeOK /\ calls \in Seq(Call) /\ answered \in 0 .. Len(calls) /\ answered > 0
      /\ answered' = answered - 1
      /\ UNCHANGED <<daemonDryRun, zoneEffect, channel>>
      /\ Books(proxy, calls) /\ Shadowed(calls) /\ Shown(calls, answered, channel)
      /\ Held(holds, proxy, streaming, calls, channel)
  BY DEF StreamInv, TypeOK, ReadReply, daemon
<1>2. calls # <<>>
  BY <1>1
<1>3. /\ r \in Seq(Call) /\ c = calls[1] /\ c \in Call /\ Len(r) = Len(calls) - 1
      /\ Len(calls) \in Nat /\ Len(calls) >= 1
      /\ \A i \in 1 .. Len(calls) - 1 : r[i] = calls[i + 1]
  BY <1>1, <1>2, TailFacts
<1>4. Without(calls, r, c)
  BY <1>1, <1>2, TailWithout
<1>5. Shown(r, answered', channel') /\ answered' \in 0 .. Len(r)
  <2>1. answered \in 1 .. Len(calls)
    BY <1>1
  <2>2. Shown(r, answered - 1, channel)
    BY <1>1, <1>2, <2>1, ShownTail
  <2> HIDE DEF r
  <2> QED BY <1>1, <1>3, <2>1, <2>2
<1>6. CASE c.open
  <2>1. /\ known' = {c.told} /\ holds' = [z \in Zone |-> Relied(c, z, r)] /\ UNCHANGED connected
        /\ Ends(c, c.ok, r)
    BY <1>6 DEF ReadReply
  <2>2. c.ok \in BOOLEAN /\ c.told \in BOOLEAN
    BY <1>3 DEF Call
  <2>3. EndKept(c, c.ok, r) /\ UNCHANGED dryRun
    <3> HIDE DEF c, r
    <3> QED BY <1>1, <1>3, <1>4, <1>6, <2>1, <2>2, EndsKept
  <2>4. /\ GuiTypeOK' /\ calls' \in Seq(Call) /\ Continues(r, calls') /\ Shadowed(calls')
        /\ Books(proxy', calls')
    BY <2>3 DEF EndKept
  <2>5. Shown(calls', answered', channel') /\ answered' \in 0 .. Len(calls')
    <3>1. answered' \in 0 .. Len(calls')
      BY <1>5, <2>4 DEF Continues
    <3> HIDE DEF r
    <3> QED BY <1>3, <1>5, <2>4, <3>1, ShownContinues
  <2>6. ASSUME NEW z \in Zone, holds'[z] # NoEffect
        PROVE  /\ channel'[z].shows = holds'[z] /\ holds'[z] \in StaticEffect
               /\ z \notin streaming' /\ proxy'[z].waiting = NoEffect /\ Quiet(calls', z)
    <3>1. holds'[z] = Relied(c, z, r)
      BY <2>1
    <3>2. /\ channel[z].shows = Relied(c, z, r) /\ Relied(c, z, r) \in StaticEffect
          /\ Still(c, c.ok, r, z)
      BY <1>1, <1>2, <1>6, <2>6, <3>1, ReliedHolds
    <3> QED BY <1>1, <2>3, <3>1, <3>2 DEF EndKept
  <2>7. Held(holds', proxy', streaming', calls', channel')
    BY <2>6 DEF Held
  <2>8. holds' \in [Zone -> StaticEffect \cup {NoEffect}]
    <3>1. holds' = [z \in Zone |-> holds'[z]]
      BY <2>1
    <3> QED BY <2>6, <3>1
  <2>9. TypeOK'
    BY <1>1, <2>1, <2>2, <2>4, <2>5, <2>8 DEF TypeOK, DaemonTypeOK
  <2> QED BY <2>4, <2>5, <2>7, <2>9 DEF StreamInv
<1>7. CASE ~c.open
  <2>1. calls' = r /\ UNCHANGED <<dryRun, syncing, again, refresh, loaded, proxy, streaming,
                                  accepted, known, connected, holds>>
    BY <1>7 DEF ReadReply, gui
  <2>2. Books(proxy, r)
    <3>1. ASSUME NEW z \in Zone
          PROVE  /\ Cardinality(At(r, Suspending(z))) = Cardinality(At(calls, Suspending(z)))
                 /\ Cardinality(At(r, Frames(z))) = Cardinality(At(calls, Frames(z)))
      <4>1. c \notin Suspending(z) /\ c \notin Frames(z)
        BY <1>7 DEF Suspending, Frames, MineCalls
      <4>2. /\ Cardinality(At(calls, Suspending(z))) \in Nat
            /\ Cardinality(At(calls, Frames(z))) \in Nat
        BY <1>1, AtFacts
      <4> HIDE DEF c, r
      <4> QED BY <1>4, <4>1, <4>2, SubsetsOfMine DEF Without
    <3> QED BY <1>1, <3>1 DEF Books
  <2>3. Held(holds', proxy', streaming', calls', channel')
    BY <1>1, <1>4, <2>1 DEF Held, Without
  <2>4. TypeOK'
    BY <1>1, <1>3, <1>5, <2>1 DEF TypeOK, GuiTypeOK, DaemonTypeOK
  <2> QED BY <1>4, <1>5, <2>1, <2>2, <2>3, <2>4 DEF StreamInv, Without
<1> QED BY <1>6, <1>7

(* The invariant with one call more on the wire.                           *)
LEMMA ShownAppend ==
  ASSUME NEW q \in Seq(Call), NEW c \in Call, NEW n \in 0 .. Len(q), NEW ch, Shown(q, n, ch)
  PROVE  Shown(Append(q, c), n, ch) /\ n \in 0 .. Len(Append(q, c))
<1>1. /\ Append(q, c) \in Seq(Call) /\ Continues(q, Append(q, c))
  BY AppendFacts
<1>2. n \in 0 .. Len(Append(q, c))
  BY <1>1 DEF Continues
<1> QED BY <1>1, <1>2, ShownContinues

(* A command suspends its zones and ends the trust in their colours.       *)
LEMMA IssueOK ==
  ASSUME StreamInv, NEW kind \in {"apply", "allOff", "update"}, NEW z0 \in Zone \cup {NoZone},
         NEW e \in MaybeEffect, kind # "allOff" => z0 \in Zone, kind = "apply" => e \in Effect,
         kind = "allOff" => e = OffEffect, Issue(kind, z0, e),
         UNCHANGED <<dryRun, syncing, again, refresh, loaded, streaming, accepted, known,
                     connected, answered, daemon>>
  PROVE  StreamInv'
<1> DEFINE c == NewCall(kind, z0, e, dryRun)
<1>1. /\ TypeOK /\ calls \in Seq(Call) /\ answered \in 0 .. Len(calls) /\ dryRun \in BOOLEAN
      /\ proxy \in [Zone -> ProxyState] /\ holds \in [Zone -> StaticEffect \cup {NoEffect}]
      /\ Books(proxy, calls) /\ Shadowed(calls) /\ Shown(calls, answered, channel)
      /\ Held(holds, proxy, streaming, calls, channel)
  BY DEF StreamInv, TypeOK, GuiTypeOK
<1>2. c \in MineCalls /\ c.kind = kind /\ c \in Call /\ c.kind # "paint"
  <2>1. OffEffect \in Effect /\ kind \in Kind
    BY StreamAssumption DEF Effect, Kind
  <2>2. c \in Call
    BY <1>1, <2>1 DEF NewCall, Call
  <2> QED BY <2>2 DEF NewCall, MineCalls
<1>3. /\ calls' = Append(calls, c)
      /\ proxy' = [z \in Zone |-> IF z \in Suspends(c)
                                  THEN [proxy[z] EXCEPT !.suspended = @ + 1, !.waiting = NoEffect]
                                  ELSE proxy[z]]
      /\ holds' = [z \in Zone |-> IF kind # "update" /\ z \in Suspends(c) THEN NoEffect
                                  ELSE holds[z]]
  BY DEF Issue, SuspendZoneFrames
<1> HIDE DEF c
<1>4. ASSUME NEW z \in Zone
      PROVE  /\ proxy'[z] \in ProxyState /\ proxy'[z].inFlight = proxy[z].inFlight
             /\ proxy'[z].suspended = proxy[z].suspended + IF z \in Suspends(c) THEN 1 ELSE 0
             /\ proxy'[z].waiting = IF z \in Suspends(c) THEN NoEffect ELSE proxy[z].waiting
  <2>1. proxy[z] \in ProxyState /\ NoEffect \in MaybeEffect
    BY <1>1 DEF MaybeEffect
  <2>2. CASE z \in Suspends(c)
    <3> DEFINE s == proxy[z].suspended + 1
               r == [proxy[z] EXCEPT !.suspended = s, !.waiting = NoEffect]
    <3>1. s \in Int
      BY <2>1 DEF ProxyState
    <3>2. proxy'[z] = r
      BY <1>3, <2>1, <2>2 DEF ProxyState
    <3> HIDE DEF s
    <3>3. r \in ProxyState /\ r.inFlight = proxy[z].inFlight /\ r.suspended = s
          /\ r.waiting = NoEffect
      BY <2>1, <3>1 DEF ProxyState
    <3> QED BY <2>2, <3>2, <3>3 DEF s
  <2>3. CASE z \notin Suspends(c)
    <3>1. proxy'[z] = proxy[z] /\ proxy[z].suspended \in Int
      BY <1>3, <2>1, <2>3 DEF ProxyState
    <3> QED BY <2>1, <2>3, <3>1
  <2> QED BY <2>2, <2>3
<1>5. calls' \in Seq(Call) /\ Shadowed(calls')
      /\ Shown(calls', answered', channel') /\ answered' \in 0 .. Len(calls')
  <2>1. \A z \in Zone : ~Paints(c, z)
    BY <1>2 DEF Paints
  <2>2. UNCHANGED <<answered, channel>>
    BY DEF daemon
  <2>3. Append(calls, c) \in Seq(Call)
    BY <1>1, <1>2, AppendFacts
  <2>4. Shadowed(Append(calls, c))
    BY <1>1, <1>2, <2>1, ShadowedAppend
  <2>5. Shown(Append(calls, c), answered, channel) /\ answered \in 0 .. Len(Append(calls, c))
    BY <1>1, <1>2, ShownAppend
  <2> QED BY <1>3, <2>2, <2>3, <2>4, <2>5
<1>6. Books(proxy', calls')
  <2> SUFFICES ASSUME NEW z \in Zone
               PROVE  /\ proxy'[z].suspended = Cardinality(At(calls', Suspending(z)))
                      /\ Cardinality(At(calls', Frames(z))) = IF proxy'[z].inFlight THEN 1 ELSE 0
                      /\ proxy'[z].waiting # NoEffect => proxy'[z].inFlight /\ proxy'[z].suspended = 0
    BY DEF Books
  <2>1. c \notin Frames(z) /\ (c \in Suspending(z) <=> z \in Suspends(c))
    BY <1>2 DEF Frames, Suspending
  <2>2. /\ Cardinality(At(calls', Suspending(z)))
             = Cardinality(At(calls, Suspending(z))) + IF c \in Suspending(z) THEN 1 ELSE 0
        /\ Cardinality(At(calls', Frames(z)))
             = Cardinality(At(calls, Frames(z))) + IF c \in Frames(z) THEN 1 ELSE 0
        /\ Cardinality(At(calls, Suspending(z))) \in Nat /\ Cardinality(At(calls, Frames(z))) \in Nat
    BY <1>1, <1>2, <1>3, AtAppend, AtFacts
  <2>3. /\ proxy[z].suspended = Cardinality(At(calls, Suspending(z)))
        /\ Cardinality(At(calls, Frames(z))) = IF proxy[z].inFlight THEN 1 ELSE 0
        /\ proxy[z].waiting # NoEffect => proxy[z].inFlight /\ proxy[z].suspended = 0
    BY <1>1 DEF Books
  <2> QED BY <1>4, <2>1, <2>2, <2>3
<1>7. Held(holds', proxy', streaming', calls', channel')
  <2> SUFFICES ASSUME NEW z \in Zone, holds'[z] # NoEffect
               PROVE  /\ channel'[z].shows = holds'[z]
                      /\ z \notin streaming' /\ proxy'[z].waiting = NoEffect /\ Quiet(calls', z)
    BY DEF Held
  <2>1. holds'[z] = holds[z] /\ ~(kind # "update" /\ z \in Suspends(c))
    BY <1>3
  <2>2. /\ channel[z].shows = holds[z] /\ z \notin streaming /\ proxy[z].waiting = NoEffect
        /\ Quiet(calls, z)
    BY <1>1, <2>1 DEF Held
  <2>3. ~Commands(c, z) /\ ~Paints(c, z)
    BY <1>2, <2>1 DEF Commands, Paints
  <2>4. /\ DOMAIN calls = 1 .. Len(calls) /\ DOMAIN calls' = 1 .. Len(calls) + 1
        /\ Len(calls) \in Nat /\ calls'[Len(calls) + 1] = c
        /\ \A i \in 1 .. Len(calls) : calls'[i] = calls[i]
    BY <1>1, <1>2, <1>3, AppendFacts
  <2>5. Quiet(calls', z)
    BY <2>2, <2>3, <2>4 DEF Quiet
  <2> QED BY <1>4, <2>1, <2>2, <2>5 DEF daemon
<1>8. TypeOK'
  <2>1. proxy' \in [Zone -> ProxyState] /\ holds' \in [Zone -> StaticEffect \cup {NoEffect}]
    BY <1>1, <1>3, <1>4
  <2>2. GuiTypeOK'
    BY <1>1, <2>1 DEF TypeOK, GuiTypeOK
  <2>3. DaemonTypeOK'
    BY <1>1 DEF TypeOK, DaemonTypeOK, daemon
  <2> QED BY <1>1, <1>5, <2>1, <2>2, <2>3 DEF TypeOK
<1> QED BY <1>5, <1>6, <1>7, <1>8 DEF StreamInv

LEMMA CommandOK ==
  ASSUME StreamInv, Command
  PROVE  StreamInv'
<1>1. UNCHANGED <<dryRun, syncing, again, refresh, loaded, streaming, accepted, known,
                  connected, answered, daemon>>
  BY DEF Command
<1>2. OffEffect \in MaybeEffect /\ NoEffect \in MaybeEffect /\ Effect \subseteq MaybeEffect
  BY StreamAssumption DEF MaybeEffect, Effect
<1>3. ASSUME NEW z \in Zone, NEW e \in Effect, Issue("apply", z, e) PROVE StreamInv'
  BY <1>1, <1>2, <1>3, IssueOK
<1>4. ASSUME Issue("allOff", NoZone, OffEffect) PROVE StreamInv'
  BY <1>1, <1>2, <1>4, IssueOK
<1>5. ASSUME NEW z \in Zone, Issue("update", z, NoEffect) PROVE StreamInv'
  BY <1>1, <1>2, <1>5, IssueOK
<1> QED BY <1>3, <1>4, <1>5 DEF Command

LEMMA SetDryRunEnabledOK ==
  ASSUME StreamInv, NEW enabled \in BOOLEAN, SetDryRunEnabled(enabled)
  PROVE  StreamInv'
<1>1. /\ TypeOK /\ calls \in Seq(Call) /\ answered \in 0 .. Len(calls)
      /\ GuiTypeOK /\ syncing \in BOOLEAN /\ dryRun' \in BOOLEAN
      /\ Books(proxy, calls) /\ Shadowed(calls) /\ Shown(calls, answered, channel)
      /\ Held(holds, proxy, streaming, calls, channel)
      /\ UNCHANGED <<connected, refresh, loaded, proxy, known, answered, daemonDryRun, zoneEffect,
                     channel, holds>>
  BY DEF StreamInv, TypeOK, GuiTypeOK, SetDryRunEnabled, daemon
<1>2. /\ syncing' \in BOOLEAN /\ again' \in BOOLEAN
      /\ calls' \in Seq(Call) /\ Continues(calls, calls') /\ Shadowed(calls')
      /\ Books(proxy, calls') /\ \A z \in Zone : Quiet(calls, z) => Quiet(calls', z)
  <2>1. SyncDaemonDryRun(syncing, calls)
    BY DEF SetDryRunEnabled
  <2> QED BY <1>1, <2>1, SyncKept
<1>3. /\ streaming' \in SUBSET Zone /\ accepted' \in [Zone -> MaybeEffect]
      /\ streaming' \subseteq streaming
  <2>1. CASE enabled /\ ~dryRun
    BY <1>1, <2>1, StopStreamingTypes DEF SetDryRunEnabled
  <2>2. CASE ~(enabled /\ ~dryRun)
    BY <1>1, <2>2 DEF SetDryRunEnabled, GuiTypeOK
  <2> QED BY <2>1, <2>2
<1>4. Shown(calls', answered', channel') /\ answered' \in 0 .. Len(calls')
  <2>1. answered \in 0 .. Len(calls')
    BY <1>1, <1>2 DEF Continues
  <2> QED BY <1>1, <1>2, <2>1, ShownContinues
<1>5. Held(holds', proxy', streaming', calls', channel')
  BY <1>1, <1>2, <1>3 DEF Held
<1>6. TypeOK'
  BY <1>1, <1>2, <1>3, <1>4 DEF TypeOK, GuiTypeOK, DaemonTypeOK
<1> QED BY <1>1, <1>2, <1>4, <1>5, <1>6 DEF StreamInv

LEMMA SendListOK ==
  ASSUME StreamInv, SendList
  PROVE  StreamInv'
<1> DEFINE c == NewCall("list", NoZone, NoEffect, FALSE)
<1>1. /\ TypeOK /\ calls \in Seq(Call) /\ answered \in 0 .. Len(calls)
      /\ Books(proxy, calls) /\ Shadowed(calls) /\ Shown(calls, answered, channel)
      /\ Held(holds, proxy, streaming, calls, channel)
      /\ calls' = Append(calls, c) /\ refresh' = "busy"
      /\ UNCHANGED <<dryRun, syncing, again, loaded, proxy, streaming, accepted, known,
                     connected, answered, daemonDryRun, zoneEffect, channel, holds>>
  BY DEF StreamInv, TypeOK, SendList, daemon
<1>2. Neutral(c)
  <2>1. OffEffect \in Effect
    BY StreamAssumption DEF Effect
  <2> QED BY <2>1 DEF Neutral, NewCall, Call, Kind, MaybeEffect
<1> HIDE DEF c
<1>3. /\ calls' \in Seq(Call) /\ Continues(calls, calls') /\ Shadowed(calls')
      /\ Books(proxy, calls') /\ \A z \in Zone : Quiet(calls, z) => Quiet(calls', z)
  BY <1>1, <1>2, NeutralAppend
<1>4. Shown(calls', answered', channel') /\ answered' \in 0 .. Len(calls')
  <2>1. answered \in 0 .. Len(calls')
    BY <1>1, <1>3 DEF Continues
  <2> QED BY <1>1, <1>3, <2>1, ShownContinues
<1>5. Held(holds', proxy', streaming', calls', channel')
  BY <1>1, <1>3 DEF Held
<1>6. TypeOK'
  BY <1>1, <1>3, <1>4 DEF TypeOK, GuiTypeOK, DaemonTypeOK
<1> QED BY <1>1, <1>3, <1>4, <1>5, <1>6 DEF StreamInv

LEMMA DisconnectOK ==
  ASSUME StreamInv, Disconnect
  PROVE  StreamInv'
<1>1. /\ TypeOK /\ GuiTypeOK /\ DaemonTypeOK
      /\ Held(holds, proxy, streaming, calls, channel)
      /\ StopStreaming(Zone) /\ calls' = <<>> /\ answered' = 0
      /\ proxy' = [z \in Zone |-> FreshProxy(z, proxy[z].effect)]
      /\ connected' = FALSE /\ known' = {} /\ refresh' = "idle" /\ loaded' = FALSE
      /\ syncing' = FALSE /\ again' = FALSE
      /\ UNCHANGED <<dryRun, channel, holds>>
  BY DEF StreamInv, TypeOK, Disconnect
<1>2. /\ proxy' \in [Zone -> ProxyState]
      /\ \A z \in Zone : proxy'[z].suspended = 0 /\ ~proxy'[z].inFlight
                         /\ proxy'[z].waiting = NoEffect
  <2>1. \A z \in Zone : proxy[z].effect \in Effect
    BY <1>1 DEF GuiTypeOK, ProxyState
  <2> QED BY <1>1, <2>1, FreshFacts
<1>3. /\ streaming' \in SUBSET Zone /\ accepted' \in [Zone -> MaybeEffect]
      /\ streaming' \subseteq streaming
  BY <1>1, StopStreamingTypes
<1>4. <<>> \in Seq(Call) /\ DOMAIN <<>> = {} /\ Len(<<>>) = 0
  OBVIOUS
<1>5. Books(proxy', calls')
  BY <1>1, <1>2, <1>4, FreshBalance
<1>6. Shadowed(calls') /\ Shown(calls', answered', channel')
  BY <1>1, <1>4 DEF Shadowed, Shown
<1>7. Held(holds', proxy', streaming', calls', channel')
  BY <1>1, <1>2, <1>3, <1>4 DEF Held, Quiet
<1>8. daemonDryRun' \in BOOLEAN /\ zoneEffect' \in [Zone -> Effect]
  <2>1. OffEffect \in Effect
    BY StreamAssumption DEF Effect
  <2>2. CASE UNCHANGED <<daemonDryRun, zoneEffect>>
    BY <1>1, <2>2 DEF DaemonTypeOK
  <2>3. CASE daemonDryRun' \in BOOLEAN /\ zoneEffect' = [z \in Zone |-> OffEffect]
    BY <2>1, <2>3
  <2> QED BY <2>2, <2>3 DEF Disconnect
<1>9. TypeOK'
  <2>1. GuiTypeOK'
    BY <1>1, <1>2, <1>3 DEF GuiTypeOK
  <2>2. DaemonTypeOK'
    BY <1>1, <1>8 DEF DaemonTypeOK
  <2>3. known' \in SUBSET BOOLEAN /\ connected' \in BOOLEAN
    BY <1>1
  <2>4. calls' \in Seq(Call) /\ answered' \in 0 .. Len(calls')
    BY <1>1, <1>4
  <2>5. holds' \in [Zone -> StaticEffect \cup {NoEffect}]
    BY <1>1 DEF TypeOK
  <2> QED BY <2>1, <2>2, <2>3, <2>4, <2>5 DEF TypeOK
<1> QED BY <1>5, <1>6, <1>7, <1>9 DEF StreamInv

LEMMA ReconnectOK ==
  ASSUME StreamInv, Reconnect
  PROVE  StreamInv'
<1>1. /\ StreamInv /\ connected' = TRUE /\ refresh' = "due"
      /\ UNCHANGED <<dryRun, syncing, again, loaded, proxy, streaming, accepted, known,
                     calls, answered, daemonDryRun, zoneEffect, channel, holds>>
  BY DEF Reconnect, daemon
<1> QED BY <1>1 DEF StreamInv, TypeOK, GuiTypeOK, DaemonTypeOK

(* One frame for each zone of `sent'.                                      *)
FramesFor(new, sent) ==
  /\ new \in Seq(MineCalls) /\ Len(new) = Cardinality(sent)
  /\ \A i \in 1 .. Len(new) : new[i].kind = "paint" /\ new[i].zone \in sent
  /\ \A i, j \in 1 .. Len(new) : new[i].zone = new[j].zone => i = j

(* r is q with the frames new behind it.                                   *)
WithFrames(q, new, sent, r) ==
  /\ r \in Seq(Call)
  /\ DOMAIN r = 1 .. Len(q) + Len(new) /\ Len(q) \in Nat
  /\ \A i \in 1 .. Len(q) : r[i] = q[i]
  /\ \A i \in 1 .. Len(new) : r[Len(q) + i] = new[i]
  /\ \A z \in Zone :
       Cardinality(At(r, Suspending(z))) = Cardinality(At(q, Suspending(z)))
  /\ \A z \in sent : Cardinality(At(r, Frames(z))) = Cardinality(At(q, Frames(z))) + 1
  /\ \A z \in Zone \ sent :
       Cardinality(At(r, Frames(z))) = Cardinality(At(q, Frames(z)))

LEMMA FramesAdded ==
  ASSUME NEW q \in Seq(Call), NEW sent \in SUBSET Zone, NEW new, FramesFor(new, sent),
         NEW r, r = q \o new
  PROVE  WithFrames(q, new, sent, r)
<1> DEFINE n == Cardinality(sent)
           order == [i \in 1 .. n |-> new[i].zone]
<1>0. /\ new \in Seq(MineCalls) /\ Len(new) = n
      /\ \A i \in 1 .. n : new[i].kind = "paint" /\ new[i].zone = order[i]
      /\ \A i, j \in 1 .. n : order[i] = order[j] => i = j
      /\ order \in [1 .. n -> sent]
  BY DEF FramesFor
<1> HIDE DEF order
<1>1. IsFiniteSet(sent) /\ n \in Nat
  <2>1. IsFiniteSet(sent)
    BY StreamAssumption, FS_Subset
  <2> QED BY <2>1, FS_CardinalityType
<1>2. MineCalls \subseteq Call
  BY DEF MineCalls
<1>3. /\ r \in Seq(Call) /\ Len(r) = Len(q) + Len(new) /\ Len(q) \in Nat /\ Len(new) \in Nat
      /\ \A i \in 1 .. Len(q) : r[i] = q[i]
      /\ \A i \in 1 .. Len(new) : r[Len(q) + i] = new[i]
  <2>1. new \in Seq(Call)
    BY <1>0, <1>2
  <2>2. Len(q) \in Nat /\ Len(new) \in Nat
    BY <2>1
  <2>3. /\ r \in Seq(Call) /\ Len(r) = Len(q) + Len(new)
        /\ \A i \in 1 .. Len(r) : r[i] = IF i <= Len(q) THEN q[i] ELSE new[i - Len(q)]
    BY <2>1, ConcatProperties
  <2> QED BY <2>2, <2>3
<1>4. \A z \in sent : \E i \in 1 .. n : order[i] = z
  <2> DEFINE I == {order[i] : i \in 1 .. n}
  <2>1. order \in [1 .. n -> I] /\ \A t \in I : \E i \in 1 .. n : order[i] = t
    BY <1>0
  <2>2. IsFiniteSet(1 .. n) /\ Cardinality(1 .. n) = n
    BY <1>1, FS_Interval
  <2>3. I \in SUBSET sent /\ \A a, b \in 1 .. n : order[a] = order[b] => a = b
    BY <1>0
  <2> HIDE DEF I
  <2>4. Cardinality(I) = Cardinality(1 .. n)
    BY <2>1, <2>2, <2>3, MapCardinality
  <2>5. I = sent
    BY <1>1, <2>2, <2>3, <2>4, FS_Subset
  <2> QED BY <2>1, <2>5
<1>5. DOMAIN r = 1 .. Len(q) + Len(new) /\ DOMAIN q = 1 .. Len(q) /\ DOMAIN new = 1 .. Len(new)
      /\ Len(new) = n /\ \A i \in 1 .. n : new[i] \in MineCalls
  BY <1>0, <1>3
<1>6. ASSUME NEW i \in DOMAIN r
      PROVE  \/ i \in DOMAIN q /\ r[i] = q[i]
             \/ i - Len(q) \in DOMAIN new /\ r[i] = new[i - Len(q)]
  <2>1. CASE i <= Len(q)
    BY <1>3, <1>5, <2>1
  <2>2. CASE i > Len(q)
    <3>1. i - Len(q) \in 1 .. Len(new) /\ Len(q) + (i - Len(q)) = i
      BY <1>3, <1>5, <2>2
    <3> QED BY <1>3, <1>5, <3>1
  <2> QED BY <1>3, <1>5, <2>1, <2>2
<1>7. ASSUME NEW z \in Zone
      PROVE  Cardinality(At(r, Suspending(z))) = Cardinality(At(q, Suspending(z)))
  <2>1. \A i \in DOMAIN new : new[i] \notin Suspending(z)
    BY <1>0, <1>5 DEF Suspending, Suspends
  <2>2. At(r, Suspending(z)) = At(q, Suspending(z))
    BY <1>3, <1>5, <1>6, <2>1 DEF At
  <2> QED BY <2>2
<1>8. ASSUME NEW z \in Zone
      PROVE  /\ z \in sent => Cardinality(At(r, Frames(z))) = Cardinality(At(q, Frames(z))) + 1
             /\ z \notin sent => Cardinality(At(r, Frames(z))) = Cardinality(At(q, Frames(z)))
  <2>1. \A i \in DOMAIN new : new[i] \in Frames(z) <=> order[i] = z
    BY <1>0, <1>5 DEF Frames
  <2>2. IsFiniteSet(At(q, Frames(z))) /\ Cardinality(At(q, Frames(z))) \in Nat
    BY AtFacts
  <2>3. CASE z \in sent
    <3>1. PICK k \in 1 .. n : order[k] = z
      BY <1>4, <2>3
    <3>2. \A i \in DOMAIN new : new[i] \in Frames(z) <=> i = k
      BY <1>0, <1>5, <2>1, <3>1
    <3>3. At(r, Frames(z)) = At(q, Frames(z)) \cup {Len(q) + k}
      <4>1. ASSUME NEW i \in At(r, Frames(z))
            PROVE  i \in At(q, Frames(z)) \cup {Len(q) + k}
        <5>1. i \in DOMAIN r /\ r[i] \in Frames(z)
          BY DEF At
        <5>2. CASE i \in DOMAIN q /\ r[i] = q[i]
          BY <5>1, <5>2 DEF At
        <5>3. CASE i - Len(q) \in DOMAIN new /\ r[i] = new[i - Len(q)]
          <6>1. i - Len(q) = k
            BY <3>2, <5>1, <5>3
          <6> QED BY <1>3, <1>5, <5>1, <6>1
        <5> QED BY <1>6, <5>1, <5>2, <5>3
      <4>2. Len(q) + k \in At(r, Frames(z))
        BY <1>3, <1>5, <3>2 DEF At
      <4>3. At(q, Frames(z)) \subseteq At(r, Frames(z))
        BY <1>3, <1>5 DEF At
      <4> QED BY <4>1, <4>2, <4>3
    <3>4. Len(q) + k \notin At(q, Frames(z))
      BY <1>3, <1>5 DEF At
    <3> QED BY <2>2, <2>3, <3>3, <3>4, FS_AddElement
  <2>4. CASE z \notin sent
    <3>1. \A i \in DOMAIN new : new[i] \notin Frames(z)
      BY <1>0, <1>5, <2>1, <2>4
    <3>2. At(r, Frames(z)) = At(q, Frames(z))
      BY <1>3, <1>5, <1>6, <3>1 DEF At
    <3> QED BY <2>2, <2>4, <3>2
  <2> QED BY <2>3, <2>4
<1> QED BY <1>3, <1>5, <1>7, <1>8 DEF WithFrames

(* Frames are sent only for zones that no call on the wire suspends and    *)
(* whose colours nobody relies on.                                         *)
LEMMA TickOK ==
  ASSUME StreamInv, Tick
  PROVE  StreamInv'
<1> DEFINE due  == {z \in streaming : accepted[z] # proxy[z].effect
                                      \/ proxy[z].effect \in AnimatedEffect}
           took == IF dryRun THEN due ELSE {z \in due : proxy[z].suspended = 0}
           sent == IF dryRun THEN {} ELSE {z \in took : ~proxy[z].inFlight}
<1>1. /\ TypeOK /\ GuiTypeOK /\ calls \in Seq(Call) /\ answered \in 0 .. Len(calls)
      /\ proxy \in [Zone -> ProxyState]
      /\ streaming \in SUBSET Zone /\ accepted \in [Zone -> MaybeEffect]
      /\ Books(proxy, calls) /\ Shadowed(calls) /\ Shown(calls, answered, channel)
      /\ Held(holds, proxy, streaming, calls, channel)
      /\ UNCHANGED <<dryRun, syncing, again, refresh, loaded, streaming, known, connected,
                     answered, daemonDryRun, zoneEffect, channel, holds>>
  BY DEF StreamInv, TypeOK, GuiTypeOK, Tick, daemon
<1>2. PICK order \in [1 .. Cardinality(sent) -> sent] :
        /\ \A i, j \in DOMAIN order : order[i] = order[j] => i = j
        /\ calls' = calls \o [i \in DOMAIN order |->
                      NewCall("paint", order[i], proxy[order[i]].effect, FALSE)]
  BY DEF Tick
<1>3. /\ accepted' = [z \in Zone |-> IF z \in took THEN proxy[z].effect ELSE accepted[z]]
      /\ proxy' = [z \in Zone |->
           IF z \in sent THEN [proxy[z] EXCEPT !.inFlight = TRUE]
           ELSE IF z \in took /\ ~dryRun THEN [proxy[z] EXCEPT !.waiting = proxy[z].effect]
           ELSE proxy[z]]
  BY DEF Tick
<1>4. /\ took \in SUBSET streaming /\ sent \in SUBSET took
      /\ \A z \in took : dryRun \/ proxy[z].suspended = 0
      /\ \A z \in took : ~dryRun => (z \in sent <=> ~proxy[z].inFlight)
      /\ sent # {} => ~dryRun
  OBVIOUS
<1> HIDE DEF took, sent
<1> DEFINE n == Cardinality(sent)
           new == [i \in 1 .. n |-> NewCall("paint", order[i], proxy[order[i]].effect, FALSE)]
<1>5. /\ new \in Seq(MineCalls) /\ Len(new) = n /\ n \in Nat /\ DOMAIN new = 1 .. n
      /\ \A i \in DOMAIN new : new[i].kind = "paint" /\ new[i].zone = order[i]
  <2>1. ASSUME NEW i \in 1 .. n
        PROVE  new[i] \in MineCalls /\ new[i].kind = "paint" /\ new[i].zone = order[i]
    <3>1. PICK z \in Zone : z = order[i]
      BY <1>1, <1>2, <1>4
    <3>2. proxy[z].effect \in Effect /\ OffEffect \in Effect
      BY <1>1, StreamAssumption DEF ProxyState, Effect
    <3>3. new[i] = NewCall("paint", z, proxy[z].effect, FALSE)
      BY <3>1
    <3> HIDE DEF new
    <3> QED BY <3>1, <3>2, <3>3 DEF NewCall, Call, MineCalls, Kind, MaybeEffect
  <2>2. n \in Nat
    <3>1. sent \in SUBSET Zone
      BY <1>1, <1>4
    <3>2. IsFiniteSet(sent)
      BY <3>1, StreamAssumption, FS_Subset
    <3> QED BY <3>2, FS_CardinalityType
  <2>a. new = [i \in 1 .. n |-> new[i]]
    OBVIOUS
  <2> HIDE DEF n, new
  <2>3. new \in Seq(MineCalls) /\ Len(new) = n /\ DOMAIN new = 1 .. n
    BY <2>1, <2>2, <2>a
  <2> QED BY <2>1, <2>2, <2>3
<1>6. calls' = calls \o new
  BY <1>2
<1> HIDE DEF new
<1>7. /\ calls' \in Seq(Call)
      /\ DOMAIN calls' = 1 .. Len(calls) + n /\ Len(calls) \in Nat
      /\ \A i \in 1 .. Len(calls) : calls'[i] = calls[i]
      /\ \A i \in 1 .. n : calls'[Len(calls) + i] = new[i]
      /\ \A z \in Zone :
           Cardinality(At(calls', Suspending(z))) = Cardinality(At(calls, Suspending(z)))
      /\ \A z \in sent : Cardinality(At(calls', Frames(z))) = Cardinality(At(calls, Frames(z))) + 1
      /\ \A z \in Zone \ sent :
           Cardinality(At(calls', Frames(z))) = Cardinality(At(calls, Frames(z)))
  <2>1. sent \in SUBSET Zone
    BY <1>1, <1>4
  <2>2. FramesFor(new, sent)
    BY <1>2, <1>5 DEF FramesFor
  <2> HIDE DEF n
  <2>3. calls \in Seq(Call)
    BY <1>1
  <2>4. WithFrames(calls, new, sent, calls')
    BY <1>6, <2>1, <2>2, <2>3, FramesAdded
  <2> QED BY <1>5, <2>4 DEF WithFrames
<1>8. ASSUME NEW i \in DOMAIN calls'
      PROVE  \/ i \in DOMAIN calls /\ calls'[i] = calls[i]
             \/ /\ i > Len(calls) /\ calls'[i].kind = "paint" /\ calls'[i].zone \in sent
                /\ Suspends(calls'[i]) = {}
  <2>1. CASE i <= Len(calls)
    BY <1>1, <1>7, <2>1
  <2>2. CASE i > Len(calls)
    <3>1. PICK k \in 1 .. n : i = Len(calls) + k
      <4>1. i - Len(calls) \in 1 .. n /\ i = Len(calls) + (i - Len(calls))
        BY <1>5, <1>7, <2>2
      <4> QED BY <4>1
    <3>2. order[k] \in sent
      BY <1>2
    <3>3. calls'[i] = new[k] /\ new[k].kind = "paint" /\ new[k].zone = order[k]
      BY <1>5, <1>7, <3>1
    <3> QED BY <2>2, <3>2, <3>3 DEF Suspends
  <2> QED BY <1>1, <1>7, <2>1, <2>2
<1>9. ASSUME NEW z \in Zone
      PROVE  /\ proxy'[z] \in ProxyState /\ proxy'[z].suspended = proxy[z].suspended
             /\ proxy'[z].inFlight = IF z \in sent THEN TRUE ELSE proxy[z].inFlight
             /\ proxy'[z].waiting = IF z \in took /\ z \notin sent /\ ~dryRun THEN proxy[z].effect
                                    ELSE proxy[z].waiting
  <2>1. proxy[z] \in ProxyState
    BY <1>1
  <2>2. CASE z \in sent
    <3>1. proxy'[z] = [proxy[z] EXCEPT !.inFlight = TRUE]
      BY <1>3, <2>2
    <3> QED BY <2>1, <2>2, <3>1 DEF ProxyState
  <2>3. CASE z \notin sent /\ z \in took /\ ~dryRun
    <3>1. proxy'[z] = [proxy[z] EXCEPT !.waiting = proxy[z].effect]
      BY <1>3, <2>3
    <3> QED BY <2>1, <2>3, <3>1 DEF ProxyState, MaybeEffect
  <2>4. CASE z \notin sent /\ ~(z \in took /\ ~dryRun)
    <3>1. proxy'[z] = proxy[z]
      BY <1>3, <2>4
    <3>2. proxy[z].inFlight \in BOOLEAN
      BY <2>1 DEF ProxyState
    <3> QED BY <2>1, <2>4, <3>1, <3>2
  <2> QED BY <2>2, <2>3, <2>4
<1>10. Books(proxy', calls')
  <2> SUFFICES ASSUME NEW z \in Zone
               PROVE  /\ proxy'[z].suspended = Cardinality(At(calls', Suspending(z)))
                      /\ Cardinality(At(calls', Frames(z))) = IF proxy'[z].inFlight THEN 1 ELSE 0
                      /\ proxy'[z].waiting # NoEffect => proxy'[z].inFlight /\ proxy'[z].suspended = 0
    BY DEF Books
  <2>1. /\ proxy[z].suspended = Cardinality(At(calls, Suspending(z)))
        /\ Cardinality(At(calls, Frames(z))) = IF proxy[z].inFlight THEN 1 ELSE 0
        /\ proxy[z].waiting # NoEffect => proxy[z].inFlight /\ proxy[z].suspended = 0
    BY <1>1 DEF Books
  <2>2. z \in sent => ~proxy[z].inFlight
    BY <1>4
  <2>3. z \in took /\ z \notin sent /\ ~dryRun => proxy[z].inFlight /\ proxy[z].suspended = 0
    BY <1>4
  <2>4. proxy'[z].suspended = Cardinality(At(calls', Suspending(z)))
    BY <1>7, <1>9, <2>1
  <2>5. Cardinality(At(calls', Frames(z))) = IF proxy'[z].inFlight THEN 1 ELSE 0
    <3>1. /\ z \in sent => Cardinality(At(calls', Frames(z))) = Cardinality(At(calls, Frames(z))) + 1
          /\ z \notin sent => Cardinality(At(calls', Frames(z))) = Cardinality(At(calls, Frames(z)))
      BY <1>7
    <3>2. proxy'[z].inFlight = IF z \in sent THEN TRUE ELSE proxy[z].inFlight
      BY <1>9
    <3> QED BY <2>1, <2>2, <3>1, <3>2
  <2>6. proxy'[z].waiting # NoEffect => proxy'[z].inFlight /\ proxy'[z].suspended = 0
    <3>1. /\ proxy'[z].suspended = proxy[z].suspended
          /\ proxy'[z].inFlight = IF z \in sent THEN TRUE ELSE proxy[z].inFlight
          /\ proxy'[z].waiting = IF z \in took /\ z \notin sent /\ ~dryRun THEN proxy[z].effect
                                 ELSE proxy[z].waiting
      BY <1>9
    <3> QED BY <2>1, <2>3, <3>1
  <2> QED BY <2>4, <2>5, <2>6
<1>11. Shadowed(calls')
  <2> SUFFICES ASSUME NEW i \in DOMAIN calls', NEW j \in DOMAIN calls', i < j,
                      NEW z \in Zone, calls'[i] \in Suspending(z)
               PROVE  ~Paints(calls'[j], z)
    BY DEF Shadowed
  <2>1. i \in DOMAIN calls /\ calls[i] \in Suspending(z)
    BY <1>8 DEF Suspending
  <2>2. proxy[z].suspended # 0
    <3>1. Cardinality(At(calls, Suspending(z))) >= 1
      BY <1>1, <2>1, AtSome
    <3> QED BY <1>1, <3>1 DEF Books
  <2>3. z \notin sent
    BY <1>4, <2>2
  <2>4. CASE j \in DOMAIN calls /\ calls'[j] = calls[j]
    BY <1>1, <2>1, <2>4 DEF Shadowed
  <2>5. CASE calls'[j].zone \in sent
    BY <2>3, <2>5 DEF Paints
  <2> QED BY <1>8, <2>4, <2>5
<1>12. Continues(calls, calls')
  BY <1>1, <1>5, <1>7 DEF Continues
<1>13. Shown(calls', answered', channel') /\ answered' \in 0 .. Len(calls')
  <2>1. answered \in 0 .. Len(calls')
    BY <1>1, <1>7, <1>12 DEF Continues
  <2> QED BY <1>1, <1>7, <1>12, <2>1, ShownContinues
<1>14. Held(holds', proxy', streaming', calls', channel')
  <2> SUFFICES ASSUME NEW z \in Zone, holds[z] # NoEffect
               PROVE  /\ channel[z].shows = holds[z] /\ z \notin streaming
                      /\ proxy'[z].waiting = NoEffect /\ Quiet(calls', z)
    BY <1>1 DEF Held
  <2>1. /\ channel[z].shows = holds[z] /\ z \notin streaming /\ proxy[z].waiting = NoEffect
        /\ Quiet(calls, z)
    BY <1>1 DEF Held
  <2>2. z \notin took /\ z \notin sent
    BY <1>4, <2>1
  <2>3. Quiet(calls', z)
    BY <1>8, <2>1, <2>2 DEF Quiet, Commands, Paints
  <2> QED BY <1>9, <2>1, <2>2, <2>3
<1>15. TypeOK'
  <2>1. proxy' \in [Zone -> ProxyState]
    BY <1>3, <1>9
  <2>2. accepted' \in [Zone -> MaybeEffect]
    <3>1. \A z \in Zone : proxy[z].effect \in MaybeEffect
      BY <1>1 DEF ProxyState, MaybeEffect
    <3> QED BY <1>1, <1>3, <3>1
  <2> QED BY <1>1, <1>7, <1>13, <2>1, <2>2 DEF TypeOK, GuiTypeOK, DaemonTypeOK
<1> QED BY <1>7, <1>10, <1>11, <1>13, <1>14, <1>15 DEF StreamInv

(* The call c, answered.                                                   *)
Answered(c, d) ==
  /\ d \in Call
  /\ d.kind = c.kind /\ d.zone = c.zone /\ d.effect = c.effect /\ d.expect = c.expect
  /\ d.open = c.open /\ d.self = c.self

LEMMA AnsweredFacts ==
  ASSUME NEW c \in Call, NEW d, Answered(c, d)
  PROVE  /\ d \in MineCalls <=> c \in MineCalls
         /\ \A z : /\ Commands(d, z) <=> Commands(c, z)
                   /\ Paints(d, z) <=> Paints(c, z)
                   /\ d \in Suspending(z) <=> c \in Suspending(z)
                   /\ d \in Frames(z) <=> c \in Frames(z)
<1>1. Suspends(d) = Suspends(c)
  BY DEF Answered, Suspends
<1> QED BY <1>1 DEF Answered, MineCalls, Commands, Paints, Suspending, Frames

(* r is q with the call at k answered, its books p and order kept.         *)
WithAnswer(q, k, d, p, r) ==
  /\ r \in Seq(Call) /\ DOMAIN r = DOMAIN q /\ Len(r) = Len(q) /\ r[k] = d
  /\ \A i \in DOMAIN q : i # k => r[i] = q[i]
  /\ Books(p, r) /\ Shadowed(r)
  /\ \A z \in Zone : Quiet(q, z) => Quiet(r, z)
  /\ \A i \in DOMAIN q : \A z : Commands(r[i], z) <=> Commands(q[i], z)

LEMMA AnswerKept ==
  ASSUME NEW q \in Seq(Call), NEW k \in DOMAIN q, NEW d, Answered(q[k], d),
         NEW p, Books(p, q), Shadowed(q)
  PROVE  WithAnswer(q, k, d, p, [q EXCEPT ![k] = d])
<1> DEFINE r == [q EXCEPT ![k] = d]
<1>1. /\ d \in Call /\ (d \in MineCalls <=> q[k] \in MineCalls)
      /\ \A z : /\ Commands(d, z) <=> Commands(q[k], z)
                /\ Paints(d, z) <=> Paints(q[k], z)
                /\ d \in Suspending(z) <=> q[k] \in Suspending(z)
                /\ d \in Frames(z) <=> q[k] \in Frames(z)
  <2>1. q[k] \in Call
    OBVIOUS
  <2>2. d \in Call
    BY DEF Answered
  <2> QED BY <2>1, <2>2, AnsweredFacts
<1>2. /\ r \in Seq(Call) /\ DOMAIN r = DOMAIN q /\ Len(r) = Len(q) /\ r[k] = d
      /\ \A i \in DOMAIN q : i # k => r[i] = q[i]
  BY <1>1
<1> HIDE DEF r
<1>3. ASSUME NEW i \in DOMAIN q, NEW z
      PROVE  /\ Commands(r[i], z) <=> Commands(q[i], z)
             /\ Paints(r[i], z) <=> Paints(q[i], z)
             /\ r[i] \in Suspending(z) <=> q[i] \in Suspending(z)
             /\ r[i] \in Frames(z) <=> q[i] \in Frames(z)
  <2>1. CASE i = k
    BY <1>1, <1>2, <2>1
  <2>2. CASE i # k
    BY <1>2, <2>2
  <2> QED BY <2>1, <2>2
<1>4. \A z : At(r, Suspending(z)) = At(q, Suspending(z)) /\ At(r, Frames(z)) = At(q, Frames(z))
  BY <1>2, <1>3 DEF At
<1>5. Books(p, r)
  BY <1>4 DEF Books
<1>6. Shadowed(r)
  BY <1>2, <1>3 DEF Shadowed
<1>7. \A z \in Zone : Quiet(q, z) => Quiet(r, z)
  BY <1>2, <1>3 DEF Quiet
<1> QED BY <1>2, <1>3, <1>5, <1>6, <1>7 DEF r, WithAnswer

(* A request executes against the channels: a successful command writes    *)
(* its colour; what a frame writes, no outstanding command stands before.  *)
LEMMA ExecutedOK ==
  ASSUME StreamInv, answered < Len(calls), NEW d, Answered(calls[answered + 1], d),
         calls' = [calls EXCEPT ![answered + 1] = d], answered' = answered + 1,
         UNCHANGED <<gui, known, connected, holds>>, DaemonTypeOK',
         \A z \in Zone : /\ Commands(d, z) /\ d.ok /\ ~d.expect => channel'[z].shows = d.effect
                         /\ ~Commands(d, z) /\ ~Paints(d, z) => channel'[z] = channel[z]
  PROVE  StreamInv'
<1> DEFINE k == answered + 1
<1>1. /\ TypeOK /\ GuiTypeOK /\ calls \in Seq(Call) /\ answered \in 0 .. Len(calls)
      /\ k \in DOMAIN calls /\ k \in Nat
      /\ Books(proxy, calls) /\ Shadowed(calls) /\ Shown(calls, answered, channel)
      /\ Held(holds, proxy, streaming, calls, channel)
      /\ UNCHANGED <<dryRun, syncing, again, refresh, loaded, proxy, streaming, accepted>>
  BY DEF StreamInv, TypeOK, gui
<1>2. /\ calls' \in Seq(Call) /\ DOMAIN calls' = DOMAIN calls /\ Len(calls') = Len(calls)
      /\ calls'[k] = d /\ \A i \in DOMAIN calls : i # k => calls'[i] = calls[i]
      /\ Books(proxy, calls') /\ Shadowed(calls')
      /\ \A z \in Zone : Quiet(calls, z) => Quiet(calls', z)
      /\ \A i \in DOMAIN calls : \A z : Commands(calls'[i], z) <=> Commands(calls[i], z)
  <2>1. WithAnswer(calls, k, d, proxy, [calls EXCEPT ![k] = d])
    BY <1>1, AnswerKept
  <2>2. calls' = [calls EXCEPT ![k] = d]
    OBVIOUS
  <2> QED BY <2>1, <2>2 DEF WithAnswer
<1>3. Shown(calls', answered', channel')
  <2> SUFFICES ASSUME NEW z \in Zone, NEW i \in 1 .. k, calls'[i] \in MineCalls, calls'[i].ok,
                      ~calls'[i].expect, Commands(calls'[i], z),
                      \A j \in i + 1 .. k : ~Commands(calls'[j], z)
               PROVE  channel'[z].shows = calls'[i].effect
    BY DEF Shown
  <2>1. CASE i = k
    BY <1>2, <2>1
  <2>2. CASE i # k
    <3>1. i \in 1 .. answered /\ i \in DOMAIN calls /\ calls'[i] = calls[i] /\ i < k
      BY <1>1, <1>2, <2>2
    <3>2. \A j \in i + 1 .. answered : ~Commands(calls[j], z)
      <4>1. \A j \in i + 1 .. answered : j \in i + 1 .. k /\ j \in DOMAIN calls
        BY <1>1
      <4> QED BY <1>2, <4>1
    <3>3. channel[z].shows = calls[i].effect
      BY <1>1, <3>1, <3>2 DEF Shown
    <3>4. ~Commands(d, z)
      <4>1. k \in i + 1 .. k
        BY <1>1, <3>1
      <4> QED BY <1>2, <4>1
    <3>5. ~Paints(d, z)
      <4>1. calls'[i] \in Suspending(z)
        BY DEF Suspending, Commands
      <4>2. i \in DOMAIN calls' /\ k \in DOMAIN calls'
        BY <1>1, <1>2, <3>1
      <4> QED BY <1>2, <3>1, <4>1, <4>2 DEF Shadowed
    <3> QED BY <3>1, <3>3, <3>4, <3>5
  <2> QED BY <2>1, <2>2
<1>4. Held(holds', proxy', streaming', calls', channel')
  <2> SUFFICES ASSUME NEW z \in Zone, holds[z] # NoEffect
               PROVE  /\ channel'[z].shows = holds[z] /\ z \notin streaming
                      /\ proxy[z].waiting = NoEffect /\ Quiet(calls', z)
    BY <1>1 DEF Held
  <2>1. /\ channel[z].shows = holds[z] /\ z \notin streaming /\ proxy[z].waiting = NoEffect
        /\ Quiet(calls, z)
    BY <1>1 DEF Held
  <2>2. Quiet(calls', z)
    BY <1>2, <2>1
  <2>3. ~Commands(d, z) /\ ~Paints(d, z)
    BY <1>1, <1>2, <2>2 DEF Quiet
  <2> QED BY <2>1, <2>2, <2>3
<1>5. TypeOK'
  <2>1. GuiTypeOK'
    BY <1>1 DEF GuiTypeOK
  <2>2. answered' \in 0 .. Len(calls')
    BY <1>1, <1>2
  <2> QED BY <1>1, <1>2, <2>1, <2>2 DEF TypeOK
<1> QED BY <1>1, <1>2, <1>3, <1>4, <1>5 DEF StreamInv

(* The answer the daemon writes into the call.                             *)
AnswerOf(c, ok) ==
  [c EXCEPT !.ok = ok, !.told = daemonDryRun', !.seen = IF c.kind = "list" THEN zoneEffect ELSE @]

LEMMA AnswerFacts ==
  ASSUME NEW c \in Call, NEW ok \in BOOLEAN, daemonDryRun' \in BOOLEAN,
         zoneEffect \in [Zone -> Effect]
  PROVE  Answered(c, AnswerOf(c, ok)) /\ AnswerOf(c, ok).ok = ok
<1> DEFINE told == daemonDryRun'
           seen == IF c.kind = "list" THEN zoneEffect ELSE c.seen
           d    == [c EXCEPT !.ok = ok, !.told = told, !.seen = seen]
<1>1. seen \in [Zone -> Effect] /\ told \in BOOLEAN
  BY DEF Call
<1>2. AnswerOf(c, ok) = d
  BY DEF AnswerOf, Call
<1> HIDE DEF told, seen
<1>3. Answered(c, d) /\ d.ok = ok
  BY <1>1 DEF Answered, Call
<1> QED BY <1>2, <1>3

LEMMA DaemonHandlesOK ==
  ASSUME StreamInv, DaemonHandles
  PROVE  StreamInv'
<1> DEFINE k == answered + 1
           c == calls[k]
<1>1. /\ DaemonTypeOK /\ daemonDryRun \in BOOLEAN /\ zoneEffect \in [Zone -> Effect]
      /\ channel \in [Zone -> Channel]
      /\ calls \in Seq(Call) /\ answered \in 0 .. Len(calls) /\ answered < Len(calls)
      /\ c \in Call
  BY DEF StreamInv, TypeOK, DaemonTypeOK, DaemonHandles
<1> HIDE DEF c
<1>2. ASSUME NEW ok \in BOOLEAN, Answer(c, ok), DaemonTypeOK',
             \A z \in Zone : /\ Commands(c, z) /\ ok /\ ~c.expect => channel'[z].shows = c.effect
                             /\ ~Commands(c, z) /\ ~Paints(c, z) => channel'[z] = channel[z]
      PROVE  StreamInv'
  <2> DEFINE d == AnswerOf(c, ok)
  <2>1. Answered(c, d) /\ d.ok = ok
    <3>1. daemonDryRun' \in BOOLEAN
      BY <1>2 DEF DaemonTypeOK
    <3> QED BY <1>1, <3>1, AnswerFacts
  <2>2. calls' = [calls EXCEPT ![answered + 1] = d] /\ answered' = answered + 1
        /\ UNCHANGED <<gui, known, connected, holds>>
    BY <1>2 DEF Answer, AnswerOf
  <2> HIDE DEF d
  <2>3. \A z : (Commands(d, z) <=> Commands(c, z)) /\ (Paints(d, z) <=> Paints(c, z))
    BY <1>1, <2>1, AnsweredFacts
  <2>4. \A z \in Zone :
          /\ Commands(d, z) /\ d.ok /\ ~d.expect => channel'[z].shows = d.effect
          /\ ~Commands(d, z) /\ ~Paints(d, z) => channel'[z] = channel[z]
    BY <1>2, <2>1, <2>3 DEF Answered
  <2>5. Answered(calls[answered + 1], d)
    BY <2>1 DEF c
  <2> QED BY <1>1, <1>2, <2>2, <2>4, <2>5, ExecutedOK
<1>3. CASE c.kind \in Writes
  <2>1. UNCHANGED daemonDryRun /\ ExecuteWrite(c)
    BY <1>3 DEF DaemonHandles, c
  <2>2. CASE UNCHANGED <<zoneEffect, channel>> /\ Answer(c, FALSE)
    <3>1. DaemonTypeOK'
      BY <1>1, <2>1, <2>2 DEF DaemonTypeOK
    <3> QED BY <1>2, <2>2, <3>1
  <2>3. CASE c.expect /\ UNCHANGED <<zoneEffect, channel>> /\ Answer(c, TRUE)
    <3>1. DaemonTypeOK'
      BY <1>1, <2>1, <2>3 DEF DaemonTypeOK
    <3> QED BY <1>2, <2>3, <3>1
  <2>4. CASE c.kind = "apply" /\ Written({c.zone}, c.effect, "direct") /\ Answer(c, TRUE)
    <3>1. c.effect \in Effect /\ c.effect \in MaybeEffect /\ \A z : Commands(c, z) <=> z = c.zone
      BY <1>1, <2>4 DEF Call, MaybeEffect, Commands, Suspends
    <3>2. /\ zoneEffect' = [z \in Zone |-> IF z \in {c.zone} THEN c.effect ELSE zoneEffect[z]]
          /\ channel' = [z \in Zone |-> IF z \in {c.zone} THEN [mode |-> "direct", shows |-> c.effect]
                                        ELSE channel[z]]
      BY <2>4 DEF Written
    <3>3. [mode |-> "direct", shows |-> c.effect] \in Channel
      BY <3>1 DEF Channel
    <3>4. DaemonTypeOK'
      BY <1>1, <2>1, <3>1, <3>2, <3>3 DEF DaemonTypeOK
    <3>5. \A z \in Zone : /\ z = c.zone => channel'[z].shows = c.effect
                          /\ z # c.zone => channel'[z] = channel[z]
      BY <3>2
    <3> QED BY <1>2, <2>4, <3>1, <3>4, <3>5
  <2>5. CASE c.kind = "allOff" /\ Written(Zone, OffEffect, "off") /\ Answer(c, TRUE)
    <3>1. /\ c.effect = OffEffect /\ OffEffect \in Effect /\ OffEffect \in MaybeEffect
          /\ \A z \in Zone : Commands(c, z)
      BY <1>1, <2>5, StreamAssumption DEF Call, Effect, MaybeEffect, Commands, Suspends
    <3>2. /\ zoneEffect' = [z \in Zone |-> IF z \in Zone THEN OffEffect ELSE zoneEffect[z]]
          /\ channel' = [z \in Zone |-> IF z \in Zone THEN [mode |-> "off", shows |-> OffEffect]
                                        ELSE channel[z]]
      BY <2>5 DEF Written
    <3>3. [mode |-> "off", shows |-> OffEffect] \in Channel
      BY <3>1 DEF Channel
    <3>4. DaemonTypeOK'
      BY <1>1, <2>1, <3>1, <3>2, <3>3 DEF DaemonTypeOK
    <3>5. \A z \in Zone : channel'[z].shows = c.effect
      BY <3>1, <3>2
    <3> QED BY <1>2, <2>5, <3>1, <3>4, <3>5
  <2>6. CASE /\ c.kind = "paint" /\ channel' = [channel EXCEPT ![c.zone].shows = c.effect]
             /\ UNCHANGED zoneEffect /\ Answer(c, TRUE)
    <3>1. c.zone \in Zone /\ c.effect \in MaybeEffect
          /\ \A z : ~Commands(c, z) /\ (Paints(c, z) <=> z = c.zone)
      BY <1>1, <2>6 DEF Call, Commands, Paints
    <3> DEFINE x == [channel[c.zone] EXCEPT !.shows = c.effect]
    <3>2. x \in Channel /\ channel' = [channel EXCEPT ![c.zone] = x]
      <4>1. channel[c.zone] \in Channel
        BY <1>1, <3>1
      <4> QED BY <2>6, <3>1, <4>1 DEF Channel
    <3> HIDE DEF x
    <3>3. channel' \in [Zone -> Channel] /\ \A z \in Zone : z # c.zone => channel'[z] = channel[z]
      BY <1>1, <3>1, <3>2
    <3>4. DaemonTypeOK'
      BY <1>1, <2>1, <2>6, <3>3 DEF DaemonTypeOK
    <3> QED BY <1>2, <2>6, <3>1, <3>3, <3>4
  <2> QED BY <2>1, <2>2, <2>3, <2>4, <2>5, <2>6 DEF ExecuteWrite
<1>4. CASE c.kind \notin Writes
  <2>1. /\ daemonDryRun' = IF c.kind = "setDryRun" THEN c.expect ELSE daemonDryRun
        /\ UNCHANGED <<zoneEffect, channel>> /\ Answer(c, TRUE)
    BY <1>4 DEF DaemonHandles, ExecuteOther, c
  <2>2. DaemonTypeOK'
    BY <1>1, <2>1 DEF DaemonTypeOK, Call
  <2>3. \A z : ~Commands(c, z)
    BY <1>4 DEF Commands, Writes
  <2> QED BY <1>2, <2>1, <2>2, <2>3
<1> QED BY <1>3, <1>4

LEMMA NextOK == StreamInv /\ [Next]_vars => StreamInv'
<1> SUFFICES ASSUME StreamInv, [Next]_vars PROVE StreamInv'
  OBVIOUS
<1>1. CASE UNCHANGED vars
  BY <1>1 DEF vars, gui, daemon, StreamInv, TypeOK, GuiTypeOK, DaemonTypeOK
<1>2. CASE Rescan
  BY <1>2, SendListOK DEF Rescan
<1>3. CASE RefreshDaemonDevices
  BY <1>3, SendListOK DEF RefreshDaemonDevices
<1> QED BY <1>1, <1>2, <1>3, CommandOK, SetDryRunEnabledOK, TickOK, ReadReplyOK, TimeoutOK,
           DisconnectOK, ReconnectOK, DaemonHandlesOK DEF Next

(* The books, the calls' channels and what the LEDs hold stay in step in   *)
(* every interleaving of commands, ticks, replies, timeouts, relistings    *)
(* and lost connections.                                                   *)
THEOREM StreamInvariant == Spec => []StreamInv
<1> QED BY InitOK, NextOK, PTL DEF Spec

(* Every call on the wire is one the proxy or the controller sends, and    *)
(* the GUI's and the daemon's states stay the states of the code's types.  *)
THEOREM StreamTypeCorrect == Spec => []TypeOK
<1>1. StreamInv => TypeOK
  BY DEF StreamInv
<1> QED BY <1>1, StreamInvariant, PTL

(* A zone is suspended by exactly its outstanding commands, one frame of   *)
(* it is in flight when the proxy says so, and a frame waits only behind   *)
(* that one, whatever is refused, times out, is listed anew or is lost.    *)
THEOREM BooksBalance == Spec => []StreamBooksBalance
<1>1. StreamInv => StreamBooksBalance
  <2> SUFFICES ASSUME StreamInv, NEW z \in Zone
               PROVE  LET Mine(c) == c.open /\ c.self
                      IN  /\ proxy[z].suspended = Cardinality({i \in DOMAIN calls :
                                             Mine(calls[i]) /\ z \in Suspends(calls[i])})
                          /\ Cardinality({i \in DOMAIN calls : Mine(calls[i])
                                  /\ calls[i].kind = "paint" /\ calls[i].zone = z})
                               = IF proxy[z].inFlight THEN 1 ELSE 0
                          /\ proxy[z].waiting # NoEffect
                               => proxy[z].inFlight /\ proxy[z].suspended = 0
    BY DEF StreamBooksBalance
  <2> DEFINE Mine(c) == c.open /\ c.self
  <2>1. calls \in Seq(Call) /\ Books(proxy, calls)
    BY DEF StreamInv, TypeOK
  <2>2. {i \in DOMAIN calls : Mine(calls[i]) /\ z \in Suspends(calls[i])}
          = At(calls, Suspending(z))
    BY <2>1 DEF At, Suspending, MineCalls
  <2>3. {i \in DOMAIN calls : Mine(calls[i]) /\ calls[i].kind = "paint" /\ calls[i].zone = z}
          = At(calls, Frames(z))
    BY <2>1 DEF At, Frames, MineCalls
  <2> HIDE DEF Mine
  <2> QED BY <2>1, <2>2, <2>3 DEF Books, Mine
<1> QED BY <1>1, StreamInvariant, PTL

(* An acknowledged colour stays on the LEDs until the next command for the *)
(* zone: no frame, in flight, waiting or computed late, repaints it.       *)
THEOREM ColoursHold == Spec => []AcknowledgedHolds
<1>1. StreamInv => AcknowledgedHolds
  BY DEF StreamInv, Held, AcknowledgedHolds
<1> QED BY <1>1, StreamInvariant, PTL
================================================================================
