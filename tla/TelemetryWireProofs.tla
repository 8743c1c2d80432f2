------------------------ MODULE TelemetryWireProofs -------------------------
(***************************************************************************)
(* Theorems about Protocol and TelemetryWire, for any number of samples,   *)
(* frames, replies and failures.                                           *)
(*                                                                         *)
(* A struct with fields F is laid out at Offsets(F), which depend on the   *)
(* types of the fields only; the two ends have the same types in the same  *)
(* order, and so each reads what the other wrote (SameTypesSameValues).    *)
(* A message is then a header and consecutive samples (Body), which        *)
(* Samples and Report take apart again (ReadSamples, ReportOf), and        *)
(* WireInv says what messages and answers are under way.                   *)
(***************************************************************************)
EXTENDS TelemetryWire, SequenceTheorems, WellFoundedInduction, TLAPS

-----------------------------------------------------------------------------
(* Layouts.                                                                *)

(* Fields with names of a set N.  The layout lemmas are about any N.       *)
Fields(N) == [name : N, type : DOMAIN Width]

(* F and G have fields of the same types in the same order.                *)
SameTypes(F, G) ==
  Len(F) = Len(G) /\ \A i \in 1 .. Len(F) : F[i].type = G[i].type

(* A set of numbers with 0 and with every successor has all numbers.       *)
LEMMA SetInduction ==
  ASSUME NEW S, 0 \in S, \A n \in Nat : n \in S => n + 1 \in S
  PROVE  \A n \in Nat : n \in S
<1> DEFINE R == OpToRel(<, Nat)
           T == {n \in Nat : n \notin S}
<1> SUFFICES ASSUME T # {} PROVE FALSE
  OBVIOUS
<1>1. IsWellFoundedOn(R, Nat)
  BY NatLessThanWellFounded
<1>2. \A x, y \in Nat : x < y => <<x, y>> \in R
  BY DEF OpToRel
<1>3. T \subseteq Nat
  OBVIOUS
<1>4. PICK x \in T : \A y \in T : ~ (<<y, x>> \in R)
  <2> HIDE DEF R, T
  <2> QED BY <1>1, <1>3, WFMin
<1>5. x \in Nat /\ x # 0 /\ x - 1 \in Nat
  OBVIOUS
<1>6. x - 1 \in S
  <2> HIDE DEF R
  <2>1. x - 1 < x /\ x - 1 \in Nat
    BY <1>5
  <2>2. <<x - 1, x>> \in R
    BY <1>2, <1>5, <2>1
  <2>3. x - 1 \notin T
    BY <1>4, <2>2
  <2> QED BY <2>1, <2>3
<1>7. x = (x - 1) + 1
  BY <1>5
<1>8. x \in S
  BY <1>5, <1>6, <1>7
<1> QED BY <1>4, <1>8

LEMMA Widths == \A t \in DOMAIN Width : Width[t] \in Nat /\ Width[t] > 0
BY DEF Width

LEMMA FieldWidths ==
  ASSUME NEW N, NEW F \in Seq(Fields(N)), NEW i \in 1 .. Len(F)
  PROVE  Width[F[i].type] \in Nat /\ Width[F[i].type] > 0
<1>1. F[i] \in Fields(N)
  BY ElementOfSeq
<1> QED BY <1>1, Widths DEF Fields

(* The recursive definition has a solution, and it is of numbers.          *)
LEMMA OffsetsDef ==
  ASSUME NEW N, NEW F \in Seq(Fields(N))
  PROVE  /\ Offsets(F) \in [1 .. Len(F) + 1 -> Nat]
         /\ Offsets(F)[1] = 0
         /\ \A i \in 1 .. Len(F) : Offsets(F)[i + 1] = Offsets(F)[i] + Width[F[i].type]
<1> DEFINE w(i) == Width[F[i].type]
           Runs(g, n) == g[1] = 0 /\ \A i \in 1 .. n : g[i + 1] = g[i] + w(i)
           S == {n \in Nat : n <= Len(F) => \E g \in [1 .. n + 1 -> Nat] : Runs(g, n)}
<1>1. Len(F) \in Nat
  OBVIOUS
<1>2. \A i \in 1 .. Len(F) : w(i) \in Nat
  BY FieldWidths
<1> HIDE DEF w
<1>3. 0 \in S
  <2>1. [i \in 1 .. 0 + 1 |-> 0] \in [1 .. 0 + 1 -> Nat] /\ Runs([i \in 1 .. 0 + 1 |-> 0], 0)
    OBVIOUS
  <2> QED BY <2>1
<1>4. ASSUME NEW n \in Nat, n \in S PROVE n + 1 \in S
  <2> SUFFICES ASSUME n + 1 <= Len(F)
               PROVE  \E h \in [1 .. (n + 1) + 1 -> Nat] : Runs(h, n + 1)
    OBVIOUS
  <2>1. PICK g \in [1 .. n + 1 -> Nat] : Runs(g, n)
    BY <1>1, <1>4
  <2> DEFINE h == [i \in 1 .. (n + 1) + 1 |-> IF i <= n + 1 THEN g[i] ELSE g[n + 1] + w(n + 1)]
  <2>2. w(n + 1) \in Nat
    BY <1>1, <1>2
  <2>3. h \in [1 .. (n + 1) + 1 -> Nat]
    BY <2>2
  <2>4. h[1] = 0
    BY <2>1
  <2>5. ASSUME NEW i \in 1 .. n + 1 PROVE h[i + 1] = h[i] + w(i)
    BY <2>1, <2>5
  <2> QED BY <2>3, <2>4, <2>5
<1>5. \A n \in Nat : n \in S
  <2> HIDE DEF S
  <2> QED BY <1>3, <1>4, SetInduction
<1>6. PICK g \in [1 .. Len(F) + 1 -> Nat] : Runs(g, Len(F))
  <2>1. Len(F) \in S
    <3> HIDE DEF S
    <3> QED BY <1>1, <1>5
  <2> QED BY <1>1, <2>1
<1> DEFINE Def(a) == [i \in 1 .. Len(F) + 1 |-> IF i = 1 THEN 0 ELSE a[i - 1] + w(i - 1)]
<1>7. g = Def(g)
  <2>1. \A i \in 1 .. Len(F) + 1 : g[i] = Def(g)[i]
    BY <1>1, <1>6
  <2> QED BY <2>1
<1>8. Offsets(F) = CHOOSE a : a = Def(a)
  BY DEF Offsets, w
<1>9. Offsets(F) = Def(Offsets(F))
  <2> HIDE DEF Def
  <2> QED BY <1>7, <1>8
<1> DEFINE o == Offsets(F)
           T == {n \in Nat : n <= Len(F) => o[n + 1] = g[n + 1]}
<1> HIDE DEF o
<1>10. o = [i \in 1 .. Len(F) + 1 |-> IF i = 1 THEN 0 ELSE o[i - 1] + w(i - 1)]
  BY <1>9 DEF o
<1>11. o[1] = 0 /\ \A i \in 1 .. Len(F) : o[i + 1] = o[i] + w(i)
  BY <1>1, <1>10
<1>12. 0 \in T
  BY <1>6, <1>11
<1>13. \A n \in Nat : n \in T => n + 1 \in T
  BY <1>1, <1>6, <1>11
<1>14. \A n \in Nat : n \in T
  <2> HIDE DEF T
  <2> QED BY <1>12, <1>13, SetInduction
<1>15. \A i \in 1 .. Len(F) + 1 : o[i] = g[i]
  <2> SUFFICES ASSUME NEW i \in 1 .. Len(F) + 1 PROVE o[i] = g[i]
    OBVIOUS
  <2>1. i - 1 \in Nat /\ i - 1 <= Len(F) /\ (i - 1) + 1 = i
    BY <1>1
  <2>2. i - 1 \in T
    <3> HIDE DEF T
    <3> QED BY <1>14, <2>1
  <2> QED BY <2>1, <2>2
<1>16. o \in [1 .. Len(F) + 1 -> Nat]
  BY <1>10, <1>15
<1> QED BY <1>11, <1>16 DEF o, w

(* A field ends where the next one begins, or before.                      *)
LEMMA OffsetsGrow ==
  ASSUME NEW N, NEW F \in Seq(Fields(N)), NEW i \in 1 .. Len(F), NEW j \in i + 1 .. Len(F) + 1
  PROVE  Offsets(F)[i] + Width[F[i].type] <= Offsets(F)[j]
<1> DEFINE o == Offsets(F)
           T == {n \in Nat : i + 1 + n <= Len(F) + 1 => o[i] + Width[F[i].type] <= o[i + 1 + n]}
<1>1. Len(F) \in Nat
  OBVIOUS
<1>2. /\ o \in [1 .. Len(F) + 1 -> Nat]
      /\ \A k \in 1 .. Len(F) : o[k + 1] = o[k] + Width[F[k].type]
  BY OffsetsDef
<1>3. \A k \in 1 .. Len(F) : Width[F[k].type] \in Nat
  BY FieldWidths
<1> HIDE DEF o
<1>4. 0 \in T
  <2>1. i + 1 + 0 = i + 1 /\ o[i + 1] = o[i] + Width[F[i].type]
    BY <1>1, <1>2
  <2>2. o[i] \in Nat /\ Width[F[i].type] \in Nat
    BY <1>1, <1>2, <1>3
  <2> QED BY <2>1, <2>2
<1>5. ASSUME NEW n \in Nat, n \in T PROVE n + 1 \in T
  <2> SUFFICES ASSUME i + 1 + (n + 1) <= Len(F) + 1
               PROVE  o[i] + Width[F[i].type] <= o[i + 1 + (n + 1)]
    OBVIOUS
  <2> DEFINE k == i + 1 + n
  <2>1. k \in 1 .. Len(F) /\ i + 1 + (n + 1) = k + 1 /\ k <= Len(F) + 1
    BY <1>1
  <2>2. o[i] + Width[F[i].type] <= o[k]
    BY <1>5, <2>1
  <2>3. o[k + 1] = o[k] + Width[F[k].type] /\ Width[F[k].type] \in Nat
    BY <1>2, <1>3, <2>1
  <2>4. o[i] \in Nat /\ Width[F[i].type] \in Nat /\ o[k] \in Nat
    BY <1>1, <1>2, <1>3, <2>1
  <2>5. o[i] + Width[F[i].type] <= o[k + 1]
    <3> DEFINE a == o[i]
               b == Width[F[i].type]
               c == o[k]
               d == o[k + 1]
               e == Width[F[k].type]
    <3>1. /\ a \in Nat /\ b \in Nat /\ c \in Nat /\ e \in Nat
          /\ a + b <= c /\ d = c + e
      BY <2>2, <2>3, <2>4
    <3> HIDE DEF a, b, c, d, e
    <3>2. a + b <= d
      BY <3>1
    <3> QED BY <3>2 DEF a, b, d
  <2> QED BY <2>1, <2>5
<1>6. \A n \in Nat : n \in T
  <2> HIDE DEF T
  <2> QED BY <1>4, <1>5, SetInduction
<1>7. j - (i + 1) \in Nat /\ i + 1 + (j - (i + 1)) = j /\ j <= Len(F) + 1
  BY <1>1
<1>8. j - (i + 1) \in T
  <2> HIDE DEF T
  <2> QED BY <1>6, <1>7
<1> QED BY <1>7, <1>8 DEF o

(* Names do not matter: the offsets are those of the types.                *)
LEMMA SameOffsets ==
  ASSUME NEW N, NEW F \in Seq(Fields(N)), NEW G \in Seq(Fields(N)), SameTypes(F, G)
  PROVE  Offsets(F) = Offsets(G)
<1> DEFINE o == Offsets(F)
           p == Offsets(G)
           T == {n \in Nat : n <= Len(F) => o[n + 1] = p[n + 1]}
<1>1. Len(F) \in Nat /\ Len(G) = Len(F) /\ \A i \in 1 .. Len(F) : F[i].type = G[i].type
  BY DEF SameTypes
<1>2. /\ o \in [1 .. Len(F) + 1 -> Nat] /\ o[1] = 0
      /\ \A i \in 1 .. Len(F) : o[i + 1] = o[i] + Width[F[i].type]
  BY OffsetsDef
<1>3. /\ p \in [1 .. Len(F) + 1 -> Nat] /\ p[1] = 0
      /\ \A i \in 1 .. Len(F) : p[i + 1] = p[i] + Width[F[i].type]
  <2>1. /\ p \in [1 .. Len(G) + 1 -> Nat] /\ p[1] = 0
        /\ \A i \in 1 .. Len(G) : p[i + 1] = p[i] + Width[G[i].type]
    BY OffsetsDef
  <2> HIDE DEF p
  <2> QED BY <1>1, <2>1
<1> HIDE DEF o, p
<1>4. 0 \in T
  BY <1>2, <1>3
<1>5. \A n \in Nat : n \in T => n + 1 \in T
  BY <1>1, <1>2, <1>3
<1>6. \A n \in Nat : n \in T
  <2> HIDE DEF T
  <2> QED BY <1>4, <1>5, SetInduction
<1>7. \A i \in 1 .. Len(F) + 1 : o[i] = p[i]
  <2> SUFFICES ASSUME NEW i \in 1 .. Len(F) + 1 PROVE o[i] = p[i]
    OBVIOUS
  <2>1. i - 1 \in Nat /\ i - 1 <= Len(F) /\ (i - 1) + 1 = i
    BY <1>1
  <2>2. i - 1 \in T
    <3> HIDE DEF T
    <3> QED BY <1>6, <2>1
  <2> QED BY <2>1, <2>2
<1>8. o = p
  BY <1>2, <1>3, <1>7
<1> QED BY <1>8 DEF o, p

-----------------------------------------------------------------------------
(* A struct in bytes, and what is read of it.                              *)

Size(F) == Offsets(F)[Len(F) + 1]

(* The integers of a struct with the values v, and the object that its     *)
(* reader makes of them.                                                   *)
Laid(F, v) ==
  {[at |-> Offsets(F)[i], type |-> F[i].type, value |-> v[i]] : i \in 1 .. Len(F)}

Object(G, v) == {[name |-> G[i].name, value |-> v[i]] : i \in 1 .. Len(G)}

LEMMA LaidBounds ==
  ASSUME NEW N, NEW F \in Seq(Fields(N)), NEW v
  PROVE  /\ Size(F) \in Nat /\ (Len(F) > 0 => Size(F) > 0)
         /\ \A x \in Laid(F, v) :
              /\ x = [at |-> x.at, type |-> x.type, value |-> x.value]
              /\ x.at \in Nat /\ Width[x.type] \in Nat /\ Width[x.type] > 0
              /\ x.at + Width[x.type] <= Size(F)
<1>1. Len(F) \in Nat
  OBVIOUS
<1>2. Offsets(F) \in [1 .. Len(F) + 1 -> Nat] /\ Offsets(F)[1] = 0
  BY OffsetsDef
<1>3. Size(F) \in Nat
  BY <1>1, <1>2 DEF Size
<1>4. ASSUME NEW i \in 1 .. Len(F)
      PROVE  /\ Offsets(F)[i] \in Nat /\ Width[F[i].type] \in Nat /\ Width[F[i].type] > 0
             /\ Offsets(F)[i] + Width[F[i].type] <= Size(F)
  <2>1. i \in 1 .. Len(F) + 1 /\ Len(F) + 1 \in i + 1 .. Len(F) + 1
    BY <1>1
  <2> QED BY <1>2, <2>1, FieldWidths, OffsetsGrow DEF Size
<1>5. Len(F) > 0 => Size(F) > 0
  <2> SUFFICES ASSUME Len(F) > 0 PROVE Size(F) > 0
    OBVIOUS
  <2>1. 1 \in 1 .. Len(F)
    BY <1>1
  <2> QED BY <1>2, <1>3, <1>4, <2>1
<1>6. ASSUME NEW x \in Laid(F, v)
      PROVE  /\ x = [at |-> x.at, type |-> x.type, value |-> x.value]
             /\ x.at \in Nat /\ Width[x.type] \in Nat /\ Width[x.type] > 0
             /\ x.at + Width[x.type] <= Size(F)
  <2>1. PICK i \in 1 .. Len(F) : x = [at |-> Offsets(F)[i], type |-> F[i].type, value |-> v[i]]
    BY DEF Laid
  <2> QED BY <1>4, <2>1
<1> QED BY <1>3, <1>5, <1>6

(* Fields do not overlap, so an offset is one field's.                     *)
LEMMA OffsetsDiffer ==
  ASSUME NEW N, NEW F \in Seq(Fields(N)), NEW i \in 1 .. Len(F), NEW j \in 1 .. Len(F),
         Offsets(F)[i] = Offsets(F)[j]
  PROVE  i = j
<1>1. Len(F) \in Nat
  OBVIOUS
<1>2. ASSUME NEW a \in 1 .. Len(F), NEW b \in 1 .. Len(F), a < b
      PROVE  Offsets(F)[a] < Offsets(F)[b]
  <2>1. b \in a + 1 .. Len(F) + 1 /\ a \in 1 .. Len(F) + 1 /\ b \in 1 .. Len(F) + 1
    BY <1>1, <1>2
  <2>2. Offsets(F)[a] + Width[F[a].type] <= Offsets(F)[b]
    BY <2>1, OffsetsGrow
  <2>3. Width[F[a].type] \in Nat /\ Width[F[a].type] > 0
    BY FieldWidths
  <2>4. Offsets(F)[a] \in Nat /\ Offsets(F)[b] \in Nat
    BY <2>1, OffsetsDef
  <2> QED BY <2>2, <2>3, <2>4
<1>3. Offsets(F)[i] \in Nat
  <2>1. i \in 1 .. Len(F) + 1
    BY <1>1
  <2> QED BY <2>1, OffsetsDef
<1>4. ~ (i < j) /\ ~ (j < i)
  BY <1>2, <1>3
<1> QED BY <1>4

(* What is read at an integer that no other shares its place with.         *)
LEMMA ReadInt ==
  ASSUME NEW bytes, NEW x \in bytes.ints, \A y \in bytes.ints : y.at = x.at => y = x
  PROVE  Read(bytes, x.at, x.type) = x.value
<1>1. (CHOOSE y \in bytes.ints : y.at = x.at) = x
  OBVIOUS
<1> QED BY <1>1 DEF Read

LEMMA UnpackLaid ==
  ASSUME NEW N, NEW F \in Seq(Fields(N)), NEW G \in Seq(Fields(N)), SameTypes(F, G),
         NEW v, NEW bytes, bytes.ints = Laid(F, v)
  PROVE  Unpack(Packed(G), bytes) = Object(G, v)
<1>1. /\ Offsets(G) = Offsets(F) /\ Len(G) = Len(F)
      /\ \A i \in 1 .. Len(F) : F[i].type = G[i].type
  BY SameOffsets DEF SameTypes
<1>2. ASSUME NEW i \in 1 .. Len(G)
      PROVE  Read(bytes, Offsets(G)[i], G[i].type) = v[i]
  <2> DEFINE x == [at |-> Offsets(F)[i], type |-> F[i].type, value |-> v[i]]
  <2>1. x \in bytes.ints
    BY <1>1 DEF Laid
  <2>2. ASSUME NEW y \in bytes.ints, y.at = x.at PROVE y = x
    <3>1. PICK j \in 1 .. Len(F) : y = [at |-> Offsets(F)[j], type |-> F[j].type, value |-> v[j]]
      BY DEF Laid
    <3>2. i \in 1 .. Len(F) /\ Offsets(F)[i] = Offsets(F)[j]
      BY <1>1, <2>2, <3>1
    <3>3. i = j
      BY <3>2, OffsetsDiffer
    <3> QED BY <3>1, <3>3
  <2>3. x.at = Offsets(G)[i] /\ x.type = G[i].type /\ x.value = v[i]
    BY <1>1
  <2> HIDE DEF x
  <2> QED BY <2>1, <2>2, <2>3, ReadInt
<1>3. Packed(G).ints = {[name |-> G[i].name, type |-> G[i].type, at |-> Offsets(G)[i]] : i \in 1 .. Len(G)}
  BY DEF Packed
<1>4. Unpack(Packed(G), bytes)
        = {[name |-> f.name, value |-> Read(bytes, f.at, f.type)] : f \in Packed(G).ints}
  BY DEF Unpack
<1>5. ASSUME NEW f \in Packed(G).ints
      PROVE  [name |-> f.name, value |-> Read(bytes, f.at, f.type)] \in Object(G, v)
  <2>1. PICK i \in 1 .. Len(G) : f = [name |-> G[i].name, type |-> G[i].type, at |-> Offsets(G)[i]]
    BY <1>3
  <2>2. Read(bytes, f.at, f.type) = v[i] /\ f.name = G[i].name
    BY <1>2, <2>1
  <2> QED BY <2>2 DEF Object
<1>6. ASSUME NEW o \in Object(G, v)
      PROVE  \E f \in Packed(G).ints : o = [name |-> f.name, value |-> Read(bytes, f.at, f.type)]
  <2>1. PICK i \in 1 .. Len(G) : o = [name |-> G[i].name, value |-> v[i]]
    BY DEF Object
  <2> DEFINE f == [name |-> G[i].name, type |-> G[i].type, at |-> Offsets(G)[i]]
  <2>2. f \in Packed(G).ints
    BY <1>3
  <2>3. Read(bytes, f.at, f.type) = v[i] /\ f.name = G[i].name
    BY <1>2
  <2> HIDE DEF f
  <2> QED BY <2>1, <2>2, <2>3
<1> QED BY <1>4, <1>5, <1>6

(* A name that only field i has.                                           *)
Only(G, i) == \A j \in 1 .. Len(G) : G[j].name = G[i].name => j = i

LEMMA GetObject ==
  ASSUME NEW G, NEW v, NEW i \in 1 .. Len(G), Only(G, i)
  PROVE  Get(Object(G, v), G[i].name) = v[i]
<1> DEFINE f == [name |-> G[i].name, value |-> v[i]]
<1>1. f \in Object(G, v) /\ f.name = G[i].name /\ f.value = v[i]
  BY DEF Object
<1>2. \A g \in Object(G, v) : g.name = G[i].name => g = f
  BY DEF Object, Only
<1> HIDE DEF f
<1>3. (CHOOSE g \in Object(G, v) : g.name = G[i].name) = f
  BY <1>1, <1>2
<1> QED BY <1>1, <1>3 DEF Get

-----------------------------------------------------------------------------
(* The structs of Protocol.                                                *)

Words ==
  {"timestamp", "sample_count", "device_state", "temperature", "current", "target",
   "cold_junction", "core", "duty_cycle", "memory", "size", "heap_free", "min_heap_free",
   "largest_allocatable", "sample_buffer_size", "type", "uptime", "state", "message_type",
   "sub_sample_count", "timestamp_ms", "kiln", "telemetry"}

FieldSet == Fields(Seq(Words))

Names(F) == {F[i].name : i \in 1 .. Len(F)}

Distinct(F) == \A i, j \in 1 .. Len(F) : F[i].name = F[j].name => i = j

LEMMA OneField ==
  ASSUME NEW n \in Words, NEW t \in DOMAIN Width
  PROVE  Field(n, t) \in FieldSet /\ Field(n, t).name = <<n>> /\ Field(n, t).type = t
BY DEF Field, FieldSet, Fields

LEMMA Types == {"uint8", "uint16", "int16", "uint32", "uint64"} \subseteq DOMAIN Width
BY DEF Width

LEMMA Tuple1 ==
  ASSUME NEW F, NEW a \in FieldSet, F = <<a>>
  PROVE  F \in Seq(FieldSet) /\ Len(F) = 1 /\ F[1] = a /\ Names(F) = {a.name} /\ Distinct(F)
<1>1. F \in Seq(FieldSet) /\ Len(F) = 1 /\ F[1] = a
  OBVIOUS
<1>2. 1 .. Len(F) = {1}
  BY <1>1
<1> QED BY <1>1, <1>2 DEF Names, Distinct

LEMMA Tuple2 ==
  ASSUME NEW F, NEW a \in FieldSet, NEW b \in FieldSet, F = <<a, b>>
  PROVE  /\ F \in Seq(FieldSet) /\ Len(F) = 2 /\ F[1] = a /\ F[2] = b
         /\ Names(F) = {a.name, b.name}
<1>1. F \in Seq(FieldSet) /\ Len(F) = 2 /\ F[1] = a /\ F[2] = b
  OBVIOUS
<1>2. 1 .. Len(F) = {1, 2}
  BY <1>1
<1> QED BY <1>1, <1>2 DEF Names

LEMMA Tuple3 ==
  ASSUME NEW F, NEW a \in FieldSet, NEW b \in FieldSet, NEW c \in FieldSet, F = <<a, b, c>>,
         a.name # b.name, a.name # c.name, b.name # c.name
  PROVE  /\ F \in Seq(FieldSet) /\ Len(F) = 3 /\ F[1] = a /\ F[2] = b /\ F[3] = c
         /\ Names(F) = {a.name, b.name, c.name} /\ Distinct(F)
<1>1. F \in Seq(FieldSet) /\ Len(F) = 3
  OBVIOUS
<1>2. F[1] = a /\ F[2] = b /\ F[3] = c
  OBVIOUS
<1>3. 1 .. Len(F) = {1, 2, 3}
  BY <1>1
<1>4. Names(F) = {a.name, b.name, c.name}
  BY <1>2, <1>3 DEF Names
<1>5. Distinct(F)
  BY <1>2, <1>3 DEF Distinct
<1> QED BY <1>1, <1>2, <1>4, <1>5

LEMMA Tuple4 ==
  ASSUME NEW F, NEW a \in FieldSet, NEW b \in FieldSet, NEW c \in FieldSet, NEW d \in FieldSet,
         F = <<a, b, c, d>>,
         a.name # b.name, a.name # c.name, a.name # d.name,
         b.name # c.name, b.name # d.name, c.name # d.name
  PROVE  /\ F \in Seq(FieldSet) /\ Len(F) = 4
         /\ Names(F) = {a.name, b.name, c.name, d.name} /\ Distinct(F)
<1>1. F \in Seq(FieldSet) /\ Len(F) = 4
  OBVIOUS
<1>2. F[1] = a /\ F[2] = b /\ F[3] = c /\ F[4] = d
  OBVIOUS
<1>3. 1 .. Len(F) = {1, 2, 3, 4}
  BY <1>1
<1>4. Names(F) = {a.name, b.name, c.name, d.name}
  BY <1>2, <1>3 DEF Names
<1>5. Distinct(F)
  BY <1>2, <1>3 DEF Distinct
<1> QED BY <1>1, <1>4, <1>5

LEMMA Tuple5 ==
  ASSUME NEW F, NEW a \in FieldSet, NEW b \in FieldSet, NEW c \in FieldSet, NEW d \in FieldSet,
         NEW e \in FieldSet, F = <<a, b, c, d, e>>,
         a.name # b.name, a.name # c.name, a.name # d.name, a.name # e.name,
         b.name # c.name, b.name # d.name, b.name # e.name,
         c.name # d.name, c.name # e.name, d.name # e.name
  PROVE  /\ F \in Seq(FieldSet) /\ Len(F) = 5
         /\ Names(F) = {a.name, b.name, c.name, d.name, e.name} /\ Distinct(F)
<1>1. F \in Seq(FieldSet) /\ Len(F) = 5
  OBVIOUS
<1>2. F[1] = a /\ F[2] = b /\ F[3] = c /\ F[4] = d /\ F[5] = e
  OBVIOUS
<1>3. 1 .. Len(F) = {1, 2, 3, 4, 5}
  BY <1>1
<1>4. Names(F) = {a.name, b.name, c.name, d.name, e.name}
  BY <1>2, <1>3 DEF Names
<1>5. Distinct(F)
  BY <1>2, <1>3 DEF Distinct
<1> QED BY <1>1, <1>4, <1>5

(* One sequence behind another.                                            *)
LEMMA Concatenated ==
  ASSUME NEW S, NEW F \in Seq(S), NEW G \in Seq(S)
  PROVE  /\ F \o G \in Seq(S) /\ Len(F \o G) = Len(F) + Len(G)
         /\ \A i \in 1 .. Len(F) : (F \o G)[i] = F[i]
         /\ \A i \in 1 .. Len(G) : (F \o G)[Len(F) + i] = G[i]
         /\ \A k \in 1 .. Len(F \o G) :
              k \in 1 .. Len(F) \/ \E i \in 1 .. Len(G) : k = Len(F) + i
<1>1. Len(F) \in Nat /\ Len(G) \in Nat
  OBVIOUS
<1>2. F \o G \in Seq(S) /\ Len(F \o G) = Len(F) + Len(G)
  BY ConcatProperties
<1>3. \A i \in 1 .. Len(F \o G) : (F \o G)[i] = IF i <= Len(F) THEN F[i] ELSE G[i - Len(F)]
  BY <1>2, ConcatProperties
<1>4. ASSUME NEW i \in 1 .. Len(F) PROVE (F \o G)[i] = F[i]
  BY <1>1, <1>2, <1>3
<1>5. ASSUME NEW i \in 1 .. Len(G) PROVE (F \o G)[Len(F) + i] = G[i]
  <2>1. Len(F) + i \in 1 .. Len(F \o G) /\ ~ (Len(F) + i <= Len(F)) /\ (Len(F) + i) - Len(F) = i
    BY <1>1, <1>2
  <2> QED BY <1>3, <2>1
<1>6. ASSUME NEW k \in 1 .. Len(F \o G), k \notin 1 .. Len(F)
      PROVE  \E i \in 1 .. Len(G) : k = Len(F) + i
  <2>1. k - Len(F) \in 1 .. Len(G) /\ k = Len(F) + (k - Len(F))
    BY <1>1, <1>2, <1>6
  <2> QED BY <2>1
<1> QED BY <1>2, <1>4, <1>5, <1>6

LEMMA Appended ==
  ASSUME NEW F \in Seq(FieldSet), NEW G \in Seq(FieldSet)
  PROVE  /\ F \o G \in Seq(FieldSet) /\ Len(F \o G) = Len(F) + Len(G)
         /\ Names(F \o G) = Names(F) \union Names(G)
         /\ Len(F) > 0 => (F \o G)[1] = F[1]
         /\ Distinct(F) /\ Distinct(G) /\ Names(F) \cap Names(G) = {} => Distinct(F \o G)
<1> DEFINE H == F \o G
<1> HIDE DEF H
<1>1. /\ H \in Seq(FieldSet) /\ Len(H) = Len(F) + Len(G)
      /\ \A i \in 1 .. Len(F) : H[i] = F[i]
      /\ \A i \in 1 .. Len(G) : H[Len(F) + i] = G[i]
      /\ \A k \in 1 .. Len(H) : k \in 1 .. Len(F) \/ \E i \in 1 .. Len(G) : k = Len(F) + i
  BY Concatenated DEF H
<1>2. Len(F) \in Nat /\ Len(G) \in Nat
  OBVIOUS
<1>3. \A i \in 1 .. Len(F) : i \in 1 .. Len(H)
  BY <1>1, <1>2
<1>4. \A i \in 1 .. Len(G) : Len(F) + i \in 1 .. Len(H)
  BY <1>1, <1>2
<1>5. Names(H) = Names(F) \union Names(G)
  <2>1. \A n \in Names(F) : n \in Names(H)
    BY <1>1, <1>3 DEF Names
  <2>2. ASSUME NEW n \in Names(G) PROVE n \in Names(H)
    <3>1. PICK i \in 1 .. Len(G) : n = G[i].name
      BY DEF Names
    <3> QED BY <1>1, <1>4, <3>1 DEF Names
  <2>3. ASSUME NEW n \in Names(H) PROVE n \in Names(F) \/ n \in Names(G)
    <3>1. PICK k \in 1 .. Len(H) : n = H[k].name
      BY DEF Names
    <3>2. CASE k \in 1 .. Len(F)
      <4>1. n = F[k].name
        BY <1>1, <3>1, <3>2
      <4> QED BY <3>2, <4>1 DEF Names
    <3>3. ASSUME NEW i \in 1 .. Len(G), k = Len(F) + i PROVE n \in Names(G)
      <4>1. n = G[i].name
        BY <1>1, <3>1, <3>3
      <4> QED BY <4>1 DEF Names
    <3> QED BY <1>1, <3>2, <3>3
  <2> QED BY <2>1, <2>2, <2>3
<1>6. Len(F) > 0 => H[1] = F[1]
  BY <1>1, <1>2
<1>7. ASSUME Distinct(F), Distinct(G), Names(F) \cap Names(G) = {} PROVE Distinct(H)
  <2> SUFFICES ASSUME NEW k \in 1 .. Len(H), NEW l \in 1 .. Len(H), H[k].name = H[l].name
               PROVE  k = l
    BY DEF Distinct
  <2>1. ASSUME NEW i \in 1 .. Len(F), NEW j \in 1 .. Len(G) PROVE H[i].name # H[Len(F) + j].name
    <3>1. F[i].name \in Names(F) /\ G[j].name \in Names(G)
      BY DEF Names
    <3> QED BY <1>1, <1>7, <3>1
  <2>2. CASE k \in 1 .. Len(F) /\ l \in 1 .. Len(F)
    BY <1>1, <1>7, <2>2 DEF Distinct
  <2>3. CASE k \in 1 .. Len(F) /\ l \notin 1 .. Len(F)
    <3>1. PICK j \in 1 .. Len(G) : l = Len(F) + j
      BY <1>1, <2>3
    <3>2. H[k].name # H[Len(F) + j].name
      BY <2>1, <2>3
    <3> QED BY <3>1, <3>2
  <2>4. CASE k \notin 1 .. Len(F) /\ l \in 1 .. Len(F)
    <3>1. PICK j \in 1 .. Len(G) : k = Len(F) + j
      BY <1>1, <2>4
    <3>2. H[l].name # H[Len(F) + j].name
      BY <2>1, <2>4
    <3> QED BY <3>1, <3>2
  <2>5. CASE k \notin 1 .. Len(F) /\ l \notin 1 .. Len(F)
    <3>1. PICK i \in 1 .. Len(G) : k = Len(F) + i
      BY <1>1, <2>5
    <3>2. PICK j \in 1 .. Len(G) : l = Len(F) + j
      BY <1>1, <2>5
    <3>3. G[i].name = G[j].name
      BY <1>1, <3>1, <3>2
    <3> QED BY <1>7, <3>1, <3>2, <3>3 DEF Distinct
  <2> QED BY <2>2, <2>3, <2>4, <2>5
<1> QED BY <1>1, <1>5, <1>6, <1>7 DEF H

LEMMA NamesOfWords ==
  ASSUME NEW F \in Seq(FieldSet), NEW n \in Names(F)
  PROVE  n \in Seq(Words)
<1>1. PICK i \in 1 .. Len(F) : n = F[i].name
  BY DEF Names
<1>2. F[i] \in FieldSet
  BY ElementOfSeq
<1> QED BY <1>1, <1>2 DEF FieldSet, Fields

LEMMA AppendedTypes ==
  ASSUME NEW F \in Seq(FieldSet), NEW G \in Seq(FieldSet), SameTypes(F, G),
         NEW H \in Seq(FieldSet), NEW K \in Seq(FieldSet), SameTypes(H, K)
  PROVE  SameTypes(F \o H, G \o K)
<1>1. /\ Len(F \o H) = Len(F) + Len(H)
      /\ \A i \in 1 .. Len(F) : (F \o H)[i] = F[i]
      /\ \A i \in 1 .. Len(H) : (F \o H)[Len(F) + i] = H[i]
      /\ \A k \in 1 .. Len(F \o H) : k \in 1 .. Len(F) \/ \E i \in 1 .. Len(H) : k = Len(F) + i
  BY Concatenated
<1>2. /\ Len(G \o K) = Len(G) + Len(K)
      /\ \A i \in 1 .. Len(G) : (G \o K)[i] = G[i]
      /\ \A i \in 1 .. Len(K) : (G \o K)[Len(G) + i] = K[i]
  BY Concatenated
<1>3. Len(F) = Len(G) /\ Len(H) = Len(K)
  BY DEF SameTypes
<1>4. ASSUME NEW k \in 1 .. Len(F \o H) PROVE (F \o H)[k].type = (G \o K)[k].type
  <2>1. CASE k \in 1 .. Len(F)
    BY <1>1, <1>2, <1>3, <2>1 DEF SameTypes
  <2>2. CASE k \notin 1 .. Len(F)
    <3>1. PICK i \in 1 .. Len(H) : k = Len(F) + i
      BY <1>1, <2>2
    <3>2. (F \o H)[k] = H[i] /\ (G \o K)[k] = K[i]
      BY <1>1, <1>2, <1>3, <3>1
    <3> QED BY <3>2 DEF SameTypes
  <2> QED BY <2>1, <2>2
<1> QED BY <1>1, <1>2, <1>3, <1>4 DEF SameTypes

LEMMA Prefixed ==
  ASSUME NEW S, NEW a \in S, NEW m \in Seq(S)
  PROVE  /\ <<a>> \o m \in Seq(S) /\ Len(<<a>> \o m) = Len(m) + 1 /\ (<<a>> \o m)[1] = a
         /\ \A i \in 1 .. Len(m) : (<<a>> \o m)[i + 1] = m[i]
<1> DEFINE p == <<a>>
<1>1. p \in Seq(S) /\ Len(p) = 1 /\ p[1] = a
  OBVIOUS
<1>5. p \in Seq(S)
  OBVIOUS
<1> HIDE DEF p
<1>2. /\ p \o m \in Seq(S) /\ Len(p \o m) = Len(p) + Len(m)
      /\ \A i \in 1 .. Len(m) : (p \o m)[Len(p) + i] = m[i]
  <2>1. p \o m \in Seq(S) /\ Len(p \o m) = Len(p) + Len(m)
    BY <1>1, Concatenated
  <2>2. ASSUME NEW i \in 1 .. Len(m) PROVE (p \o m)[Len(p) + i] = m[i]
    BY <1>5, Concatenated
  <2> QED BY <2>1, <2>2
<1>4. (p \o m)[1] = a
  <2>1. 1 \in 1 .. Len(p)
    BY <1>1
  <2>2. (p \o m)[1] = p[1]
    BY <1>1, <2>1, Concatenated
  <2> QED BY <1>1, <2>2
<1>3. Len(m) \in Nat /\ \A i \in 1 .. Len(m) : i + 1 = 1 + i
  OBVIOUS
<1> QED BY <1>1, <1>2, <1>3, <1>4 DEF p

LEMMA SamePrefix ==
  ASSUME NEW S, NEW a \in S, NEW m \in Seq(S), NEW n \in Seq(S), <<a>> \o m = <<a>> \o n
  PROVE  m = n
<1>1. Len(m) = Len(n)
  <2>1. Len(m) + 1 = Len(n) + 1
    BY Prefixed
  <2> QED BY <2>1
<1>2. \A i \in 1 .. Len(m) : m[i] = n[i]
  <2> TAKE i \in 1 .. Len(m)
  <2>1. (<<a>> \o m)[i + 1] = m[i]
    BY Prefixed
  <2>2. (<<a>> \o n)[i + 1] = n[i]
    BY <1>1, Prefixed
  <2> QED BY <2>1, <2>2
<1> QED BY <1>1, <1>2, SeqEqual

LEMMA Nested ==
  ASSUME NEW a \in Words, NEW F \in Seq(FieldSet)
  PROVE  /\ Inner(a, F) \in Seq(FieldSet) /\ Len(Inner(a, F)) = Len(F)
         /\ \A i \in 1 .. Len(F) : /\ Inner(a, F)[i].name = <<a>> \o F[i].name
                                   /\ Inner(a, F)[i].type = F[i].type
         /\ \A n \in Names(Inner(a, F)) : \E m \in Names(F) : n = <<a>> \o m
         /\ Distinct(F) => Distinct(Inner(a, F))
<1>1. ASSUME NEW i \in 1 .. Len(F)
      PROVE  /\ Inner(a, F)[i] \in FieldSet
             /\ Inner(a, F)[i].name = <<a>> \o F[i].name
             /\ Inner(a, F)[i].type = F[i].type
             /\ F[i].name \in Seq(Words)
  <2>1. F[i] \in FieldSet /\ i \in DOMAIN F
    BY <1>1, ElementOfSeq
  <2>2. Inner(a, F)[i] = [name |-> <<a>> \o F[i].name, type |-> F[i].type]
    BY <2>1 DEF Inner
  <2>3. F[i].name \in Seq(Words) /\ F[i].type \in DOMAIN Width
    BY <2>1 DEF FieldSet, Fields
  <2>4. <<a>> \o F[i].name \in Seq(Words)
    BY <2>3
  <2> QED BY <2>2, <2>3, <2>4 DEF FieldSet, Fields
<1>2. DOMAIN Inner(a, F) = 1 .. Len(F)
  BY DEF Inner
<1>3. Inner(a, F) = [i \in 1 .. Len(F) |-> Inner(a, F)[i]]
  BY DEF Inner
<1>4. Inner(a, F) \in Seq(FieldSet)
  BY <1>1, <1>3, IsASeq
<1>5. Len(Inner(a, F)) = Len(F)
  BY <1>2, <1>4
<1>6. \A n \in Names(Inner(a, F)) : \E m \in Names(F) : n = <<a>> \o m
  BY <1>1, <1>5 DEF Names
<1>7. ASSUME Distinct(F) PROVE Distinct(Inner(a, F))
  <2> SUFFICES ASSUME NEW i \in 1 .. Len(F), NEW j \in 1 .. Len(F),
                      Inner(a, F)[i].name = Inner(a, F)[j].name
               PROVE  i = j
    BY <1>5 DEF Distinct
  <2>1. <<a>> \o F[i].name = <<a>> \o F[j].name
    BY <1>1
  <2>2. F[i].name \in Seq(Words) /\ F[j].name \in Seq(Words)
    BY <1>1
  <2>3. F[i].name = F[j].name
    BY <2>1, <2>2, SamePrefix
  <2> QED BY <1>7, <2>3 DEF Distinct
<1> QED BY <1>1, <1>4, <1>5, <1>6, <1>7

LEMMA Memory ==
  CMemory \in Seq(FieldSet) /\ Distinct(CMemory) /\ Len(CMemory) = 5
<1> DEFINE a == Field("size", "uint32")
           b == Field("heap_free", "uint32")
           c == Field("min_heap_free", "uint32")
           d == Field("largest_allocatable", "uint32")
           e == Field("sample_buffer_size", "uint32")
<1>1. a \in FieldSet /\ b \in FieldSet /\ c \in FieldSet /\ d \in FieldSet /\ e \in FieldSet
  BY Types, OneField DEF Words
<1>2. /\ a.name = <<"size">> /\ b.name = <<"heap_free">> /\ c.name = <<"min_heap_free">>
      /\ d.name = <<"largest_allocatable">> /\ e.name = <<"sample_buffer_size">>
  BY DEF Field
<1>3. CMemory = <<a, b, c, d, e>>
  BY DEF CMemory
<1> HIDE DEF a, b, c, d, e
<1>4. /\ a.name # b.name /\ a.name # c.name /\ a.name # d.name /\ a.name # e.name
      /\ b.name # c.name /\ b.name # d.name /\ b.name # e.name
      /\ c.name # d.name /\ c.name # e.name /\ d.name # e.name
  BY <1>2
<1> QED BY <1>1, <1>3, <1>4, Tuple5

LEMMA Temperature ==
  CTemperature \in Seq(FieldSet) /\ Distinct(CTemperature) /\ Len(CTemperature) = 4
<1> DEFINE a == Field("current", "int16")
           b == Field("target", "int16")
           c == Field("cold_junction", "int16")
           d == Field("core", "int16")
<1>1. a \in FieldSet /\ b \in FieldSet /\ c \in FieldSet /\ d \in FieldSet
  BY Types, OneField DEF Words
<1>2. /\ a.name = <<"current">> /\ b.name = <<"target">> /\ c.name = <<"cold_junction">>
      /\ d.name = <<"core">>
  BY DEF Field
<1>3. CTemperature = <<a, b, c, d>>
  BY DEF CTemperature
<1> HIDE DEF a, b, c, d
<1>4. /\ a.name # b.name /\ a.name # c.name /\ a.name # d.name
      /\ b.name # c.name /\ b.name # d.name /\ c.name # d.name
  BY <1>2
<1> QED BY <1>1, <1>3, <1>4, Tuple4

(* What both ends call a sample, but for the names of its first fields.    *)
SampleStruct(a, b, c) ==
  << Field(a, "uint32"), Field(b, "uint8"), Field(c, "uint16") >>
  \o Inner("temperature", CTemperature) \o << Field("duty_cycle", "uint8") >>
  \o Inner("memory", CMemory)

(* The first word of a name says which of its parts a field is in.         *)
LEMMA SampleFields ==
  ASSUME NEW a \in Words, NEW b \in Words, NEW c \in Words,
         {a, b, c} \cap {"temperature", "memory", "duty_cycle"} = {}, a # b, a # c, b # c
  PROVE  /\ SampleStruct(a, b, c) \in Seq(FieldSet) /\ Len(SampleStruct(a, b, c)) = 13
         /\ Distinct(SampleStruct(a, b, c))
         /\ SampleStruct(a, b, c)[1] = Field(a, "uint32")
         /\ \A n \in Names(SampleStruct(a, b, c)) :
              \/ n \in {<<a>>, <<b>>, <<c>>, <<"duty_cycle">>}
              \/ n # << >> /\ n[1] \in {"temperature", "memory"}
<1> DEFINE x == Field(a, "uint32")
           y == Field(b, "uint8")
           z == Field(c, "uint16")
           w == Field("duty_cycle", "uint8")
           A == <<x, y, z>>
           T == Inner("temperature", CTemperature)
           D == <<w>>
           M == Inner("memory", CMemory)
<1>1. /\ x \in FieldSet /\ x.name = <<a>> /\ y \in FieldSet /\ y.name = <<b>>
      /\ z \in FieldSet /\ z.name = <<c>>
  BY Types, OneField
<1>2. w \in FieldSet /\ w.name = <<"duty_cycle">>
  BY Types, OneField DEF Words
<1>3. "temperature" \in Words /\ "memory" \in Words
  BY DEF Words
<1> HIDE DEF x, y, z, w
<1>4. x.name # y.name /\ x.name # z.name /\ y.name # z.name
  BY <1>1
<1>5. /\ A \in Seq(FieldSet) /\ Len(A) = 3 /\ A[1] = x
      /\ Names(A) = {<<a>>, <<b>>, <<c>>} /\ Distinct(A)
  <2>1. A = <<x, y, z>>
    OBVIOUS
  <2> HIDE DEF A
  <2>2. A \in Seq(FieldSet) /\ Len(A) = 3
    BY <1>1, <1>4, <2>1, Tuple3
  <2>3. A[1] = x
    BY <2>1
  <2>4. Distinct(A)
    BY <1>1, <1>4, <2>1, Tuple3
  <2>5. Names(A) = {x.name, y.name, z.name}
    <3>1. A[1] = x /\ A[2] = y /\ A[3] = z /\ 1 .. Len(A) = {1, 2, 3}
      BY <2>1, <2>2
    <3> QED BY <3>1 DEF Names
  <2> QED BY <1>1, <2>2, <2>3, <2>4, <2>5
<1>6. D \in Seq(FieldSet) /\ Len(D) = 1 /\ Names(D) = {<<"duty_cycle">>} /\ Distinct(D)
  BY <1>2, Tuple1
<1>7. T \in Seq(FieldSet) /\ Len(T) = 4 /\ Distinct(T)
  BY <1>3, Nested, Temperature
<1>8. \A n \in Names(T) : n # << >> /\ n[1] = "temperature"
  <2> TAKE n \in Names(T)
  <2>1. PICK m \in Names(CTemperature) : n = <<"temperature">> \o m
    BY <1>3, Nested, Temperature
  <2>2. m \in Seq(Words)
    BY Temperature, NamesOfWords
  <2>3. n[1] = "temperature" /\ Len(n) = Len(m) + 1 /\ Len(m) \in Nat
    BY <1>3, <2>1, <2>2, Prefixed
  <2>4. n # << >>
    BY <2>3
  <2> QED BY <2>3, <2>4
<1>9. M \in Seq(FieldSet) /\ Len(M) = 5 /\ Distinct(M)
  BY <1>3, Nested, Memory
<1>10. \A n \in Names(M) : n # << >> /\ n[1] = "memory"
  <2> TAKE n \in Names(M)
  <2>1. PICK m \in Names(CMemory) : n = <<"memory">> \o m
    BY <1>3, Nested, Memory
  <2>2. m \in Seq(Words)
    BY Memory, NamesOfWords
  <2>3. n[1] = "memory" /\ Len(n) = Len(m) + 1 /\ Len(m) \in Nat
    BY <1>3, <2>1, <2>2, Prefixed
  <2>4. n # << >>
    BY <2>3
  <2> QED BY <2>3, <2>4
<1> HIDE DEF A, T, D, M
<1>11. /\ A \o T \in Seq(FieldSet) /\ Len(A \o T) = 7 /\ (A \o T)[1] = x
       /\ Names(A \o T) = {<<a>>, <<b>>, <<c>>} \union Names(T) /\ Distinct(A \o T)
  <2>1. Names(A) \cap Names(T) = {}
    <3>1. \A n \in Names(A) : n[1] \in {a, b, c}
      BY <1>5
    <3> QED BY <1>8, <3>1
  <2>2. /\ A \o T \in Seq(FieldSet) /\ Len(A \o T) = Len(A) + Len(T)
        /\ Names(A \o T) = Names(A) \union Names(T)
    BY <1>5, <1>7, Appended
  <2>3. Len(A) > 0
    BY <1>5
  <2>4. (A \o T)[1] = A[1]
    BY <1>5, <1>7, <2>3, Appended
  <2>5. Distinct(A \o T)
    BY <1>5, <1>7, <2>1, Appended
  <2> QED BY <1>5, <1>7, <2>2, <2>4, <2>5
<1>12. /\ A \o T \o D \in Seq(FieldSet) /\ Len(A \o T \o D) = 8 /\ (A \o T \o D)[1] = x
       /\ Names(A \o T \o D) = {<<a>>, <<b>>, <<c>>} \union Names(T) \union {<<"duty_cycle">>}
       /\ Distinct(A \o T \o D)
  <2>1. Names(A \o T) \cap Names(D) = {}
    <3>1. \A n \in Names(A \o T) : n[1] \in {a, b, c, "temperature"}
      BY <1>8, <1>11
    <3>2. <<"duty_cycle">>[1] = "duty_cycle"
      OBVIOUS
    <3> QED BY <1>6, <3>1, <3>2
  <2>2. /\ A \o T \o D \in Seq(FieldSet) /\ Len(A \o T \o D) = Len(A \o T) + Len(D)
        /\ Names(A \o T \o D) = Names(A \o T) \union Names(D)
    BY <1>6, <1>11, Appended
  <2>3. Len(A \o T) > 0
    BY <1>11
  <2>4. (A \o T \o D)[1] = (A \o T)[1]
    BY <1>6, <1>11, <2>3, Appended
  <2>5. Distinct(A \o T \o D)
    BY <1>6, <1>11, <2>1, Appended
  <2> QED BY <1>6, <1>11, <2>2, <2>4, <2>5
<1>13. /\ A \o T \o D \o M \in Seq(FieldSet) /\ Len(A \o T \o D \o M) = 13
       /\ (A \o T \o D \o M)[1] = x
       /\ Names(A \o T \o D \o M)
            = {<<a>>, <<b>>, <<c>>} \union Names(T) \union {<<"duty_cycle">>} \union Names(M)
       /\ Distinct(A \o T \o D \o M)
  <2>1. Names(A \o T \o D) \cap Names(M) = {}
    <3>1. <<"duty_cycle">>[1] = "duty_cycle"
      OBVIOUS
    <3>2. \A n \in Names(A \o T \o D) : n[1] \in {a, b, c, "temperature", "duty_cycle"}
      BY <1>8, <1>12, <3>1
    <3> QED BY <1>10, <3>2
  <2>2. /\ A \o T \o D \o M \in Seq(FieldSet)
        /\ Len(A \o T \o D \o M) = Len(A \o T \o D) + Len(M)
        /\ Names(A \o T \o D \o M) = Names(A \o T \o D) \union Names(M)
    BY <1>9, <1>12, Appended
  <2>3. Len(A \o T \o D) > 0
    BY <1>12
  <2>4. (A \o T \o D \o M)[1] = (A \o T \o D)[1]
    BY <1>9, <1>12, <2>3, Appended
  <2>5. Distinct(A \o T \o D \o M)
    BY <1>9, <1>12, <2>1, Appended
  <2> QED BY <1>9, <1>12, <2>2, <2>4, <2>5
<1>14. SampleStruct(a, b, c) = A \o T \o D \o M
  BY DEF SampleStruct, A, T, D, M, x, y, z, w
<1> QED BY <1>8, <1>10, <1>13, <1>14 DEF x

(* The reader of samples has other names for the fields of the writer, and *)
(* the same types.                                                         *)
LEMMA SampleLayouts ==
  /\ CSampleFields \in Seq(FieldSet) /\ Len(CSampleFields) = 13 /\ Distinct(CSampleFields)
  /\ CSampleFields[1].name = <<"timestamp">>
  /\ PySampleFields \in Seq(FieldSet) /\ Len(PySampleFields) = 13 /\ Distinct(PySampleFields)
  /\ PySampleFields[1].name = <<"timestamp">>
  /\ \A n \in Names(PySampleFields) :
       n \notin EnumFields /\ n # << >> /\ n[1] \notin {"telemetry", "info"}
  /\ SameTypes(CSampleFields, PySampleFields)
<1>1. CSampleFields = SampleStruct("timestamp", "sample_count", "device_state")
  BY DEF CSampleFields, SampleStruct
<1>2. PySampleFields = SampleStruct("timestamp", "sub_sample_count", "state")
  BY DEF PySampleFields, SampleStruct, PyTemperature, CTemperature, PyMemory, CMemory
<1>3. /\ "timestamp" \in Words /\ "sample_count" \in Words /\ "device_state" \in Words
      /\ "sub_sample_count" \in Words /\ "state" \in Words
      /\ "temperature" \in Words /\ "memory" \in Words /\ "duty_cycle" \in Words
  BY DEF Words
<1>4. Field("timestamp", "uint32").name = <<"timestamp">>
  BY DEF Field
<1>5. /\ CSampleFields \in Seq(FieldSet) /\ Len(CSampleFields) = 13 /\ Distinct(CSampleFields)
      /\ CSampleFields[1] = Field("timestamp", "uint32")
  <2>1. {"timestamp", "sample_count", "device_state"}
          \cap {"temperature", "memory", "duty_cycle"} = {}
    OBVIOUS
  <2> QED BY <1>1, <1>3, <2>1, SampleFields
<1>6. /\ PySampleFields \in Seq(FieldSet) /\ Len(PySampleFields) = 13 /\ Distinct(PySampleFields)
      /\ PySampleFields[1] = Field("timestamp", "uint32")
      /\ \A n \in Names(PySampleFields) :
           \/ n \in {<<"timestamp">>, <<"sub_sample_count">>, <<"state">>, <<"duty_cycle">>}
           \/ n # << >> /\ n[1] \in {"temperature", "memory"}
  <2>1. {"timestamp", "sub_sample_count", "state"}
          \cap {"temperature", "memory", "duty_cycle"} = {}
    OBVIOUS
  <2> QED BY <1>2, <1>3, <2>1, SampleFields
<1>7. ASSUME NEW n \in Names(PySampleFields)
      PROVE  n \notin EnumFields /\ n # << >> /\ n[1] \notin {"telemetry", "info"}
  <2>1. CASE n \in {<<"timestamp">>, <<"sub_sample_count">>, <<"state">>, <<"duty_cycle">>}
    BY <2>1 DEF EnumFields
  <2>2. CASE n # << >> /\ n[1] \in {"temperature", "memory"}
    BY <2>2 DEF EnumFields
  <2> QED BY <1>6, <2>1, <2>2
<1>8. SameTypes(CSampleFields, PySampleFields)
  <2> DEFINE A == << Field("timestamp", "uint32"), Field("sample_count", "uint8"),
                     Field("device_state", "uint16") >>
             B == << Field("timestamp", "uint32"), Field("sub_sample_count", "uint8"),
                     Field("state", "uint16") >>
             T == Inner("temperature", CTemperature)
             D == << Field("duty_cycle", "uint8") >>
             M == Inner("memory", CMemory)
  <2>1. A \in Seq(FieldSet) /\ B \in Seq(FieldSet) /\ D \in Seq(FieldSet)
    <3>1. /\ Field("timestamp", "uint32") \in FieldSet /\ Field("sample_count", "uint8") \in FieldSet
          /\ Field("device_state", "uint16") \in FieldSet
          /\ Field("sub_sample_count", "uint8") \in FieldSet
          /\ Field("state", "uint16") \in FieldSet /\ Field("duty_cycle", "uint8") \in FieldSet
      BY <1>3, Types, OneField
    <3> QED BY <3>1
  <2>2. T \in Seq(FieldSet) /\ M \in Seq(FieldSet)
    BY <1>3, Nested, Temperature, Memory
  <2>3. SameTypes(A, B)
    <3>1. Len(A) = 3 /\ Len(B) = 3 /\ 1 .. 3 = {1, 2, 3}
      OBVIOUS
    <3>2. A[1].type = B[1].type /\ A[2].type = B[2].type /\ A[3].type = B[3].type
      BY DEF Field
    <3> QED BY <3>1, <3>2 DEF SameTypes
  <2>4. CSampleFields = A \o T \o D \o M /\ PySampleFields = B \o T \o D \o M
    BY DEF CSampleFields, PySampleFields, PyTemperature, CTemperature, PyMemory, CMemory
  <2> HIDE DEF A, B, T, D, M
  <2>5. A \o T \in Seq(FieldSet) /\ B \o T \in Seq(FieldSet)
    BY <2>1, <2>2, Appended
  <2>6. A \o T \o D \in Seq(FieldSet) /\ B \o T \o D \in Seq(FieldSet)
    BY <2>1, <2>5, Appended
  <2>7. SameTypes(T, T) /\ SameTypes(D, D) /\ SameTypes(M, M)
    BY DEF SameTypes
  <2>8. SameTypes(A \o T, B \o T)
    BY <2>1, <2>2, <2>3, <2>7, AppendedTypes
  <2>9. SameTypes(A \o T \o D, B \o T \o D)
    BY <2>1, <2>5, <2>7, <2>8, AppendedTypes
  <2>10. SameTypes(A \o T \o D \o M, B \o T \o D \o M)
    BY <2>2, <2>6, <2>7, <2>9, AppendedTypes
  <2> QED BY <2>4, <2>10
<1> QED BY <1>4, <1>5, <1>6, <1>7, <1>8

LEMMA ConcatIs ==
  ASSUME NEW S, NEW F \in Seq(S), NEW G \in Seq(S), NEW H \in Seq(S), Len(H) = Len(F) + Len(G),
         \A i \in 1 .. Len(F) : H[i] = F[i], \A i \in 1 .. Len(G) : H[Len(F) + i] = G[i]
  PROVE  F \o G = H
<1>1. F \o G \in Seq(S) /\ Len(F \o G) = Len(H)
  BY ConcatProperties
<1>2. ASSUME NEW i \in 1 .. Len(H) PROVE (F \o G)[i] = H[i]
  <2>1. (F \o G)[i] = IF i <= Len(F) THEN F[i] ELSE G[i - Len(F)]
    BY ConcatProperties
  <2>2. Len(F) \in Nat /\ Len(G) \in Nat
    OBVIOUS
  <2>3. CASE i <= Len(F)
    BY <2>1, <2>2, <2>3
  <2>4. CASE ~ (i <= Len(F))
    <3>1. i - Len(F) \in 1 .. Len(G) /\ Len(F) + (i - Len(F)) = i
      BY <2>2, <2>4
    <3> QED BY <2>1, <2>4, <3>1
  <2> QED BY <2>3, <2>4
<1> QED BY <1>1, <1>2, SeqEqual

LEMMA OneOne ==
  ASSUME NEW S, NEW a \in S, NEW b \in S
  PROVE  <<a>> \o <<b>> = <<a, b>>
<1> DEFINE F == <<a>>
           G == <<b>>
           H == <<a, b>>
<1>1. /\ F \in Seq(S) /\ G \in Seq(S) /\ H \in Seq(S)
      /\ Len(F) = 1 /\ Len(G) = 1 /\ Len(H) = Len(F) + Len(G)
  OBVIOUS
<1>2. \A i \in 1 .. Len(F) : H[i] = F[i]
  OBVIOUS
<1>3. \A i \in 1 .. Len(G) : H[Len(F) + i] = G[i]
  OBVIOUS
<1>4. F \o G = H
  <2> HIDE DEF F, G, H
  <2> QED BY <1>1, <1>2, <1>3, ConcatIs
<1> QED BY <1>4

LEMMA OneTwo ==
  ASSUME NEW S, NEW a \in S, NEW b \in S, NEW c \in S
  PROVE  <<a>> \o <<b, c>> = <<a, b, c>>
<1> DEFINE F == <<a>>
           G == <<b, c>>
           H == <<a, b, c>>
<1>1. /\ F \in Seq(S) /\ G \in Seq(S) /\ H \in Seq(S)
      /\ Len(F) = 1 /\ Len(G) = 2 /\ Len(H) = Len(F) + Len(G)
  OBVIOUS
<1>2. \A i \in 1 .. Len(F) : H[i] = F[i]
  OBVIOUS
<1>3. \A i \in 1 .. Len(G) : H[Len(F) + i] = G[i]
  OBVIOUS
<1>4. F \o G = H
  <2> HIDE DEF F, G, H
  <2> QED BY <1>1, <1>2, <1>3, ConcatIs
<1> QED BY <1>4

LEMMA TwoNone ==
  ASSUME NEW S, NEW a \in S, NEW b \in S
  PROVE  <<a, b>> \o << >> = <<a, b>>
<1> DEFINE F == <<a, b>>
           G == << >>
           H == <<a, b>>
<1>1. /\ F \in Seq(S) /\ G \in Seq(S) /\ H \in Seq(S)
      /\ Len(F) = 2 /\ Len(G) = 0 /\ Len(H) = Len(F) + Len(G)
  OBVIOUS
<1>2. \A i \in 1 .. Len(F) : H[i] = F[i]
  OBVIOUS
<1>3. \A i \in 1 .. Len(G) : H[Len(F) + i] = G[i]
  OBVIOUS
<1>4. F \o G = H
  <2> HIDE DEF F, G, H
  <2> QED BY <1>1, <1>2, <1>3, ConcatIs
<1> QED BY <1>4

LEMMA TwoOne ==
  ASSUME NEW S, NEW a \in S, NEW b \in S, NEW c \in S
  PROVE  <<a, b>> \o <<c>> = <<a, b, c>>
<1> DEFINE F == <<a, b>>
           G == <<c>>
           H == <<a, b, c>>
<1>1. /\ F \in Seq(S) /\ G \in Seq(S) /\ H \in Seq(S)
      /\ Len(F) = 2 /\ Len(G) = 1 /\ Len(H) = Len(F) + Len(G)
  OBVIOUS
<1>2. \A i \in 1 .. Len(F) : H[i] = F[i]
  OBVIOUS
<1>3. \A i \in 1 .. Len(G) : H[Len(F) + i] = G[i]
  OBVIOUS
<1>4. F \o G = H
  <2> HIDE DEF F, G, H
  <2> QED BY <1>1, <1>2, <1>3, ConcatIs
<1> QED BY <1>4

LEMMA OneFour ==
  ASSUME NEW S, NEW a \in S, NEW b \in S, NEW c \in S, NEW d \in S, NEW e \in S
  PROVE  <<a>> \o <<b, c, d, e>> = <<a, b, c, d, e>>
<1> DEFINE F == <<a>>
           G == <<b, c, d, e>>
           H == <<a, b, c, d, e>>
<1>1. /\ F \in Seq(S) /\ G \in Seq(S) /\ H \in Seq(S)
      /\ Len(F) = 1 /\ Len(G) = 4 /\ Len(H) = Len(F) + Len(G)
  OBVIOUS
<1>2. \A i \in 1 .. Len(F) : H[i] = F[i]
  OBVIOUS
<1>3. \A i \in 1 .. Len(G) : H[Len(F) + i] = G[i]
  OBVIOUS
<1>4. F \o G = H
  <2> HIDE DEF F, G, H
  <2> QED BY <1>1, <1>2, <1>3, ConcatIs
<1> QED BY <1>4

LEMMA ThreeOne ==
  ASSUME NEW S, NEW a \in S, NEW b \in S, NEW c \in S, NEW d \in S
  PROVE  <<a, b, c>> \o <<d>> = <<a, b, c, d>>
<1> DEFINE F == <<a, b, c>>
           G == <<d>>
           H == <<a, b, c, d>>
<1>1. /\ F \in Seq(S) /\ G \in Seq(S) /\ H \in Seq(S)
      /\ Len(F) = 3 /\ Len(G) = 1 /\ Len(H) = Len(F) + Len(G)
  OBVIOUS
<1>2. \A i \in 1 .. Len(F) : H[i] = F[i]
  OBVIOUS
<1>3. \A i \in 1 .. Len(G) : H[Len(F) + i] = G[i]
  OBVIOUS
<1>4. F \o G = H
  <2> HIDE DEF F, G, H
  <2> QED BY <1>1, <1>2, <1>3, ConcatIs
<1> QED BY <1>4

LEMMA FourOne ==
  ASSUME NEW S, NEW a \in S, NEW b \in S, NEW c \in S, NEW d \in S, NEW e \in S
  PROVE  <<a, b, c, d>> \o <<e>> = <<a, b, c, d, e>>
<1> DEFINE F == <<a, b, c, d>>
           G == <<e>>
           H == <<a, b, c, d, e>>
<1>1. /\ F \in Seq(S) /\ G \in Seq(S) /\ H \in Seq(S)
      /\ Len(F) = 4 /\ Len(G) = 1 /\ Len(H) = Len(F) + Len(G)
  OBVIOUS
<1>2. \A i \in 1 .. Len(F) : H[i] = F[i]
  OBVIOUS
<1>3. \A i \in 1 .. Len(G) : H[Len(F) + i] = G[i]
  OBVIOUS
<1>4. F \o G = H
  <2> HIDE DEF F, G, H
  <2> QED BY <1>1, <1>2, <1>3, ConcatIs
<1> QED BY <1>4

LEMMA TwoFields ==
  ASSUME NEW n \in Words, NEW t \in DOMAIN Width, n \notin {"type", "message_type"}
  PROVE  /\ CType \o << Field(n, t) >> \in Seq(FieldSet) /\ PyType \o << Field(n, t) >> \in Seq(FieldSet)
         /\ CType \o << Field(n, t) >> = << Field("type", "uint8"), Field(n, t) >>
         /\ PyType \o << Field(n, t) >> = << Field("message_type", "uint8"), Field(n, t) >>
         /\ Distinct(CType \o << Field(n, t) >>) /\ Distinct(PyType \o << Field(n, t) >>)
         /\ SameTypes(CType \o << Field(n, t) >>, PyType \o << Field(n, t) >>)
<1> DEFINE a == Field("type", "uint8")
           b == Field("message_type", "uint8")
           x == Field(n, t)
<1>1. /\ a \in FieldSet /\ a.name = <<"type">> /\ a.type = "uint8"
      /\ b \in FieldSet /\ b.name = <<"message_type">> /\ b.type = "uint8"
  BY Types, OneField DEF Words
<1>2. x \in FieldSet /\ x.name = <<n>>
  BY OneField
<1>3. CType = <<a>> /\ PyType = <<b>>
  BY DEF CType, PyType
<1> HIDE DEF a, b, x
<1>4. <<a>> \o <<x>> = <<a, x>> /\ <<b>> \o <<x>> = <<b, x>>
  BY <1>1, <1>2, OneOne
<1>5. /\ <<a, x>> \in Seq(FieldSet) /\ Len(<<a, x>>) = 2
      /\ <<b, x>> \in Seq(FieldSet) /\ Len(<<b, x>>) = 2
  BY <1>1, <1>2
<1>6. 1 .. 2 = {1, 2}
  OBVIOUS
<1>7. Distinct(<<a, x>>) /\ Distinct(<<b, x>>)
  BY <1>1, <1>2, <1>5, <1>6 DEF Distinct
<1>8. SameTypes(<<a, x>>, <<b, x>>)
  BY <1>1, <1>5, <1>6 DEF SameTypes
<1> QED BY <1>3, <1>4, <1>5, <1>7, <1>8 DEF a, b, x

LEMMA HeadLayouts ==
  /\ CTelemetryFields \in Seq(FieldSet) /\ Len(CTelemetryFields) = 5
  /\ CTelemetryFields[1].name = <<"type">> /\ CTelemetryFields[1].type = "uint8"
  /\ CTelemetryFields[2].name = <<"timestamp">> /\ CTelemetryFields[3].name = <<"uptime">>
  /\ CTelemetryFields[4].name = <<"state">> /\ CTelemetryFields[5].name = <<"sample_count">>
  /\ PyTelemetryFields \in Seq(FieldSet) /\ Len(PyTelemetryFields) = 5
  /\ Distinct(PyTelemetryFields)
  /\ PyTelemetryFields[1].name = <<"message_type">> /\ PyTelemetryFields[2].name = <<"timestamp_ms">>
  /\ PyTelemetryFields[3].name = <<"uptime">> /\ PyTelemetryFields[4].name = <<"state", "state">>
  /\ PyTelemetryFields[5].name = <<"sample_count">>
  /\ SameTypes(CTelemetryFields, PyTelemetryFields)
<1> DEFINE a == Field("type", "uint8")
           b == Field("timestamp", "uint64")
           c == Field("uptime", "uint32")
           d == Field("state", "uint16")
           e == Field("sample_count", "uint16")
           f == Field("message_type", "uint8")
           g == Field("timestamp_ms", "uint64")
           h == [name |-> <<"state", "state">>, type |-> "uint16"]
<1>1. /\ a \in FieldSet /\ a.name = <<"type">> /\ a.type = "uint8"
      /\ b \in FieldSet /\ b.name = <<"timestamp">> /\ b.type = "uint64"
      /\ c \in FieldSet /\ c.name = <<"uptime">> /\ c.type = "uint32"
      /\ d \in FieldSet /\ d.name = <<"state">> /\ d.type = "uint16"
      /\ e \in FieldSet /\ e.name = <<"sample_count">> /\ e.type = "uint16"
      /\ f \in FieldSet /\ f.name = <<"message_type">> /\ f.type = "uint8"
      /\ g \in FieldSet /\ g.name = <<"timestamp_ms">> /\ g.type = "uint64"
  BY Types, OneField DEF Words
<1>2. "state" \in Words /\ "uint16" \in DOMAIN Width
  BY Types DEF Words
<1>3. h \in FieldSet /\ h.name = <<"state", "state">> /\ h.type = "uint16"
  <2>1. <<"state", "state">> \in Seq(Words)
    BY <1>2
  <2> QED BY <1>2, <2>1 DEF FieldSet, Fields
<1>4. <<"state">> \o <<"state">> = <<"state", "state">>
  BY <1>2, OneOne
<1>5. Inner("state", <<d>>) = <<h>>
  <2>1. Inner("state", <<d>>) = [i \in {1} |-> [name |-> <<"state">> \o <<d>>[i].name, type |-> <<d>>[i].type]]
    BY DEF Inner
  <2>2. <<d>>[1] = d /\ d.name = <<"state">> /\ d.type = "uint16"
    BY <1>1
  <2>3. Inner("state", <<d>>) = [i \in {1} |-> h]
    <3>1. [i \in {1} |-> [name |-> <<"state">> \o <<d>>[i].name, type |-> <<d>>[i].type]]
            = [i \in {1} |-> h]
      <4> HIDE DEF d
      <4>1. <<"state">> \o <<d>>[1].name = <<"state", "state">> /\ <<d>>[1].type = "uint16"
        BY <1>4, <2>2
      <4> QED BY <4>1
    <3> QED BY <2>1, <3>1
  <2> HIDE DEF h
  <2>4. [i \in {1} |-> h] = <<h>>
    OBVIOUS
  <2> QED BY <2>3, <2>4
<1>6. CTelemetryFields = <<a>> \o <<b, c, d, e>>
  BY DEF CTelemetryFields, CType
<1>7. PyTelemetryFields = <<f>> \o <<g, c>> \o Inner("state", <<d>>) \o <<e>>
  BY DEF PyTelemetryFields, PyType
<1> HIDE DEF a, b, c, d, e, f, g, h
<1>8. CTelemetryFields = <<a, b, c, d, e>>
  BY <1>1, <1>6, OneFour
<1>9. PyTelemetryFields = <<f, g, c, h, e>>
  <2>1. <<f>> \o <<g, c>> = <<f, g, c>>
    BY <1>1, OneTwo
  <2>2. <<f, g, c>> \o <<h>> = <<f, g, c, h>>
    BY <1>1, <1>3, ThreeOne
  <2>3. <<f, g, c, h>> \o <<e>> = <<f, g, c, h, e>>
    BY <1>1, <1>3, FourOne
  <2> QED BY <1>5, <1>7, <2>1, <2>2, <2>3
<1>10. /\ <<a, b, c, d, e>> \in Seq(FieldSet) /\ Len(<<a, b, c, d, e>>) = 5
       /\ <<a, b, c, d, e>>[1] = a /\ <<a, b, c, d, e>>[2] = b /\ <<a, b, c, d, e>>[3] = c
       /\ <<a, b, c, d, e>>[4] = d /\ <<a, b, c, d, e>>[5] = e
  BY <1>1
<1>11. /\ <<f, g, c, h, e>> \in Seq(FieldSet) /\ Len(<<f, g, c, h, e>>) = 5
       /\ <<f, g, c, h, e>>[1] = f /\ <<f, g, c, h, e>>[2] = g /\ <<f, g, c, h, e>>[3] = c
       /\ <<f, g, c, h, e>>[4] = h /\ <<f, g, c, h, e>>[5] = e
  BY <1>1, <1>3
<1>12. Distinct(PyTelemetryFields)
  <2>1. /\ f.name # g.name /\ f.name # c.name /\ f.name # h.name /\ f.name # e.name
        /\ g.name # c.name /\ g.name # h.name /\ g.name # e.name
        /\ c.name # h.name /\ c.name # e.name /\ h.name # e.name
    BY <1>1, <1>3
  <2> QED BY <1>1, <1>3, <1>9, <2>1, Tuple5
<1>13. SameTypes(<<a, b, c, d, e>>, <<f, g, c, h, e>>)
  <2>1. 1 .. 5 = {1, 2, 3, 4, 5}
    OBVIOUS
  <2> QED BY <1>1, <1>3, <1>10, <1>11, <2>1 DEF SameTypes
<1> QED BY <1>1, <1>3, <1>8, <1>9, <1>10, <1>11, <1>12, <1>13

-----------------------------------------------------------------------------
(* The messages in bytes.                                                  *)

SampleTime(t) == <<"Sample", <<"timestamp">>, t>>

SampleValues(t) == [i \in 1 .. 13 |-> <<"Sample", CSampleFields[i].name, t>>]

HeadValues(state) ==
  << TypeValue(MessageType.TELEMETRY), <<"Telemetry", <<"timestamp">>, 0>>,
     <<"Telemetry", <<"uptime">>, 0>>, <<"Telemetry", <<"state">>, state>>,
     <<"Telemetry", <<"sample_count">>, 0>> >>

ServiceNow == <<"Service", <<"now">>, 0>>

SetTimeFields == PyType \o << Field("timestamp", "uint64") >>

AckFields == PyType \o << Field("timestamp", "uint32") >>

(* w is the values as they are written, by field.                          *)
LEMMA WrittenLaid ==
  ASSUME NEW F, NEW v, NEW w,
         \A i \in 1 .. Len(F) :
           w[[name |-> F[i].name, type |-> F[i].type, at |-> Offsets(F)[i]]] = v[i]
  PROVE  {[at |-> f.at, type |-> f.type, value |-> w[f]] : f \in Packed(F).ints} = Laid(F, v)
<1> DEFINE fld(i) == [name |-> F[i].name, type |-> F[i].type, at |-> Offsets(F)[i]]
           W == {[at |-> f.at, type |-> f.type, value |-> w[f]] : f \in Packed(F).ints}
<1>1. Packed(F).ints = {fld(i) : i \in 1 .. Len(F)}
  BY DEF Packed
<1>2. \A i \in 1 .. Len(F) : /\ fld(i).at = Offsets(F)[i] /\ fld(i).type = F[i].type
                             /\ w[fld(i)] = v[i]
  OBVIOUS
<1> HIDE DEF fld
<1>3. ASSUME NEW x \in W PROVE x \in Laid(F, v)
  <2>1. PICK f \in Packed(F).ints : x = [at |-> f.at, type |-> f.type, value |-> w[f]]
    OBVIOUS
  <2>2. PICK i \in 1 .. Len(F) : f = fld(i)
    BY <1>1
  <2> QED BY <1>2, <2>1, <2>2 DEF Laid
<1>4. ASSUME NEW x \in Laid(F, v) PROVE x \in W
  <2>1. PICK i \in 1 .. Len(F) : x = [at |-> Offsets(F)[i], type |-> F[i].type, value |-> v[i]]
    BY DEF Laid
  <2>2. fld(i) \in Packed(F).ints
    BY <1>1
  <2> QED BY <1>2, <2>1, <2>2
<1> QED BY <1>3, <1>4

LEMMA PackedSize == ASSUME NEW F PROVE Packed(F).size = Size(F)
BY DEF Packed, Size

LEMMA SampleInBytes ==
  ASSUME NEW t
  PROVE  SampleBytes(t).size = Size(CSampleFields)
         /\ SampleBytes(t).ints = Laid(CSampleFields, SampleValues(t))
<1> DEFINE P == Packed(CSampleFields).ints
           w == [f \in P |-> <<"Sample", f.name, t>>]
<1>1. SampleBytes(t).size = Size(CSampleFields)
  BY PackedSize DEF SampleBytes, Written, CSample
<1>2. SampleBytes(t).ints
        = {[at |-> f.at, type |-> f.type, value |-> <<"Sample", f.name, t>>] : f \in P}
  BY DEF SampleBytes, Written, CSample
<1>3. SampleBytes(t).ints = {[at |-> f.at, type |-> f.type, value |-> w[f]] : f \in P}
  BY <1>2
<1>4. \A i \in 1 .. Len(CSampleFields) :
        w[[name |-> CSampleFields[i].name, type |-> CSampleFields[i].type,
           at |-> Offsets(CSampleFields)[i]]] = SampleValues(t)[i]
  <2> TAKE i \in 1 .. Len(CSampleFields)
  <2> DEFINE f == [name |-> CSampleFields[i].name, type |-> CSampleFields[i].type,
                   at |-> Offsets(CSampleFields)[i]]
  <2>1. f \in P /\ f.name = CSampleFields[i].name
    BY DEF Packed
  <2>2. SampleValues(t)[i] = <<"Sample", CSampleFields[i].name, t>>
    BY SampleLayouts DEF SampleValues
  <2> HIDE DEF f, P
  <2>3. w[f] = <<"Sample", f.name, t>>
    BY <2>1
  <2>4. w[f] = SampleValues(t)[i]
    BY <2>1, <2>2, <2>3
  <2> HIDE DEF w
  <2> QED BY <2>4 DEF f
<1> HIDE DEF w
<1> QED BY <1>1, <1>3, <1>4, WrittenLaid

LEMMA HeadInBytes ==
  ASSUME NEW state
  PROVE  HeadBytes(state).size = Size(CTelemetryFields)
         /\ HeadBytes(state).ints = Laid(CTelemetryFields, HeadValues(state))
<1> DEFINE P == Packed(CTelemetryFields).ints
           val(n) == IF n = <<"type">> THEN TypeValue(MessageType.TELEMETRY)
                     ELSE <<"Telemetry", n, IF n = <<"state">> THEN state ELSE 0>>
           w == [f \in P |-> val(f.name)]
<1>1. HeadBytes(state).size = Size(CTelemetryFields)
  BY PackedSize DEF HeadBytes, Written, CTelemetry
<1>2. HeadBytes(state).ints
        = {[at |-> f.at, type |-> f.type, value |-> val(f.name)] : f \in P}
  BY DEF HeadBytes, Written, CTelemetry
<1>3. HeadBytes(state).ints = {[at |-> f.at, type |-> f.type, value |-> w[f]] : f \in P}
  <2> HIDE DEF val
  <2> QED BY <1>2
<1>4. \A i \in 1 .. Len(CTelemetryFields) :
        w[[name |-> CTelemetryFields[i].name, type |-> CTelemetryFields[i].type,
           at |-> Offsets(CTelemetryFields)[i]]] = HeadValues(state)[i]
  <2>1. \A i \in 1 .. Len(CTelemetryFields) :
          w[[name |-> CTelemetryFields[i].name, type |-> CTelemetryFields[i].type,
             at |-> Offsets(CTelemetryFields)[i]]] = val(CTelemetryFields[i].name)
    <3> HIDE DEF val
    <3> QED BY DEF Packed
  <2>2. 1 .. Len(CTelemetryFields) = {1, 2, 3, 4, 5}
    BY HeadLayouts
  <2>3. /\ val(CTelemetryFields[1].name) = HeadValues(state)[1]
        /\ val(CTelemetryFields[2].name) = HeadValues(state)[2]
        /\ val(CTelemetryFields[3].name) = HeadValues(state)[3]
        /\ val(CTelemetryFields[4].name) = HeadValues(state)[4]
        /\ val(CTelemetryFields[5].name) = HeadValues(state)[5]
    BY HeadLayouts DEF HeadValues
  <2> HIDE DEF w, val
  <2> QED BY <2>1, <2>2, <2>3
<1> HIDE DEF w
<1> QED BY <1>1, <1>3, <1>4, WrittenLaid

(* The service's messages have a type and one more field.                  *)
(* Two fields, by name.                                                    *)
LEMMA TwoNames ==
  ASSUME NEW n \in Words, n \notin {"type", "message_type"}, NEW t \in DOMAIN Width
  PROVE  LET F == PyType \o << Field(n, t) >>
         IN  Len(F) = 2 /\ F[1] = Field("message_type", "uint8") /\ F[2] = Field(n, t)
             /\ F[1].name = <<"message_type">> /\ F[1].type = "uint8" /\ F[2].name = <<n>>
<1> DEFINE F == PyType \o << Field(n, t) >>
           a == Field("message_type", "uint8")
           b == Field(n, t)
<1>1. F = <<a, b>>
  BY TwoFields
<1>2. a.name = <<"message_type">> /\ a.type = "uint8" /\ b.name = <<n>>
  BY DEF Field
<1> HIDE DEF a, b, F
<1>3. Len(F) = 2
  BY <1>1
<1>4. F[1] = a /\ F[2] = b
  BY <1>1
<1>5. Len(F) = 2 /\ F[1] = a /\ F[2] = b /\ F[1].name = <<"message_type">>
      /\ F[1].type = "uint8" /\ F[2].name = <<n>>
  BY <1>2, <1>3, <1>4
<1> QED BY <1>5 DEF F, a, b

(* What the service writes: a type and a value.                            *)
Answered(F, x, y) ==
  {[at |-> f.at, type |-> f.type, value |-> IF f.name = <<"message_type">> THEN x ELSE y] :
   f \in Packed(F).ints}

LEMMA AnswerInBytes ==
  ASSUME NEW F, Len(F) = 2, F[1].name = <<"message_type">>, F[2].name # <<"message_type">>,
         NEW x, NEW y
  PROVE  Answered(F, x, y) = Laid(F, <<x, y>>)
<1> DEFINE v == <<x, y>>
           val(f) == IF f.name = <<"message_type">> THEN x ELSE y
           fld(i) == [name |-> F[i].name, type |-> F[i].type, at |-> Offsets(F)[i]]
<1>3. \A z : z \in Answered(F, x, y) <=>
        \E f \in Packed(F).ints : z = [at |-> f.at, type |-> f.type, value |-> val(f)]
  BY DEF Answered
<1>4. Packed(F).ints = {fld(i) : i \in 1 .. Len(F)}
  BY DEF Packed
<1>5. v[1] = x /\ v[2] = y /\ 1 .. 2 = {1, 2}
  OBVIOUS
<1> HIDE DEF v
<1>6. \A i \in 1 .. Len(F) : /\ val(fld(i)) = v[i]
                             /\ fld(i).at = Offsets(F)[i] /\ fld(i).type = F[i].type
  BY <1>5
<1> HIDE DEF val, fld
<1>7. ASSUME NEW z \in Answered(F, x, y) PROVE z \in Laid(F, v)
  <2>1. PICK f \in Packed(F).ints : z = [at |-> f.at, type |-> f.type, value |-> val(f)]
    BY <1>3
  <2>2. PICK i \in 1 .. Len(F) : f = fld(i)
    BY <1>4
  <2> QED BY <1>6, <2>1, <2>2 DEF Laid
<1>8. ASSUME NEW z \in Laid(F, v) PROVE z \in Answered(F, x, y)
  <2>1. PICK i \in 1 .. Len(F) : z = [at |-> Offsets(F)[i], type |-> F[i].type, value |-> v[i]]
    BY DEF Laid
  <2>2. fld(i) \in Packed(F).ints
    BY <1>4
  <2> QED BY <1>3, <1>6, <2>1, <2>2
<1>9. Answered(F, x, y) = Laid(F, v)
  BY <1>7, <1>8
<1> QED BY <1>9 DEF v

LEMMA SetTimeInBytes ==
  SetTimeBytes.ints = Laid(SetTimeFields, <<TypeValue(MessageType.SET_TIME), ServiceNow>>)
<1> DEFINE x == TypeValue(MessageType.SET_TIME)
           y == ServiceNow
<1>1. "timestamp" \in Words /\ "uint64" \in DOMAIN Width
  BY Types DEF Words
<1>2. SetTimeBytes.ints = Answered(SetTimeFields, x, y)
  BY DEF SetTimeBytes, Written, PySetTime, SetTimeFields, ServiceNow, Answered
<1>3. "timestamp" \notin {"type", "message_type"}
  OBVIOUS
<1>5. Len(SetTimeFields) = 2 /\ SetTimeFields[1].name = <<"message_type">> /\ SetTimeFields[2].name = <<"timestamp">>
  BY <1>1, <1>3, TwoNames DEF SetTimeFields
<1>6. SetTimeFields[2].name # <<"message_type">>
  BY <1>5
<1> HIDE DEF x, y
<1>4. SetTimeBytes.ints = Laid(SetTimeFields, <<x, y>>)
  BY <1>2, <1>5, <1>6, AnswerInBytes
<1> QED BY <1>4 DEF x, y

LEMMA AckInBytes ==
  ASSUME NEW y
  PROVE  AckBytes(y).ints = Laid(AckFields, <<TypeValue(MessageType.SAMPLE_ACK), y>>)
<1> DEFINE x == TypeValue(MessageType.SAMPLE_ACK)
<1>1. "timestamp" \in Words /\ "uint32" \in DOMAIN Width
  BY Types DEF Words
<1>2. AckBytes(y).ints = Answered(AckFields, x, y)
  BY DEF AckBytes, Written, PySampleAck, AckFields, Answered
<1>3. "timestamp" \notin {"type", "message_type"}
  OBVIOUS
<1>5. Len(AckFields) = 2 /\ AckFields[1].name = <<"message_type">> /\ AckFields[2].name = <<"timestamp">>
  BY <1>1, <1>3, TwoNames DEF AckFields
<1>6. AckFields[2].name # <<"message_type">>
  BY <1>5
<1> HIDE DEF x
<1>4. AckBytes(y).ints = Laid(AckFields, <<x, y>>)
  BY <1>2, <1>5, <1>6, AnswerInBytes
<1> QED BY <1>4 DEF x

(* A struct is read at the beginning of longer bytes.                      *)
LEMMA ReadLaid ==
  ASSUME NEW N, NEW F \in Seq(Fields(N)), NEW v, NEW bytes, Laid(F, v) \subseteq bytes.ints,
         \A y \in bytes.ints : y \in Laid(F, v) \/ y.at >= Size(F),
         NEW i \in 1 .. Len(F)
  PROVE  Read(bytes, Offsets(F)[i], F[i].type) = v[i]
<1> DEFINE x == [at |-> Offsets(F)[i], type |-> F[i].type, value |-> v[i]]
<1>1. x \in Laid(F, v) /\ x \in bytes.ints
  BY DEF Laid
<1>2. x.at = Offsets(F)[i] /\ x.type = F[i].type /\ x.value = v[i]
  OBVIOUS
<1>3. x.at < Size(F)
  <2>1. x.at \in Nat /\ Width[x.type] \in Nat /\ Width[x.type] > 0
        /\ x.at + Width[x.type] <= Size(F) /\ Size(F) \in Nat
    <3> HIDE DEF x
    <3> QED BY <1>1, LaidBounds
  <2> HIDE DEF x
  <2> QED BY <2>1
<1>4. ASSUME NEW y \in bytes.ints, y.at = x.at PROVE y = x
  <2>1. y \in Laid(F, v)
    <3>1. x.at \in Nat /\ Size(F) \in Nat
      <4> HIDE DEF x
      <4> QED BY <1>1, LaidBounds
    <3>2. ~ (y.at >= Size(F))
      <4> HIDE DEF x
      <4> QED BY <1>3, <1>4, <3>1
    <3> QED BY <3>2
  <2>2. PICK j \in 1 .. Len(F) : y = [at |-> Offsets(F)[j], type |-> F[j].type, value |-> v[j]]
    BY <2>1 DEF Laid
  <2>3. Offsets(F)[i] = Offsets(F)[j]
    BY <1>4, <2>2
  <2>4. i = j
    BY <2>3, OffsetsDiffer
  <2> QED BY <2>2, <2>4
<1> HIDE DEF x
<1>5. Read(bytes, x.at, x.type) = x.value
  BY <1>1, <1>4, ReadInt
<1> QED BY <1>2, <1>5

(* Either end reads the type first.                                        *)
LEMMA ReadType ==
  ASSUME NEW F \in Seq(FieldSet), Len(F) > 0, F[1].type = "uint8",
         NEW v, NEW bytes, Laid(F, v) \subseteq bytes.ints,
         \A y \in bytes.ints : y \in Laid(F, v) \/ y.at >= Size(F)
  PROVE  Type(bytes) = v[1] /\ Get(Unpack(CMessage, bytes), <<"type">>) = v[1]
<1>1. Offsets(F)[1] = 0 /\ 1 \in 1 .. Len(F)
  BY OffsetsDef DEF FieldSet
<1>2. Read(bytes, 0, "uint8") = v[1]
  <2>1. Read(bytes, Offsets(F)[1], F[1].type) = v[1]
    BY <1>1, ReadLaid DEF FieldSet
  <2> QED BY <1>1, <2>1
<1> DEFINE c == Field("type", "uint8")
           o == [name |-> <<"type">>, value |-> v[1]]
<1>3. c \in FieldSet /\ c.name = <<"type">> /\ c.type = "uint8"
  BY Types, OneField DEF Words
<1>4. CType = <<c>>
  BY DEF CType
<1> HIDE DEF c
<1>5. CType \in Seq(FieldSet) /\ Len(CType) = 1 /\ CType[1] = c /\ 1 .. 1 = {1}
  BY <1>3, <1>4
<1>6. Offsets(CType)[1] = 0
  BY <1>5, OffsetsDef DEF FieldSet
<1>7. Packed(CType).ints = {[name |-> <<"type">>, type |-> "uint8", at |-> 0]}
  <2>1. Packed(CType).ints
          = {[name |-> CType[i].name, type |-> CType[i].type, at |-> Offsets(CType)[i]] : i \in 1 .. Len(CType)}
    BY <1>5 DEF Packed
  <2> QED BY <1>3, <1>5, <1>6, <2>1
<1>8. Unpack(CMessage, bytes) = {o}
  BY <1>2, <1>7 DEF Unpack, CMessage
<1>9. (CHOOSE f \in {o} : f.name = <<"type">>) = o /\ o.value = v[1]
  OBVIOUS
<1>10. Get({o}, <<"type">>) = v[1]
  <2> HIDE DEF o
  <2> QED BY <1>9 DEF Get
<1> QED BY <1>2, <1>8, <1>10 DEF Type

(* What the device reads of the service's messages.                        *)
LEMMA ReadAnswer ==
  ASSUME NEW t \in DOMAIN Width, NEW x, NEW y, NEW bytes,
         bytes.ints = Laid(PyType \o << Field("timestamp", t) >>, <<x, y>>)
  PROVE  /\ Get(Unpack(CMessage, bytes), <<"type">>) = x
         /\ Get(Unpack(Packed(CType \o << Field("timestamp", t) >>), bytes), <<"timestamp">>) = y
<1> DEFINE F == PyType \o << Field("timestamp", t) >>
           G == CType \o << Field("timestamp", t) >>
           v == <<x, y>>
<1>1. "timestamp" \in Words /\ "timestamp" \notin {"type", "message_type"}
  BY DEF Words
<1>2. F \in Seq(FieldSet) /\ G \in Seq(FieldSet) /\ SameTypes(G, F) /\ Distinct(G)
  BY <1>1, TwoFields
<1>3. Len(F) = 2 /\ F[1].type = "uint8"
  BY <1>1, TwoNames
<1>4. G = << Field("type", "uint8"), Field("timestamp", t) >>
  BY <1>1, TwoFields
<1>5. G[2].name = <<"timestamp">>
  <2>1. Field("timestamp", t).name = <<"timestamp">>
    BY DEF Field
  <2> HIDE DEF G
  <2> QED BY <1>4, <2>1
<1>6. v[1] = x /\ v[2] = y
  OBVIOUS
<1> HIDE DEF F, G, v
<1>7. bytes.ints = Laid(F, v)
  BY DEF F, v
<1>8. Get(Unpack(CMessage, bytes), <<"type">>) = x
  BY <1>2, <1>3, <1>6, <1>7, ReadType
<1>9. SameTypes(F, G) /\ Len(G) = 2
  BY <1>2, <1>3 DEF SameTypes
<1>10. Unpack(Packed(G), bytes) = Object(G, v)
  BY <1>2, <1>7, <1>9, UnpackLaid DEF FieldSet
<1>11. Get(Object(G, v), <<"timestamp">>) = y
  <2>1. 2 \in 1 .. Len(G) /\ Only(G, 2)
    BY <1>2, <1>9 DEF Only, Distinct
  <2> QED BY <1>5, <1>6, <2>1, GetObject
<1> QED BY <1>8, <1>10, <1>11 DEF G

-----------------------------------------------------------------------------
(* Telemetry in bytes: a header and the samples behind it.                 *)

HeadSize == Size(CTelemetryFields)

SampleSize == Size(CSampleFields)

(* The message with the samples from .. to.                                *)
Body(state, from, to) ==
  [size |-> HeadSize + (to - from + 1) * SampleSize,
   ints |-> HeadBytes(state).ints
            \union UNION {Behind(SampleBytes(t).ints, HeadSize + (t - from) * SampleSize) :
                          t \in from .. to}]

LEMMA Times == ASSUME NEW a \in Int, NEW b \in Int, NEW s \in Nat, a < b
  PROVE  a * s \in Int /\ b * s \in Int /\ a * s + s <= b * s
<1>1. (b - a - 1) \in Nat
  OBVIOUS
<1>2. (b - a - 1) * s >= 0
  BY <1>1
<1>3. (b - a - 1) * s = b * s - a * s - s
  OBVIOUS
<1> QED BY <1>2, <1>3

LEMMA Division == ASSUME NEW m \in Nat, NEW s \in Nat, s > 0
  PROVE  (m * s) \div s = m
OBVIOUS

(* Where in an array of pages of S bytes a field lies says which page it is in. *)
LEMMA Place ==
  ASSUME NEW S \in Nat, NEW H \in Nat, NEW k \in Nat, NEW q \in Nat, NEW x \in Nat, NEW w \in Nat,
         w > 0, x + w <= S, x + (H + k * S) >= H + q * S, x + (H + k * S) + w <= H + (q + 1) * S
  PROVE  k = q
<1>1. k * S \in Int /\ q * S \in Int /\ (q + 1) * S = q * S + S
  OBVIOUS
<1> DEFINE a == k * S
           b == q * S
<1>2. a \in Int /\ b \in Int /\ x + (H + a) >= H + b /\ x + (H + a) + w <= H + (b + S)
  BY <1>1
<1>3. k < q => a + S <= b
  BY Times
<1>4. q < k => b + S <= a
  BY Times
<1> HIDE DEF a, b
<1>5. ~ (k < q) /\ ~ (q < k)
  BY <1>2, <1>3, <1>4
<1> QED BY <1>5

LEMMA Sizes ==
  /\ HeadSize \in Nat /\ SampleSize \in Nat /\ HeadSize > 0 /\ SampleSize > 0
  /\ CSample.size = SampleSize /\ PySample.size = SampleSize /\ PyTelemetry.size = HeadSize
<1>1. HeadSize \in Nat /\ HeadSize > 0
  <2>1. CTelemetryFields \in Seq(FieldSet) /\ Len(CTelemetryFields) > 0
    BY HeadLayouts
  <2> QED BY <2>1, LaidBounds DEF HeadSize, FieldSet
<1>2. SampleSize \in Nat /\ SampleSize > 0
  BY SampleLayouts, LaidBounds DEF SampleSize, FieldSet
<1>3. CSample.size = SampleSize
  BY PackedSize DEF CSample, SampleSize
<1>4. PySample.size = SampleSize
  <2>1. Offsets(CSampleFields) = Offsets(PySampleFields)
    BY SampleLayouts, SameOffsets DEF FieldSet
  <2>2. Size(PySampleFields) = SampleSize
    BY <2>1, SampleLayouts DEF Size, SampleSize
  <2> QED BY <2>2, PackedSize DEF PySample
<1>5. PyTelemetry.size = HeadSize
  <2>1. Offsets(CTelemetryFields) = Offsets(PyTelemetryFields)
    BY HeadLayouts, SameOffsets DEF FieldSet
  <2>2. Size(PyTelemetryFields) = HeadSize
    BY <2>1, HeadLayouts DEF Size, HeadSize
  <2> QED BY <2>2, PackedSize DEF PyTelemetry
<1> QED BY <1>1, <1>2, <1>3, <1>4, <1>5

(* Integers as they are written.                                           *)
Int3(x) == [at |-> x.at, type |-> x.type, value |-> x.value]

Moved(x, n) == [at |-> x.at + n, type |-> x.type, value |-> x.value]

LEMMA SampleInts ==
  ASSUME NEW t, NEW x \in SampleBytes(t).ints
  PROVE  /\ x = Int3(x) /\ x.at \in Nat /\ Width[x.type] \in Nat /\ Width[x.type] > 0
         /\ x.at + Width[x.type] <= SampleSize
<1>1. x \in Laid(CSampleFields, SampleValues(t)) /\ CSampleFields \in Seq(Fields(Seq(Words)))
  BY SampleInBytes, SampleLayouts DEF FieldSet
<1> QED BY <1>1, LaidBounds DEF SampleSize, Int3

LEMMA HeadInts ==
  ASSUME NEW state, NEW x \in HeadBytes(state).ints
  PROVE  /\ x = Int3(x) /\ x.at \in Nat /\ Width[x.type] \in Nat /\ Width[x.type] > 0
         /\ x.at + Width[x.type] <= HeadSize
<1>1. x \in Laid(CTelemetryFields, HeadValues(state)) /\ CTelemetryFields \in Seq(Fields(Seq(Words)))
  BY HeadInBytes, HeadLayouts DEF FieldSet
<1> QED BY <1>1, LaidBounds DEF HeadSize, Int3

LEMMA InBehind ==
  ASSUME NEW X, NEW n, NEW y
  PROVE  y \in Behind(X, n) <=> \E x \in X : y = Moved(x, n)
BY DEF Behind, Moved

LEMMA InBody ==
  ASSUME NEW state, NEW from, NEW to, NEW y
  PROVE  y \in Body(state, from, to).ints <=>
           \/ y \in HeadBytes(state).ints
           \/ \E t \in from .. to : \E x \in SampleBytes(t).ints :
                y = Moved(x, HeadSize + (t - from) * SampleSize)
<1>1. y \in Body(state, from, to).ints <=>
        \/ y \in HeadBytes(state).ints
        \/ \E t \in from .. to : y \in Behind(SampleBytes(t).ints, HeadSize + (t - from) * SampleSize)
  BY DEF Body
<1> QED BY <1>1, InBehind

LEMMA InSlice ==
  ASSUME NEW bytes, NEW a, NEW b, NEW y
  PROVE  y \in Slice(bytes, a, b).ints <=>
           \E x \in bytes.ints : x.at >= a /\ x.at + Width[x.type] <= b /\ y = Moved(x, -a)
BY DEF Slice, Behind, Moved

(* The header is cut off, and every page behind it is a sample.            *)
LEMMA HeadOfBody ==
  ASSUME NEW state, NEW from \in Int, NEW to \in Int
  PROVE  TelemetryHead(Body(state, from, to)).ints = HeadBytes(state).ints
<1> DEFINE B == Body(state, from, to)
           I == HeadBytes(state).ints
<1>1. \A y : y \in B.ints <=>
        \/ y \in I
        \/ \E t \in from .. to : \E x \in SampleBytes(t).ints :
             y = Moved(x, HeadSize + (t - from) * SampleSize)
  BY InBody
<1>2. \A y : y \in TelemetryHead(B).ints <=>
        \E x \in B.ints : x.at >= 0 /\ x.at + Width[x.type] <= HeadSize /\ y = Moved(x, -0)
  BY Sizes, InSlice DEF TelemetryHead
<1>3. HeadSize \in Nat /\ SampleSize \in Nat
  BY Sizes
<1>4. ASSUME NEW x \in I PROVE Moved(x, -0) = x /\ x.at >= 0 /\ x.at + Width[x.type] <= HeadSize
  <2>1. x = Int3(x) /\ x.at \in Nat /\ x.at + Width[x.type] <= HeadSize
    BY HeadInts
  <2>2. x.at + -0 = x.at
    BY <2>1
  <2> QED BY <2>1, <2>2 DEF Moved, Int3
<1> HIDE DEF B, I
<1>5. ASSUME NEW y \in I PROVE y \in TelemetryHead(B).ints
  BY <1>1, <1>2, <1>4
<1>6. ASSUME NEW y \in TelemetryHead(B).ints PROVE y \in I
  <2>1. PICK x \in B.ints : x.at >= 0 /\ x.at + Width[x.type] <= HeadSize /\ y = Moved(x, -0)
    BY <1>2
  <2>2. ASSUME NEW t \in from .. to, NEW z \in SampleBytes(t).ints,
               x = Moved(z, HeadSize + (t - from) * SampleSize)
        PROVE  FALSE
    <3>1. z.at \in Nat /\ Width[z.type] \in Nat /\ Width[z.type] > 0
      BY SampleInts
    <3>2. t - from \in Nat /\ (t - from) * SampleSize \in Nat
      BY <1>3
    <3>3. x.at = z.at + (HeadSize + (t - from) * SampleSize) /\ x.type = z.type
      BY <2>2 DEF Moved
    <3> DEFINE n == (t - from) * SampleSize
               w == Width[z.type]
    <3>4. z.at + (HeadSize + n) + w <= HeadSize
      BY <2>1, <3>3
    <3> HIDE DEF n, w
    <3>5. n \in Nat /\ w \in Nat /\ w > 0
      BY <3>1, <3>2 DEF n, w
    <3> QED BY <1>3, <3>1, <3>4, <3>5
  <2>3. x \in I
    BY <1>1, <2>2
  <2> QED BY <1>4, <2>1, <2>3
<1> QED BY <1>5, <1>6 DEF B, I

LEMMA PageOfBody ==
  ASSUME NEW state, NEW from \in Int, NEW to \in Int, NEW p \in 1 .. to - from + 1
  PROVE  Slice(Body(state, from, to), HeadSize + (p - 1) * SampleSize, HeadSize + p * SampleSize).ints
           = SampleBytes(from + p - 1).ints
<1> DEFINE B == Body(state, from, to)
           u == from + p - 1
           I == SampleBytes(u).ints
           a == HeadSize + (p - 1) * SampleSize
           b == HeadSize + p * SampleSize
           P == Slice(B, a, b).ints
<1>1. \A y : y \in B.ints <=>
        \/ y \in HeadBytes(state).ints
        \/ \E t \in from .. to : \E x \in SampleBytes(t).ints :
             y = Moved(x, HeadSize + (t - from) * SampleSize)
  BY InBody
<1>2. \A y : y \in P <=>
        \E x \in B.ints : x.at >= a /\ x.at + Width[x.type] <= b /\ y = Moved(x, -a)
  BY InSlice
<1>3. HeadSize \in Nat /\ SampleSize \in Nat
  BY Sizes
<1>4. /\ u \in from .. to /\ u - from = p - 1 /\ p - 1 \in Nat
      /\ (p - 1) * SampleSize \in Nat /\ a \in Int /\ b \in Int /\ b = a + SampleSize
      /\ a = HeadSize + (u - from) * SampleSize /\ a >= HeadSize
      /\ p = (p - 1) + 1
  BY <1>3
<1> HIDE DEF B, P
<1>5. ASSUME NEW x \in I
      PROVE  /\ Moved(Moved(x, a), -a) = x /\ Moved(x, a).at >= a
             /\ Moved(x, a).at + Width[Moved(x, a).type] <= b
  <2>1. /\ x = Int3(x) /\ x.at \in Nat /\ Width[x.type] \in Nat
        /\ x.at + Width[x.type] <= SampleSize
    BY SampleInts
  <2> HIDE DEF a, b, I
  <2>2. Moved(x, a).at = x.at + a /\ Moved(x, a).type = x.type /\ Moved(x, a).value = x.value
    BY DEF Moved
  <2>3. (x.at + a) + -a = x.at
    BY <1>4, <2>1
  <2>4. Moved(Moved(x, a), -a) = x
    BY <2>1, <2>2, <2>3 DEF Moved, Int3
  <2> QED BY <1>3, <1>4, <2>1, <2>2, <2>4
<1>6. ASSUME NEW y \in I PROVE y \in P
  <2>1. Moved(y, a) \in B.ints
    BY <1>1, <1>4
  <2> QED BY <1>2, <1>5, <2>1
<1>7. ASSUME NEW y \in P PROVE y \in I
  <2>1. PICK x \in B.ints : x.at >= a /\ x.at + Width[x.type] <= b /\ y = Moved(x, -a)
    BY <1>2
  <2>2. x \notin HeadBytes(state).ints
    <3> SUFFICES ASSUME x \in HeadBytes(state).ints PROVE FALSE
      OBVIOUS
    <3>1. x.at \in Nat /\ Width[x.type] \in Nat /\ Width[x.type] > 0
          /\ x.at + Width[x.type] <= HeadSize
      BY HeadInts
    <3> HIDE DEF a, b
    <3> QED BY <1>3, <1>4, <2>1, <3>1
  <2>3. PICK t \in from .. to : \E z \in SampleBytes(t).ints :
               x = Moved(z, HeadSize + (t - from) * SampleSize)
    BY <1>1, <2>2
  <2>4. PICK z \in SampleBytes(t).ints : x = Moved(z, HeadSize + (t - from) * SampleSize)
    BY <2>3
  <2>5. /\ z.at \in Nat /\ Width[z.type] \in Nat /\ Width[z.type] > 0
        /\ z.at + Width[z.type] <= SampleSize
    BY SampleInts
  <2>6. x.at = z.at + (HeadSize + (t - from) * SampleSize) /\ x.type = z.type
    BY <2>4 DEF Moved
  <2>7. t - from = p - 1
    <3>1. t - from \in Nat
      OBVIOUS
    <3> DEFINE k == t - from
               q == p - 1
               w == Width[z.type]
    <3>2. /\ z.at + (HeadSize + k * SampleSize) >= HeadSize + q * SampleSize
          /\ z.at + (HeadSize + k * SampleSize) + w <= HeadSize + (q + 1) * SampleSize
      BY <1>4, <2>1, <2>6
    <3>3. k \in Nat /\ q \in Nat /\ w \in Nat /\ w > 0 /\ z.at + w <= SampleSize
      BY <1>4, <2>5, <3>1
    <3> HIDE DEF k, q, w
    <3>4. k = q
      BY <1>3, <2>5, <3>2, <3>3, Place
    <3> QED BY <3>4 DEF k, q
  <2>8. t = u
    BY <1>4, <2>7
  <2>9. z \in I /\ x = Moved(z, a)
    BY <1>4, <2>4, <2>8
  <2> QED BY <1>5, <2>1, <2>9
<1> QED BY <1>6, <1>7 DEF B, P

HeadObject(state) == Object(PyTelemetryFields, HeadValues(state))

SampleObject(t) == Object(PySampleFields, SampleValues(t))

(* The header's time, in milliseconds as it is sent, and in seconds.       *)
HeadStamp == <<"Telemetry", <<"timestamp">>, 0>>

HeadTime == Seconds(HeadStamp)

LEMMA TypeOfBody ==
  ASSUME NEW state, NEW from \in Int, NEW to \in Int
  PROVE  Type(Body(state, from, to)) = TypeValue(MessageType.TELEMETRY)
<1> DEFINE B == Body(state, from, to)
           v == HeadValues(state)
           F == CTelemetryFields
<1>1. HeadSize \in Nat /\ SampleSize \in Nat
  BY Sizes
<1>2. F \in Seq(FieldSet) /\ Len(F) > 0 /\ F[1].type = "uint8"
  BY HeadLayouts
<1>3. HeadBytes(state).ints = Laid(F, v)
  BY HeadInBytes
<1>4. \A y : y \in B.ints <=>
        \/ y \in Laid(F, v)
        \/ \E t \in from .. to : \E x \in SampleBytes(t).ints :
             y = Moved(x, HeadSize + (t - from) * SampleSize)
  BY <1>3, InBody
<1>5. v[1] = TypeValue(MessageType.TELEMETRY)
  BY DEF HeadValues
<1> HIDE DEF B, v, F
<1>6. ASSUME NEW y \in B.ints, y \notin Laid(F, v) PROVE y.at >= Size(F)
  <2>1. PICK t \in from .. to : \E x \in SampleBytes(t).ints :
               y = Moved(x, HeadSize + (t - from) * SampleSize)
    BY <1>4, <1>6
  <2>2. PICK x \in SampleBytes(t).ints : y = Moved(x, HeadSize + (t - from) * SampleSize)
    BY <2>1
  <2>3. x.at \in Nat
    BY SampleInts
  <2>4. (t - from) * SampleSize \in Nat
    BY <1>1
  <2>5. y.at = x.at + (HeadSize + (t - from) * SampleSize)
    BY <2>2 DEF Moved
  <2>6. Size(F) = HeadSize
    BY DEF HeadSize, F
  <2> QED BY <1>1, <2>3, <2>4, <2>5, <2>6
<1>7. Type(B) = v[1]
  BY <1>2, <1>4, <1>6, ReadType
<1> QED BY <1>5, <1>7 DEF B

LEMMA ReadHead ==
  ASSUME NEW state, NEW from \in Int, NEW to \in Int
  PROVE  /\ Unpack(PyTelemetry, TelemetryHead(Body(state, from, to))) = HeadObject(state)
         /\ Get(HeadObject(state), <<"timestamp_ms">>) = HeadStamp
         /\ Get(HeadObject(state), <<"state", "state">>)[3] = state
<1> DEFINE bytes == TelemetryHead(Body(state, from, to))
           F == CTelemetryFields
           G == PyTelemetryFields
           v == HeadValues(state)
<1>1. /\ F \in Seq(FieldSet) /\ G \in Seq(FieldSet) /\ SameTypes(F, G) /\ Distinct(G)
      /\ Len(G) = 5 /\ G[2].name = <<"timestamp_ms">> /\ G[4].name = <<"state", "state">>
  BY HeadLayouts
<1>2. bytes.ints = Laid(F, v)
  BY HeadOfBody, HeadInBytes
<1>3. v[2] = HeadStamp /\ v[4] = <<"Telemetry", <<"state">>, state>>
  BY DEF HeadValues, HeadStamp
<1> HIDE DEF bytes, F, G, v
<1>4. Unpack(Packed(G), bytes) = Object(G, v)
  BY <1>1, <1>2, UnpackLaid DEF FieldSet
<1>5. 2 \in 1 .. Len(G) /\ 4 \in 1 .. Len(G) /\ Only(G, 2) /\ Only(G, 4)
  <2>1. 2 \in 1 .. Len(G) /\ 4 \in 1 .. Len(G)
    BY <1>1
  <2>2. Distinct(G)
    BY <1>1
  <2> QED BY <2>1, <2>2 DEF Only, Distinct
<1>6. Get(Object(G, v), <<"timestamp_ms">>) = v[2]
  <2>1. Get(Object(G, v), G[2].name) = v[2]
    BY <1>5, GetObject
  <2>2. G[2].name = <<"timestamp_ms">>
    BY <1>1
  <2> QED BY <2>1, <2>2
<1>7. Get(Object(G, v), <<"state", "state">>) = v[4]
  <2>1. Get(Object(G, v), G[4].name) = v[4]
    BY <1>5, GetObject
  <2>2. G[4].name = <<"state", "state">>
    BY <1>1
  <2> QED BY <2>1, <2>2
<1>8. <<"Telemetry", <<"state">>, state>>[3] = state
  OBVIOUS
<1> QED BY <1>3, <1>4, <1>6, <1>7, <1>8 DEF HeadObject, PyTelemetry, bytes, G, v

LEMMA TimeOfSample ==
  ASSUME NEW t
  PROVE  Get(SampleObject(t), <<"timestamp">>) = SampleTime(t)
<1> DEFINE G == PySampleFields
           v == SampleValues(t)
<1>1. Len(G) = 13 /\ Distinct(G) /\ G[1].name = <<"timestamp">>
  BY SampleLayouts
<1>2. v[1] = SampleTime(t)
  <2>1. CSampleFields[1].name = <<"timestamp">>
    BY SampleLayouts
  <2> QED BY <2>1 DEF SampleValues, SampleTime
<1> HIDE DEF G, v
<1>3. 1 \in 1 .. Len(G) /\ Only(G, 1)
  BY <1>1 DEF Only, Distinct
<1>4. Get(Object(G, v), <<"timestamp">>) = v[1]
  <2>1. Get(Object(G, v), G[1].name) = v[1]
    BY <1>3, GetObject
  <2>2. G[1].name = <<"timestamp">>
    BY <1>1
  <2> QED BY <2>1, <2>2
<1> QED BY <1>2, <1>4 DEF SampleObject, G, v

LEMMA ReadSamples ==
  ASSUME NEW state, NEW from \in Int, NEW to \in Int, to >= from - 1
  PROVE  Samples(Body(state, from, to)) = [i \in 1 .. to - from + 1 |-> SampleObject(from + i - 1)]
<1> DEFINE B == Body(state, from, to)
           n == to - from + 1
           page(p) == Slice(B, HeadSize + (p - 1) * SampleSize, HeadSize + p * SampleSize)
           pages == Pages(B, PyTelemetry.size, PySample.size)
<1>1. HeadSize \in Nat /\ SampleSize \in Nat /\ SampleSize > 0 /\ n \in Nat
  BY Sizes
<1>2. (B.size - HeadSize) \div SampleSize = n
  <2>1. B.size = HeadSize + n * SampleSize
    BY DEF Body
  <2>2. n * SampleSize \in Nat
    BY <1>1
  <2> HIDE DEF n, B
  <2>3. B.size - HeadSize = n * SampleSize
    BY <1>1, <2>1, <2>2
  <2> QED BY <1>1, <2>3, Division
<1>3. pages = [p \in 1 .. n |-> page(p)]
  <2>1. pages = [p \in 1 .. (B.size - HeadSize) \div SampleSize |-> page(p)]
    BY Sizes DEF Pages
  <2> HIDE DEF pages, page, B, n
  <2> QED BY <1>2, <2>1
<1>4. ASSUME NEW p \in 1 .. n PROVE Unpack(PySample, page(p)) = SampleObject(from + p - 1)
  <2>1. page(p).ints = SampleBytes(from + p - 1).ints
    BY PageOfBody
  <2>2. SampleBytes(from + p - 1).ints = Laid(CSampleFields, SampleValues(from + p - 1))
    BY SampleInBytes
  <2>3. /\ CSampleFields \in Seq(FieldSet) /\ PySampleFields \in Seq(FieldSet)
        /\ SameTypes(CSampleFields, PySampleFields)
    BY SampleLayouts
  <2> HIDE DEF page, B, n
  <2>4. page(p).ints = Laid(CSampleFields, SampleValues(from + p - 1))
    BY <2>1, <2>2
  <2> QED BY <2>3, <2>4, UnpackLaid DEF FieldSet, PySample, SampleObject
<1>5. Samples(B) = [p \in DOMAIN pages |-> Unpack(PySample, pages[p])]
  BY DEF Samples
<1> HIDE DEF B, n, page, pages
<1>6. Samples(B) = [p \in 1 .. n |-> SampleObject(from + p - 1)]
  BY <1>3, <1>4, <1>5
<1> QED BY <1>6 DEF B, n

LEMMA ReadableBody ==
  ASSUME NEW state \in States, NEW from \in Int, NEW to \in Int, to >= from - 1
  PROVE  Readable(Body(state, from, to))
<1> DEFINE B == Body(state, from, to)
           x == TypeValue(MessageType.TELEMETRY)
<1>1. Type(B) = x
  BY TypeOfBody
<1>2. x \in {TypeValue(t) : t \in Range(MessageType)}
  BY DEF Range, MessageType
<1>3. B.size >= PyTelemetry.size
  <2>1. HeadSize \in Nat /\ SampleSize \in Nat /\ to - from + 1 \in Nat
    BY Sizes
  <2>2. (to - from + 1) * SampleSize \in Nat
    BY <2>1
  <2>3. B.size = HeadSize + (to - from + 1) * SampleSize
    BY DEF Body
  <2> QED BY <2>1, <2>2, <2>3, Sizes
<1>4. state \in StateEnum
  BY WireAssumption
<1> HIDE DEF B, x
<1>5. Get(Unpack(PyTelemetry, TelemetryHead(B)), <<"state", "state">>)[3] = state
  BY ReadHead DEF B
<1>6. Readable(B)
  BY <1>1, <1>2, <1>3, <1>4, <1>5 DEF Readable, x
<1> QED BY <1>6 DEF B

LEMMA MovedTwice ==
  ASSUME NEW x, x.at \in Int, NEW a \in Int, NEW b \in Int
  PROVE  Moved(Moved(x, a), b) = Moved(x, a + b)
<1>1. (x.at + a) + b = x.at + (a + b)
  OBVIOUS
<1> QED BY <1>1 DEF Moved

(* A header alone is a message without samples.                            *)
LEMMA HeadIsBody ==
  ASSUME NEW state, NEW from \in Int
  PROVE  Concat(Empty, HeadBytes(state)) = Body(state, from, from - 1)
<1> DEFINE I == HeadBytes(state).ints
           C == Concat(Empty, HeadBytes(state))
           B == Body(state, from, from - 1)
<1>1. C = [size |-> C.size, ints |-> C.ints] /\ B = [size |-> B.size, ints |-> B.ints]
  BY DEF Concat, Body
<1>2. C.size = B.size
  <2>1. HeadBytes(state).size = HeadSize
    BY HeadInBytes DEF HeadSize
  <2>2. HeadSize \in Nat /\ SampleSize \in Nat
    BY Sizes
  <2>3. C.size = 0 + HeadSize
    BY <2>1 DEF Concat, Empty
  <2>4. B.size = HeadSize + ((from - 1) - from + 1) * SampleSize
    BY DEF Body
  <2>5. (from - 1) - from + 1 = 0 /\ 0 * SampleSize = 0
    BY <2>2
  <2> HIDE DEF C, B
  <2> QED BY <2>2, <2>3, <2>4, <2>5
<1>3. \A y : y \in C.ints <=> \E x \in I : y = Moved(x, 0)
  <2>1. C.ints = {} \union Behind(I, 0)
    BY DEF Concat, Empty
  <2> QED BY <2>1, InBehind
<1>4. \A x \in I : Moved(x, 0) = x
  <2> TAKE x \in I
  <2>1. x = Int3(x) /\ x.at \in Nat
    BY HeadInts
  <2> QED BY <2>1 DEF Moved, Int3
<1>5. \A y : y \in B.ints <=> y \in I
  <2>1. from .. from - 1 = {}
    OBVIOUS
  <2> QED BY <2>1, InBody
<1> HIDE DEF I, C, B
<1>6. C.ints = B.ints
  BY <1>3, <1>4, <1>5
<1>7. C = B
  BY <1>1, <1>2, <1>6
<1> QED BY <1>7 DEF C, B

(* Samples that follow on a message continue it.                           *)
LEMMA BodyContinues ==
  ASSUME NEW state, NEW from \in Int, NEW m \in Int, NEW to \in Int, m >= from - 1, to >= m
  PROVE  Concat(Body(state, from, m), BufferBytes(m + 1, to)) = Body(state, from, to)
<1> DEFINE A == Body(state, from, m)
           D == BufferBytes(m + 1, to)
           C == Concat(A, D)
           B == Body(state, from, to)
           I == HeadBytes(state).ints
<1>1. C = [size |-> C.size, ints |-> C.ints] /\ B = [size |-> B.size, ints |-> B.ints]
  BY DEF Concat, Body
<1>2. HeadSize \in Nat /\ SampleSize \in Nat /\ CSample.size = SampleSize
  BY Sizes
<1>3. A.size = HeadSize + (m - from + 1) * SampleSize
  BY DEF Body
<1>4. C.size = B.size
  <2>1. D.size = (to - (m + 1) + 1) * SampleSize
    BY <1>2 DEF BufferBytes
  <2>2. C.size = A.size + D.size
    BY DEF Concat
  <2>3. B.size = HeadSize + (to - from + 1) * SampleSize
    BY DEF Body
  <2>4. (to - from + 1) * SampleSize
          = (m - from + 1) * SampleSize + (to - (m + 1) + 1) * SampleSize
    BY <1>2
  <2>5. (m - from + 1) * SampleSize \in Int /\ (to - (m + 1) + 1) * SampleSize \in Int
    BY <1>2
  <2> HIDE DEF A, B, C, D
  <2> QED BY <1>2, <1>3, <2>1, <2>2, <2>3, <2>4, <2>5
<1>5. \A y : y \in A.ints <=>
        y \in I \/ \E t \in from .. m : \E x \in SampleBytes(t).ints :
                   y = Moved(x, HeadSize + (t - from) * SampleSize)
  BY InBody
<1>6. \A y : y \in B.ints <=>
        y \in I \/ \E t \in from .. to : \E x \in SampleBytes(t).ints :
                   y = Moved(x, HeadSize + (t - from) * SampleSize)
  BY InBody
<1>7. \A z : z \in D.ints <=>
        \E t \in m + 1 .. to : \E x \in SampleBytes(t).ints :
          z = Moved(x, (t - (m + 1)) * SampleSize)
  <2>1. D.ints = UNION {Behind(SampleBytes(t).ints, (t - (m + 1)) * SampleSize) : t \in m + 1 .. to}
    BY <1>2 DEF BufferBytes
  <2> HIDE DEF D
  <2>2. \A z : z \in D.ints <=>
          \E t \in m + 1 .. to : z \in Behind(SampleBytes(t).ints, (t - (m + 1)) * SampleSize)
    BY <2>1
  <2> QED BY <2>2, InBehind
<1>8. \A y : y \in C.ints <=> y \in A.ints \/ \E z \in D.ints : y = Moved(z, A.size)
  <2>1. C.ints = A.ints \union Behind(D.ints, A.size)
    BY DEF Concat
  <2> HIDE DEF A, C, D
  <2> QED BY <2>1, InBehind
<1>9. ASSUME NEW t \in m + 1 .. to, NEW x \in SampleBytes(t).ints
      PROVE  Moved(Moved(x, (t - (m + 1)) * SampleSize), A.size)
               = Moved(x, HeadSize + (t - from) * SampleSize)
  <2>1. x.at \in Int
    BY SampleInts
  <2>2. /\ (t - (m + 1)) * SampleSize \in Int /\ (m - from + 1) * SampleSize \in Int
        /\ (t - from) * SampleSize
             = (t - (m + 1)) * SampleSize + (m - from + 1) * SampleSize
    BY <1>2
  <2> DEFINE p == (t - (m + 1)) * SampleSize
             q == (m - from + 1) * SampleSize
             r == (t - from) * SampleSize
  <2> HIDE DEF A
  <2>3. p \in Int /\ q \in Int /\ r = p + q /\ A.size = HeadSize + q
    BY <1>3, <2>2
  <2> HIDE DEF p, q, r
  <2>4. A.size \in Int /\ p + A.size = HeadSize + r
    BY <1>2, <2>3
  <2>5. Moved(Moved(x, p), A.size) = Moved(x, HeadSize + r)
    BY <2>1, <2>3, <2>4, MovedTwice
  <2> QED BY <2>5 DEF p, r
<1> HIDE DEF A, B, C, D, I
<1>10. ASSUME NEW y \in C.ints PROVE y \in B.ints
  <2>1. CASE y \in A.ints
    <3>1. \A t \in from .. m : t \in from .. to
      OBVIOUS
    <3> QED BY <1>5, <1>6, <2>1, <3>1
  <2>2. CASE y \notin A.ints
    <3>1. PICK z \in D.ints : y = Moved(z, A.size)
      BY <1>8, <2>2
    <3>2. PICK t \in m + 1 .. to : \E x \in SampleBytes(t).ints :
                 z = Moved(x, (t - (m + 1)) * SampleSize)
      BY <1>7
    <3>3. PICK x \in SampleBytes(t).ints : z = Moved(x, (t - (m + 1)) * SampleSize)
      BY <3>2
    <3>4. y = Moved(x, HeadSize + (t - from) * SampleSize)
      BY <1>9, <3>1, <3>3
    <3>5. t \in from .. to
      OBVIOUS
    <3> QED BY <1>6, <3>4, <3>5
  <2> QED BY <2>1, <2>2
<1>11. ASSUME NEW y \in B.ints PROVE y \in C.ints
  <2>1. CASE y \in I
    BY <1>5, <1>8, <2>1
  <2>2. CASE y \notin I
    <3>1. PICK t \in from .. to : \E x \in SampleBytes(t).ints :
                 y = Moved(x, HeadSize + (t - from) * SampleSize)
      BY <1>6, <2>2
    <3>2. PICK x \in SampleBytes(t).ints : y = Moved(x, HeadSize + (t - from) * SampleSize)
      BY <3>1
    <3>3. CASE t <= m
      <4>1. t \in from .. m
        BY <3>3
      <4> QED BY <1>5, <1>8, <3>2, <4>1
    <3>4. CASE ~ (t <= m)
      <4>1. t \in m + 1 .. to
        BY <3>4
      <4> DEFINE z == Moved(x, (t - (m + 1)) * SampleSize)
      <4>2. z \in D.ints
        BY <1>7, <4>1
      <4>3. y = Moved(z, A.size)
        BY <1>9, <3>2, <4>1
      <4> HIDE DEF z
      <4> QED BY <1>8, <4>2, <4>3
    <3> QED BY <3>3, <3>4
  <2> QED BY <2>1, <2>2
<1>12. C.ints = B.ints
  BY <1>10, <1>11
<1>13. C = B
  BY <1>1, <1>4, <1>12
<1> QED BY <1>13 DEF A, B, C, D

(* A message of one, two or three frames.                                  *)
LEMMA BytesOf ==
  ASSUME NEW parts, Len(parts) \in 1 .. 3
  PROVE  LET b(i) == Carried(parts[i])
         IN  /\ Len(parts) = 1 => Bytes(parts) = Concat(Empty, b(1))
             /\ Len(parts) = 2 => Bytes(parts) = Concat(Concat(Empty, b(1)), b(2))
             /\ Len(parts) = 3 => Bytes(parts) = Concat(Concat(Concat(Empty, b(1)), b(2)), b(3))
<1> DEFINE n == Len(parts)
           b(i) == Carried(parts[i])
           b1 == Concat(Empty, b(1))
           b2 == Concat(b1, b(2))
           b3 == Concat(b2, b(3))
           Def(u) == [k \in 0 .. n |-> IF k = 0 THEN Empty ELSE Concat(u[k - 1], b(k))]
           g == [k \in 0 .. n |-> IF k = 0 THEN Empty ELSE IF k = 1 THEN b1
                                  ELSE IF k = 2 THEN b2 ELSE b3]
           o == CHOOSE u : u = Def(u)
<1>1. Bytes(parts) = o[n]
  BY DEF Bytes
<1> HIDE DEF b, n
<1>2. n \in 1 .. 3
  BY DEF n
<1>3. g = Def(g)
  <2>1. \A k \in 0 .. n : g[k] = Def(g)[k]
    <3> TAKE k \in 0 .. n
    <3>1. k \in {0, 1, 2, 3} /\ (k # 0 => k - 1 \in 0 .. n)
      BY <1>2
    <3>2. CASE k = 0
      BY <3>2
    <3>3. CASE k = 1
      BY <1>2, <3>3
    <3>4. CASE k = 2
      BY <1>2, <3>4
    <3>5. CASE k = 3
      BY <1>2, <3>5
    <3> QED BY <3>1, <3>2, <3>3, <3>4, <3>5
  <2> QED BY <2>1
<1>4. o = Def(o)
  <2> HIDE DEF Def, g
  <2> QED BY <1>3
<1> HIDE DEF o, g
<1>5. o[0] = Empty /\ \A k \in 1 .. n : o[k] = Concat(o[k - 1], b(k))
  BY <1>2, <1>4
<1>6. n = 1 => o[n] = b1
  BY <1>2, <1>5
<1>7. n = 2 => o[n] = b2
  BY <1>2, <1>5
<1>8. n = 3 => o[n] = b3
  BY <1>2, <1>5
<1> QED BY <1>1, <1>6, <1>7, <1>8 DEF n, b

-----------------------------------------------------------------------------
(* What is stored of a message.                                            *)

SampleMetric(t, i) ==
  Metric(<<"kiln">> \o PySampleFields[i].name, SampleTime(t), <<"Sample", CSampleFields[i].name, t>>)

(* Series: a name in the metrics server, and the field that it is of.      *)
Row(m) == <<m.name, <<m.value[1], m.value[2]>> >>

SampleRows ==
  {<< <<"kiln">> \o PySampleFields[i].name, <<"Sample", CSampleFields[i].name>> >> : i \in 1 .. 13}

HeadRows ==
  { << <<"kiln", "telemetry", "time_delta">>, <<"Service", <<"delta">> >> >>,
    << <<"kiln", "info">>, <<"Service", <<"info">> >> >>,
    << <<"kiln", "telemetry">>, <<"Message", <<"message_type">> >> >>,
    << <<"kiln", "telemetry", "timestamp_ms">>, <<"Telemetry", <<"timestamp">> >> >>,
    << <<"kiln", "telemetry", "uptime">>, <<"Telemetry", <<"uptime">> >> >>,
    << <<"kiln", "telemetry", "state">>, <<"Telemetry", <<"state">> >> >>,
    << <<"kiln", "telemetry", "sample_count">>, <<"Telemetry", <<"sample_count">> >> >> }

LEMMA MetricsOf ==
  ASSUME NEW prefix, NEW G, NEW v, NEW time, NEW m
  PROVE  m \in MetricsFor(prefix, Object(G, v), time) <=>
           \E i \in 1 .. Len(G) : m = Metric(MetricName(prefix, G[i].name), time, v[i])
<1>1. ASSUME NEW i \in 1 .. Len(G), m = Metric(MetricName(prefix, G[i].name), time, v[i])
      PROVE  m \in MetricsFor(prefix, Object(G, v), time)
  <2> DEFINE f == [name |-> G[i].name, value |-> v[i]]
  <2>1. f \in Object(G, v) /\ f.name = G[i].name /\ f.value = v[i]
    BY DEF Object
  <2> HIDE DEF f
  <2>2. m = Metric(MetricName(prefix, f.name), time, f.value)
    BY <1>1, <2>1
  <2> QED BY <2>1, <2>2 DEF MetricsFor
<1>2. ASSUME m \in MetricsFor(prefix, Object(G, v), time)
      PROVE  \E i \in 1 .. Len(G) : m = Metric(MetricName(prefix, G[i].name), time, v[i])
  <2>1. PICK f \in Object(G, v) : m = Metric(MetricName(prefix, f.name), time, f.value)
    BY <1>2 DEF MetricsFor
  <2>2. PICK i \in 1 .. Len(G) : f = [name |-> G[i].name, value |-> v[i]]
    BY DEF Object
  <2>3. f.name = G[i].name /\ f.value = v[i]
    BY <2>2
  <2> QED BY <2>1, <2>3
<1> QED BY <1>1, <1>2

LEMMA SampleMetricsOf ==
  ASSUME NEW t, NEW m
  PROVE  m \in MetricsFor(<<"kiln">>, SampleObject(t), SampleTime(t)) <=>
           \E i \in 1 .. 13 : m = SampleMetric(t, i)
<1> DEFINE G == PySampleFields
           v == SampleValues(t)
           T == SampleTime(t)
<1>1. m \in MetricsFor(<<"kiln">>, SampleObject(t), SampleTime(t)) <=>
        \E i \in 1 .. Len(G) : m = Metric(MetricName(<<"kiln">>, G[i].name), T, v[i])
  BY MetricsOf DEF SampleObject
<1>2. Len(G) = 13
  BY SampleLayouts
<1>3. ASSUME NEW i \in 1 .. 13
      PROVE  Metric(MetricName(<<"kiln">>, G[i].name), T, v[i]) = SampleMetric(t, i)
  <2>1. G[i].name \in Names(G)
    BY <1>2 DEF Names
  <2>2. G[i].name \notin EnumFields
    BY <2>1, SampleLayouts
  <2>3. MetricName(<<"kiln">>, G[i].name) = <<"kiln">> \o G[i].name
    BY <2>2 DEF MetricName
  <2>4. v[i] = <<"Sample", CSampleFields[i].name, t>>
    BY DEF SampleValues
  <2> QED BY <2>3, <2>4 DEF SampleMetric
<1> HIDE DEF G, v, T
<1> QED BY <1>1, <1>2, <1>3

LEMMA Fronts == Front(<<"message_type">>) = << >> /\ Front(<<"state", "state">>) = <<"state">>
<1>1. Front(<<"message_type">>) = << >>
  <2>1. Len(<<"message_type">>) - 1 = 0
    OBVIOUS
  <2> QED BY <2>1, SubSeqEmpty DEF Front
<1>2. Front(<<"state", "state">>) = <<"state">>
  <2> DEFINE s == <<"state", "state">>
             r == SubSeq(s, 1, 1)
  <2>1. Front(s) = r
    <3>1. Len(s) - 1 = 1
      OBVIOUS
    <3> QED BY <3>1 DEF Front
  <2>2. "state" \in Words
    BY DEF Words
  <2>3. \A i \in 1 .. 1 : s[i] \in Words
    BY <2>2
  <2>4. s[1] = "state"
    OBVIOUS
  <2> HIDE DEF s
  <2>5. r \in Seq(Words) /\ Len(r) = 1
    BY <2>3, SubSeqProperties
  <2>6. r[1] = s[1]
    <3>1. \A i \in 1 .. 1 - 1 + 1 : r[i] = s[1 + i - 1]
      BY <2>3, SubSeqProperties
    <3> QED BY <3>1
  <2> HIDE DEF r
  <2>7. r = <<"state">>
    <3>1. <<"state">> \in Seq(Words) /\ Len(<<"state">>) = 1 /\ <<"state">>[1] = "state"
      BY <2>2
    <3>2. \A i \in 1 .. Len(r) : r[i] = <<"state">>[i]
      BY <2>4, <2>5, <2>6
    <3> QED BY <2>5, <3>1, <3>2, SeqEqual
  <2> QED BY <2>1, <2>7 DEF s
<1> QED BY <1>1, <1>2

LEMMA HeadNames ==
  LET name(i) == MetricName(<<"kiln", "telemetry">>, PyTelemetryFields[i].name)
  IN  /\ name(1) = <<"kiln", "telemetry">> /\ name(2) = <<"kiln", "telemetry", "timestamp_ms">>
      /\ name(3) = <<"kiln", "telemetry", "uptime">> /\ name(4) = <<"kiln", "telemetry", "state">>
      /\ name(5) = <<"kiln", "telemetry", "sample_count">>
<1>1. \A w \in {"kiln", "telemetry", "timestamp_ms", "uptime", "state", "sample_count"} : w \in Words
  BY DEF Words
<1>2. MetricName(<<"kiln", "telemetry">>, <<"message_type">>) = <<"kiln", "telemetry">>
  <2>1. <<"kiln", "telemetry">> \o << >> = <<"kiln", "telemetry">>
    BY <1>1, TwoNone
  <2> QED BY <2>1, Fronts DEF MetricName, EnumFields
<1>3. MetricName(<<"kiln", "telemetry">>, <<"state", "state">>) = <<"kiln", "telemetry", "state">>
  <2>1. <<"kiln", "telemetry">> \o <<"state">> = <<"kiln", "telemetry", "state">>
    BY <1>1, TwoOne
  <2> QED BY <2>1, Fronts DEF MetricName, EnumFields
<1>4. ASSUME NEW w \in {"timestamp_ms", "uptime", "sample_count"}
      PROVE  MetricName(<<"kiln", "telemetry">>, <<w>>) = <<"kiln", "telemetry", w>>
  <2>1. <<"kiln", "telemetry">> \o <<w>> = <<"kiln", "telemetry", w>>
    BY <1>1, TwoOne
  <2>2. <<w>> \notin EnumFields
    BY DEF EnumFields
  <2> QED BY <2>1, <2>2 DEF MetricName
<1>5. /\ PyTelemetryFields[1].name = <<"message_type">> /\ PyTelemetryFields[2].name = <<"timestamp_ms">>
      /\ PyTelemetryFields[3].name = <<"uptime">> /\ PyTelemetryFields[4].name = <<"state", "state">>
      /\ PyTelemetryFields[5].name = <<"sample_count">>
  BY HeadLayouts
<1> QED BY <1>2, <1>3, <1>4, <1>5

LEMMA HeadMetricsOf ==
  ASSUME NEW state, NEW m \in MetricsFor(<<"kiln", "telemetry">>, HeadObject(state), HeadTime)
  PROVE  m.time = HeadTime /\ Row(m) \in HeadRows
<1> DEFINE G == PyTelemetryFields
           v == HeadValues(state)
           name(i) == MetricName(<<"kiln", "telemetry">>, G[i].name)
<1>1. PICK i \in 1 .. Len(G) : m = Metric(name(i), HeadTime, v[i])
  BY MetricsOf DEF HeadObject
<1>2. Len(G) = 5
  BY HeadLayouts
<1>3. m.name = name(i) /\ m.time = HeadTime /\ m.value = v[i]
  BY <1>1 DEF Metric
<1>4. /\ <<v[1][1], v[1][2]>> = <<"Message", <<"message_type">> >>
      /\ <<v[2][1], v[2][2]>> = <<"Telemetry", <<"timestamp">> >>
      /\ <<v[3][1], v[3][2]>> = <<"Telemetry", <<"uptime">> >>
      /\ <<v[4][1], v[4][2]>> = <<"Telemetry", <<"state">> >>
      /\ <<v[5][1], v[5][2]>> = <<"Telemetry", <<"sample_count">> >>
  BY DEF HeadValues, TypeValue
<1>5. /\ name(1) = <<"kiln", "telemetry">> /\ name(2) = <<"kiln", "telemetry", "timestamp_ms">>
      /\ name(3) = <<"kiln", "telemetry", "uptime">> /\ name(4) = <<"kiln", "telemetry", "state">>
      /\ name(5) = <<"kiln", "telemetry", "sample_count">>
  BY HeadNames
<1> HIDE DEF name, v, G
<1>6. \A j \in 1 .. 5 : <<name(j), <<v[j][1], v[j][2]>> >> \in HeadRows
  <2>1. 1 .. 5 = {1, 2, 3, 4, 5}
    OBVIOUS
  <2> QED BY <1>4, <1>5, <2>1 DEF HeadRows
<1>7. Row(m) = <<name(i), <<v[i][1], v[i][2]>> >>
  BY <1>3 DEF Row
<1> QED BY <1>2, <1>3, <1>6, <1>7

(* What is PUT for the message with the samples from .. to.                *)
LEMMA ReportOf ==
  ASSUME NEW state, NEW from \in Int, NEW to \in Int, to >= from - 1
  PROVE  LET R == Report(Body(state, from, to))
         IN  /\ \A m \in R : \/ m.time = HeadTime /\ Row(m) \in HeadRows
                            \/ \E t \in from .. to : \E i \in 1 .. 13 : m = SampleMetric(t, i)
             /\ \A t \in from .. to : \A i \in 1 .. 13 : SampleMetric(t, i) \in R
<1> DEFINE B == Body(state, from, to)
           D == Metric(<<"kiln", "telemetry", "time_delta">>, HeadTime, <<"Service", <<"delta">>, 0>>)
           I == Metric(<<"kiln", "info">>, HeadTime, <<"Service", <<"info">>, 0>>)
           M == MetricsFor(<<"kiln", "telemetry">>, HeadObject(state), HeadTime)
           n == to - from + 1
           samples == Samples(B)
           now == HeadTime
           P(t) == MetricsFor(<<"kiln">>, SampleObject(t), SampleTime(t))
<1>1. Unpack(PyTelemetry, TelemetryHead(B)) = HeadObject(state)
      /\ Get(HeadObject(state), <<"timestamp_ms">>) = HeadStamp
  BY ReadHead
<1>2. samples = [i \in 1 .. n |-> SampleObject(from + i - 1)] /\ n \in Nat
  BY ReadSamples
<1>3. Report(B) = {D, I} \union M \union SampleMetrics(samples, now)
  <2> HIDE DEF B, M
  <2> QED BY <1>1 DEF Report, M, now, HeadTime
<1>4. \A m : m \in SampleMetrics(samples, now) <=> \E t \in from .. to : m \in P(t)
  <2>1. SampleMetrics(samples, now)
          = UNION {MetricsFor(<<"kiln">>, samples[i], Get(samples[i], <<"timestamp">>)) :
                   i \in DOMAIN samples}
    BY DEF SampleMetrics
  <2>2. DOMAIN samples = 1 .. n
    <3> HIDE DEF samples
    <3> QED BY <1>2
  <2>3. ASSUME NEW i \in 1 .. n
        PROVE  MetricsFor(<<"kiln">>, samples[i], Get(samples[i], <<"timestamp">>)) = P(from + i - 1)
    <3>1. samples[i] = SampleObject(from + i - 1)
      <4> HIDE DEF samples, n
      <4> QED BY <1>2
    <3> HIDE DEF samples
    <3> QED BY <3>1, TimeOfSample
  <2>4. ASSUME NEW m, NEW t \in from .. to, m \in P(t) PROVE m \in SampleMetrics(samples, now)
    <3>1. t - from + 1 \in 1 .. n /\ from + (t - from + 1) - 1 = t
      OBVIOUS
    <3> DEFINE i == t - from + 1
    <3>2. i \in 1 .. n /\ P(from + i - 1) = P(t)
      BY <3>1
    <3> HIDE DEF i, n, samples, P
    <3> QED BY <2>1, <2>2, <2>3, <2>4, <3>2
  <2>5. ASSUME NEW m, m \in SampleMetrics(samples, now) PROVE \E t \in from .. to : m \in P(t)
    <3> HIDE DEF P, samples
    <3>1. PICK i \in 1 .. n : m \in P(from + i - 1)
      <4> HIDE DEF n
      <4> QED BY <2>1, <2>2, <2>3, <2>5
    <3>2. from + i - 1 \in from .. to
      OBVIOUS
    <3> QED BY <3>1, <3>2
  <2> HIDE DEF P, samples
  <2> QED BY <2>4, <2>5
<1>5. D.time = HeadTime /\ Row(D) \in HeadRows /\ I.time = HeadTime /\ Row(I) \in HeadRows
  <2>1. /\ D.name = <<"kiln", "telemetry", "time_delta">> /\ D.time = HeadTime
        /\ D.value[1] = "Service" /\ D.value[2] = <<"delta">>
    BY DEF Metric
  <2>2. I.name = <<"kiln", "info">> /\ I.time = HeadTime
        /\ I.value[1] = "Service" /\ I.value[2] = <<"info">>
    BY DEF Metric
  <2> HIDE DEF D, I
  <2> QED BY <2>1, <2>2 DEF Row, HeadRows
<1>6. \A m \in M : m.time = HeadTime /\ Row(m) \in HeadRows
  BY HeadMetricsOf
<1>7. \A t, m : m \in P(t) <=> \E i \in 1 .. 13 : m = SampleMetric(t, i)
  BY SampleMetricsOf
<1> HIDE DEF B, D, I, M, samples, now, P, n
<1>8. ASSUME NEW m \in Report(B)
      PROVE  \/ m.time = HeadTime /\ Row(m) \in HeadRows
             \/ \E t \in from .. to : \E i \in 1 .. 13 : m = SampleMetric(t, i)
  BY <1>3, <1>4, <1>5, <1>6, <1>7
<1>9. ASSUME NEW t \in from .. to, NEW i \in 1 .. 13 PROVE SampleMetric(t, i) \in Report(B)
  BY <1>3, <1>4, <1>7
<1> QED BY <1>8, <1>9 DEF B

(* No two fields have one name, and no field two names.                    *)
LEMMA RowsAreOneToOne ==
  \A s, t \in SampleRows \union HeadRows : s[1] = t[1] <=> s[2] = t[2]
<1>1. /\ PySampleFields \in Seq(FieldSet) /\ Len(PySampleFields) = 13 /\ Distinct(PySampleFields)
      /\ CSampleFields \in Seq(FieldSet) /\ Len(CSampleFields) = 13 /\ Distinct(CSampleFields)
  BY SampleLayouts
<1> DEFINE py(i) == PySampleFields[i].name
           c(i) == CSampleFields[i].name
<1>2. ASSUME NEW i \in 1 .. 13
      PROVE  py(i) \in Seq(Words) /\ py(i)[1] \notin {"telemetry", "info"} /\ py(i) # << >>
  <2>1. py(i) \in Names(PySampleFields)
    BY <1>1 DEF Names
  <2>2. py(i) \in Seq(Words)
    BY <1>1, <2>1, NamesOfWords
  <2>3. py(i)[1] \notin {"telemetry", "info"}
    BY <2>1, SampleLayouts
  <2>4. py(i) # << >>
    BY <2>1, SampleLayouts
  <2> QED BY <2>2, <2>3, <2>4
<1>3. "kiln" \in Words
  BY DEF Words
<1> HIDE DEF py, c
<1>4. ASSUME NEW s \in SampleRows
      PROVE  \E i \in 1 .. 13 : s[1] = <<"kiln">> \o py(i) /\ s[2] = <<"Sample", c(i)>>
  <2>1. PICK i \in 1 .. 13 : s = << <<"kiln">> \o py(i), <<"Sample", c(i)>> >>
    BY DEF SampleRows, py, c
  <2>2. s[1] = <<"kiln">> \o py(i) /\ s[2] = <<"Sample", c(i)>>
    BY <2>1
  <2> QED BY <2>2
<1>5. ASSUME NEW i \in 1 .. 13, NEW j \in 1 .. 13
      PROVE  <<"kiln">> \o py(i) = <<"kiln">> \o py(j) <=> <<"Sample", c(i)>> = <<"Sample", c(j)>>
  <2>1. <<"kiln">> \o py(i) = <<"kiln">> \o py(j) => py(i) = py(j)
    BY <1>2, <1>3, SamePrefix
  <2>2. py(i) = py(j) => i = j
    BY <1>1 DEF Distinct, py
  <2>3. c(i) = c(j) => i = j
    BY <1>1 DEF Distinct, c
  <2>4. <<"Sample", c(i)>> = <<"Sample", c(j)>> => c(i) = c(j)
    OBVIOUS
  <2> QED BY <2>1, <2>2, <2>3, <2>4
<1>6. ASSUME NEW s \in SampleRows, NEW t \in SampleRows PROVE s[1] = t[1] <=> s[2] = t[2]
  <2>1. PICK i \in 1 .. 13 : s[1] = <<"kiln">> \o py(i) /\ s[2] = <<"Sample", c(i)>>
    BY <1>4
  <2>2. PICK j \in 1 .. 13 : t[1] = <<"kiln">> \o py(j) /\ t[2] = <<"Sample", c(j)>>
    BY <1>4
  <2> QED BY <1>5, <2>1, <2>2
<1>7. ASSUME NEW s \in SampleRows, NEW t \in HeadRows PROVE s[1] # t[1] /\ s[2] # t[2]
  <2>1. PICK i \in 1 .. 13 : s[1] = <<"kiln">> \o py(i) /\ s[2] = <<"Sample", c(i)>>
    BY <1>4
  <2>2. s[2][1] = "Sample" /\ t[2][1] # "Sample"
    BY <2>1 DEF HeadRows
  <2>3. t[1][2] \in {"telemetry", "info"}
    BY DEF HeadRows
  <2>4. s[1][2] = py(i)[1]
    <3>1. py(i) \in Seq(Words) /\ Len(py(i)) \in Nat /\ Len(py(i)) # 0
      BY <1>2, EmptySeq
    <3>2. 1 \in 1 .. Len(py(i))
      BY <3>1
    <3>3. (<<"kiln">> \o py(i))[1 + 1] = py(i)[1]
      BY <1>2, <1>3, <3>2, Prefixed
    <3>4. (<<"kiln">> \o py(i))[2] = py(i)[1]
      <4>1. 1 + 1 = 2
        OBVIOUS
      <4> QED BY <3>3, <4>1
    <3> QED BY <2>1, <3>4
  <2> QED BY <1>2, <2>2, <2>3, <2>4
<1>8. ASSUME NEW s \in HeadRows, NEW t \in HeadRows PROVE s[1] = t[1] <=> s[2] = t[2]
  BY DEF HeadRows
<1> QED BY <1>6, <1>7, <1>8

-----------------------------------------------------------------------------
(* The invariant.  db is what is stored, o the oldest sample in the ring,  *)
(* n the newest.                                                           *)

(* The samples o .. u are stored, every field of them.                     *)
StoredFrom(db, o, u) ==
  \A t \in o .. u, f \in CSample.ints :
    \E m \in db : /\ m.value = <<"Sample", f.name, t>>
                  /\ m.time  = <<"Sample", <<"timestamp">>, t>>

HeadParts == [kind : {"head"}, state : States]

SampleParts(n) == {p \in [kind : {"samples"}, from : 1 .. n, to : 1 .. n] : p.from <= p.to}

FrameSet(n) ==
  [op : {"binary"}, part : HeadParts, fin : BOOLEAN]
  \union [op : {"continuation"}, part : SampleParts(n), fin : BOOLEAN]

(* Frame b comes after frame a.  The first frame of samples begins with    *)
(* what was the oldest sample then.                                        *)
Follows(o, a, b) ==
  /\ a.fin => b.op = "binary"
  /\ ~ a.fin => /\ b.op = "continuation"
                /\ a.op = "binary" => b.part.from \in 1 .. o
                /\ a.op = "continuation" => b.part.from = a.part.to + 1 /\ b.fin

FramesOK(o, n, fs) ==
  /\ fs \in Seq(FrameSet(n))
  /\ \A i \in 1 .. Len(fs) - 1 : Follows(o, fs[i], fs[i + 1])
  /\ fs # << >> => fs[Len(fs)].fin

(* The parts of a message: a header and at most two pieces of the ring.    *)
PartsOK(o, n, parts) ==
  /\ Len(parts) \in 1 .. 3
  /\ parts[1] \in HeadParts
  /\ \A i \in 2 .. Len(parts) : parts[i] \in SampleParts(n)
  /\ Len(parts) >= 2 => parts[2].from \in 1 .. o
  /\ Len(parts) = 3 => parts[3].from = parts[2].to + 1

Continues(o, parts, f) ==
  /\ f.op = "continuation" /\ Len(parts) <= 2
  /\ Len(parts) = 1 => f.part.from \in 1 .. o
  /\ Len(parts) = 2 => f.part.from = parts[2].to + 1 /\ f.fin

MessageOK(o, n, fs, msg) ==
  /\ msg \in [parts : Seq(HeadParts \union SampleParts(n)), open : BOOLEAN, whole : BOOLEAN]
  /\ ~ (msg.open /\ msg.whole)
  /\ msg.open \/ msg.whole => PartsOK(o, n, msg.parts)
  /\ ~ msg.open /\ ~ msg.whole => msg = NoMessage
  /\ msg.open => fs # << >> /\ Continues(o, msg.parts, fs[1])
  /\ ~ msg.open /\ fs # << >> => fs[1].op = "binary"

(* The service acknowledges what is stored, with all the ring has before.  *)
Answers(db, o, n) ==
  {SetTimeBytes}
  \union {AckBytes(SampleTime(t)) : t \in {u \in 1 .. n : StoredFrom(db, o, u)}}

Kept(db, n) ==
  \A m \in db : \/ m.time = HeadTime /\ Row(m) \in HeadRows
               \/ \E t \in 1 .. n : \E i \in 1 .. 13 : m = SampleMetric(t, i)

Grows(s) == \A i, j \in 1 .. Len(s) : i < j => s[i] < s[j]

(* The ring, and its samples' timestamps.                                  *)
RingOK ==
  /\ times \in Seq(Nat) /\ Grows(times) /\ closed <= MaxSamples
  /\ first \in 1 .. closed + 1 /\ closed - first + 1 < BufferSize

WireInv ==
  /\ RingOK
  /\ failures \in 0 .. MaxFailures
  /\ FramesOK(first, closed, frames) /\ Len(frames) <= MaxFrames
  /\ MessageOK(first, closed, frames, message)
  /\ replies \in Seq(Answers(stored, first, closed)) /\ Len(replies) <= MaxReplies + 1
  /\ Kept(stored, closed)
  /\ misread = FALSE

(* More samples, older ones that are gone, and more metrics leave all of   *)
(* it as it is.                                                            *)
LEMMA Grow ==
  ASSUME NEW db, NEW db2, db \subseteq db2, NEW n \in Nat, NEW n2 \in Nat, n <= n2,
         NEW o \in Nat, NEW o2 \in Nat, o <= o2
  PROVE  /\ \A u \in Int : StoredFrom(db, o, u) => StoredFrom(db2, o2, u)
         /\ FrameSet(n) \subseteq FrameSet(n2)
         /\ SampleParts(n) \subseteq SampleParts(n2)
         /\ \A fs : FramesOK(o, n, fs) => FramesOK(o2, n2, fs)
         /\ \A parts : PartsOK(o, n, parts) => PartsOK(o2, n2, parts)
         /\ \A fs, msg : MessageOK(o, n, fs, msg) => MessageOK(o2, n2, fs, msg)
         /\ Answers(db, o, n) \subseteq Answers(db2, o2, n2)
         /\ \A rs : rs \in Seq(Answers(db, o, n)) => rs \in Seq(Answers(db2, o2, n2))
<1>1. ASSUME NEW u \in Int, StoredFrom(db, o, u) PROVE StoredFrom(db2, o2, u)
  <2>1. o2 .. u \subseteq o .. u
    OBVIOUS
  <2> QED BY <1>1, <2>1 DEF StoredFrom
<1>2. SampleParts(n) \subseteq SampleParts(n2) /\ 1 .. o \subseteq 1 .. o2
  BY DEF SampleParts
<1>3. FrameSet(n) \subseteq FrameSet(n2)
  BY <1>2 DEF FrameSet
<1>4. \A a, b : Follows(o, a, b) => Follows(o2, a, b)
  BY <1>2 DEF Follows
<1>5. \A S, T, s : S \subseteq T /\ s \in Seq(S) => s \in Seq(T)
  OBVIOUS
<1>6. ASSUME NEW fs, FramesOK(o, n, fs) PROVE FramesOK(o2, n2, fs)
  <2>1. fs \in Seq(FrameSet(n2))
    BY <1>3, <1>5, <1>6 DEF FramesOK
  <2> QED BY <1>4, <1>6, <2>1 DEF FramesOK
<1>7. \A parts : PartsOK(o, n, parts) => PartsOK(o2, n2, parts)
  BY <1>2 DEF PartsOK
<1>8. \A parts, f : Continues(o, parts, f) => Continues(o2, parts, f)
  BY <1>2 DEF Continues
<1>9. ASSUME NEW fs, NEW msg, MessageOK(o, n, fs, msg) PROVE MessageOK(o2, n2, fs, msg)
  <2>1. Seq(HeadParts \union SampleParts(n)) \subseteq Seq(HeadParts \union SampleParts(n2))
    BY <1>2, <1>5
  <2>2. msg \in [parts : Seq(HeadParts \union SampleParts(n2)), open : BOOLEAN, whole : BOOLEAN]
    BY <1>9, <2>1 DEF MessageOK
  <2> QED BY <1>7, <1>8, <1>9, <2>2 DEF MessageOK
<1>10. Answers(db, o, n) \subseteq Answers(db2, o2, n2)
  <2>1. 1 .. n \subseteq 1 .. n2 /\ 1 .. n \subseteq Int
    OBVIOUS
  <2> QED BY <1>1, <2>1 DEF Answers
<1>11. \A rs : rs \in Seq(Answers(db, o, n)) => rs \in Seq(Answers(db2, o2, n2))
  BY <1>5, <1>10
<1> QED BY <1>1, <1>2, <1>3, <1>6, <1>7, <1>9, <1>10, <1>11

(* After a connection is made.                                             *)
LEMMA Fresh ==
  ASSUME NEW db, NEW o, NEW n
  PROVE  /\ FramesOK(o, n, << >>) /\ MessageOK(o, n, << >>, NoMessage)
         /\ << SetTimeBytes >> \in Seq(Answers(db, o, n)) /\ Len(<< SetTimeBytes >>) = 1
<1>1. FramesOK(o, n, << >>)
  BY DEF FramesOK
<1>2. MessageOK(o, n, << >>, NoMessage)
  BY DEF MessageOK, NoMessage
<1>3. SetTimeBytes \in Answers(db, o, n)
  BY DEF Answers
<1>4. << SetTimeBytes >> \in Seq(Answers(db, o, n)) /\ Len(<< SetTimeBytes >>) = 1
  BY <1>3
<1> QED BY <1>1, <1>2, <1>4

(* A message is a header and samples that follow on each other.            *)
LEMMA BodyOfParts ==
  ASSUME NEW o \in Nat \ {0}, NEW n \in Nat, NEW parts, PartsOK(o, n, parts)
  PROVE  \E state \in States, from \in Int, to \in Int :
           /\ Bytes(parts) = Body(state, from, to)
           /\ from \in 1 .. o /\ to >= from - 1 /\ to <= n
<1> DEFINE h == parts[1].state
<1>1. /\ Len(parts) \in 1 .. 3 /\ h \in States /\ Carried(parts[1]) = HeadBytes(h)
  BY DEF PartsOK, HeadParts, Carried
<1>2. ASSUME NEW i \in 2 .. Len(parts)
      PROVE  /\ parts[i].from \in 1 .. n /\ parts[i].to \in 1 .. n /\ parts[i].from <= parts[i].to
             /\ Carried(parts[i]) = BufferBytes(parts[i].from, parts[i].to)
  BY DEF PartsOK, SampleParts, Carried
<1> HIDE DEF h
<1>3. CASE Len(parts) = 1
  <2>1. Bytes(parts) = Concat(Empty, HeadBytes(h))
    BY <1>1, <1>3, BytesOf
  <2>2. Bytes(parts) = Body(h, 1, 1 - 1)
    BY <2>1, HeadIsBody
  <2>3. 1 \in 1 .. o
    OBVIOUS
  <2>4. 1 - 1 \in Int /\ 1 - 1 >= 1 - 1 /\ 1 - 1 <= n
    OBVIOUS
  <2> QED BY <1>1, <2>2, <2>3, <2>4
<1>4. CASE Len(parts) \in {2, 3}
  <2> DEFINE a == parts[2].from
             b == parts[2].to
  <2>1. /\ a \in 1 .. n /\ b \in 1 .. n /\ a <= b
        /\ Carried(parts[2]) = BufferBytes(a, b)
    BY <1>2, <1>4
  <2>2. a \in 1 .. o
    BY <1>4 DEF PartsOK
  <2> HIDE DEF a, b
  <2>3. Concat(Empty, HeadBytes(h)) = Body(h, a, a - 1)
    BY <2>1, HeadIsBody
  <2>4. Concat(Body(h, a, a - 1), BufferBytes(a, b)) = Body(h, a, b)
    <3>1. a - 1 \in Int /\ a - 1 >= a - 1 /\ b >= a - 1 /\ (a - 1) + 1 = a
      BY <2>1
    <3>2. Concat(Body(h, a, a - 1), BufferBytes((a - 1) + 1, b)) = Body(h, a, b)
      BY <2>1, <3>1, BodyContinues
    <3> QED BY <3>1, <3>2
  <2>5. CASE Len(parts) = 2
    <3>1. Bytes(parts) = Body(h, a, b)
      BY <1>1, <2>1, <2>3, <2>4, <2>5, BytesOf
    <3> QED BY <1>1, <2>1, <2>2, <3>1
  <2>6. CASE Len(parts) = 3
    <3> DEFINE c == parts[3].to
    <3>1. c \in 1 .. n /\ b + 1 <= c /\ Carried(parts[3]) = BufferBytes(b + 1, c)
      BY <1>2, <2>6 DEF PartsOK, b
    <3> HIDE DEF c
    <3>2. Concat(Body(h, a, b), BufferBytes(b + 1, c)) = Body(h, a, c)
      BY <2>1, <3>1, BodyContinues
    <3>3. Bytes(parts) = Body(h, a, c)
      BY <1>1, <2>1, <2>3, <2>4, <2>6, <3>1, <3>2, BytesOf
    <3>4. c \in Int /\ c >= a - 1 /\ c <= n
      BY <2>1, <3>1
    <3> QED BY <1>1, <2>1, <2>2, <3>3, <3>4
  <2> QED BY <1>4, <2>5, <2>6
<1> QED BY <1>1, <1>3, <1>4

-----------------------------------------------------------------------------
(* The steps.                                                              *)

(* What is sent: a header, and one or two pieces, or none.                 *)
LEMMA FramesSent ==
  ASSUME NEW n \in Nat, NEW f \in 1 .. n + 1,
         NEW state \in States, NEW w \in f .. n \union {n}
  PROVE  LET F == Frames(state, f, w, n)
         IN  FramesOK(f, n, F) /\ Len(F) \in 1 .. 3 /\ F[1].op = "binary"
<1> DEFINE F == Frames(state, f, w, n)
           last == f > n
           h == [op |-> "binary", part |-> [kind |-> "head", state |-> state], fin |-> last]
           piece(a, b) == [op |-> "continuation", part |-> [kind |-> "samples", from |-> a, to |-> b],
                           fin |-> Fin(n - a + 1, b - a + 1)]
           Piece(a, b) == IF a > b THEN << >> ELSE << piece(a, b) >>
<1>1. F = <<h>> \o Piece(f, w) \o Piece(w + 1, n)
  BY DEF Frames
<1>2. /\ h \in FrameSet(n) /\ h.op = "binary" /\ (h.fin <=> f > n)
  <2>1. last \in BOOLEAN /\ (last <=> f > n)
    OBVIOUS
  <2> HIDE DEF last
  <2>2. h \in FrameSet(n)
    BY <2>1 DEF FrameSet, HeadParts
  <2>3. h.op = "binary" /\ h.fin = last
    OBVIOUS
  <2> QED BY <2>1, <2>2, <2>3
<1>3. ASSUME NEW a \in 1 .. n, NEW b \in 1 .. n, a <= b
      PROVE  /\ piece(a, b) \in FrameSet(n) /\ (piece(a, b).fin <=> b = n)
             /\ piece(a, b).op = "continuation"
             /\ piece(a, b).part.from = a /\ piece(a, b).part.to = b
  <2>1. Fin(n - a + 1, b - a + 1) \in BOOLEAN /\ (Fin(n - a + 1, b - a + 1) <=> b = n)
    BY DEF Fin
  <2>2. [kind |-> "samples", from |-> a, to |-> b] \in SampleParts(n)
    BY <1>3 DEF SampleParts
  <2> QED BY <2>1, <2>2 DEF FrameSet
<1> HIDE DEF h, piece, F
<1>4. CASE f > n
  <2>1. F = <<h>>
    <3>1. f > w /\ w + 1 > n
      BY <1>4
    <3>2. F = <<h>> \o << >> \o << >>
      BY <1>1, <3>1
    <3> QED BY <1>2, <3>2, ConcatEmptySeq
  <2>2. F \in Seq(FrameSet(n)) /\ Len(F) = 1 /\ F[1] = h
    BY <1>2, <2>1
  <2>3. FramesOK(f, n, F)
    BY <1>2, <1>4, <2>2 DEF FramesOK
  <2> QED BY <1>2, <2>2, <2>3 DEF F
<1>5. CASE ~ (f > n) /\ w = n
  <2> DEFINE p == piece(f, w)
  <2>1. /\ p \in FrameSet(n) /\ p.fin /\ p.op = "continuation" /\ p.part.from = f
    BY <1>3, <1>5
  <2>2. F = <<h, p>>
    <3>1. ~ (f > w) /\ w + 1 > n
      BY <1>5
    <3>2. F = <<h>> \o << p >> \o << >>
      BY <1>1, <3>1
    <3>3. <<h>> \o <<p>> = <<h, p>> /\ <<h, p>> \in Seq(FrameSet(n))
      BY <1>2, <2>1, OneOne
    <3> HIDE DEF p
    <3> QED BY <3>2, <3>3, ConcatEmptySeq
  <2> HIDE DEF p
  <2>3. F \in Seq(FrameSet(n)) /\ Len(F) = 2 /\ F[1] = h /\ F[2] = p
    BY <1>2, <2>1, <2>2
  <2>4. Follows(f, h, p)
    BY <1>2, <1>5, <2>1 DEF Follows
  <2>5. FramesOK(f, n, F)
    <3>1. \A i \in 1 .. Len(F) - 1 : i = 1 /\ i + 1 = 2
      BY <2>3
    <3> QED BY <2>1, <2>3, <2>4, <3>1 DEF FramesOK
  <2> QED BY <1>2, <2>3, <2>5 DEF F
<1>6. CASE ~ (f > n) /\ w # n
  <2> DEFINE p == piece(f, w)
             q == piece(w + 1, n)
  <2>1. /\ w \in f .. n /\ f \in 1 .. n /\ w \in 1 .. n /\ f <= w /\ w + 1 \in 1 .. n /\ n \in 1 .. n
        /\ w + 1 <= n
    BY <1>6
  <2>2. /\ p \in FrameSet(n) /\ ~ p.fin /\ p.op = "continuation" /\ p.part.from = f
        /\ p.part.to = w
    BY <1>3, <1>6, <2>1
  <2>3. /\ q \in FrameSet(n) /\ q.fin /\ q.op = "continuation" /\ q.part.from = w + 1
    BY <1>3, <2>1
  <2>4. F = <<h, p, q>>
    <3>1. F = <<h>> \o << p >> \o << q >>
      BY <1>1, <2>1
    <3>2. <<h>> \o <<p>> = <<h, p>>
      BY <1>2, <2>2, OneOne
    <3>3. <<h, p>> \o <<q>> = <<h, p, q>>
      BY <1>2, <2>2, <2>3, TwoOne
    <3> QED BY <3>1, <3>2, <3>3
  <2> HIDE DEF p, q
  <2>5. F \in Seq(FrameSet(n)) /\ Len(F) = 3 /\ F[1] = h /\ F[2] = p /\ F[3] = q
    BY <1>2, <2>2, <2>3, <2>4
  <2>6. Follows(f, h, p) /\ Follows(f, p, q)
    BY <1>2, <1>6, <2>2, <2>3 DEF Follows
  <2>7. FramesOK(f, n, F)
    <3>1. \A i \in 1 .. Len(F) - 1 : (i = 1 /\ i + 1 = 2) \/ (i = 2 /\ i + 1 = 3)
      BY <2>5
    <3> QED BY <2>3, <2>5, <2>6, <3>1 DEF FramesOK
  <2> QED BY <1>2, <2>5, <2>7 DEF F
<1> QED BY <1>4, <1>5, <1>6

LEMMA FramesAppended ==
  ASSUME NEW o, NEW n, NEW fs, FramesOK(o, n, fs), NEW F, FramesOK(o, n, F),
         Len(F) > 0, F[1].op = "binary"
  PROVE  /\ FramesOK(o, n, fs \o F) /\ Len(fs \o F) = Len(fs) + Len(F) /\ fs \o F # << >>
         /\ fs # << >> => (fs \o F)[1] = fs[1]
         /\ fs = << >> => (fs \o F)[1] = F[1]
<1> DEFINE H == fs \o F
           l == Len(fs)
           k == Len(F)
<1>1. fs \in Seq(FrameSet(n)) /\ F \in Seq(FrameSet(n)) /\ l \in Nat /\ k \in Nat /\ k > 0
  BY DEF FramesOK
<1>2. H \in Seq(FrameSet(n)) /\ Len(H) = l + k
  BY <1>1, Concatenated
<1>3. \A i \in 1 .. l : H[i] = fs[i]
  BY <1>1, Concatenated
<1>4. \A i \in 1 .. k : H[l + i] = F[i]
  BY <1>1, Concatenated
<1>5. fs = << >> <=> l = 0
  BY <1>1, EmptySeq
<1>6. F # << >>
  BY <1>1, EmptySeq
<1> HIDE DEF H
<1>7. ASSUME NEW i \in 1 .. Len(H) - 1 PROVE Follows(o, H[i], H[i + 1])
  <2>1. CASE i < l
    <3>1. H[i] = fs[i] /\ H[i + 1] = fs[i + 1] /\ i \in 1 .. l - 1
      BY <1>1, <1>3, <2>1
    <3> QED BY <3>1 DEF FramesOK
  <2>2. CASE i = l
    <3>1. H[i] = fs[l] /\ H[i + 1] = F[1] /\ fs # << >>
      BY <1>1, <1>3, <1>4, <1>5, <2>2
    <3>2. fs[l].fin
      BY <3>1 DEF FramesOK
    <3> QED BY <3>1, <3>2 DEF Follows
  <2>3. CASE i > l
    <3> DEFINE j == i - l
    <3>1. j \in 1 .. k - 1 /\ j \in 1 .. k /\ j + 1 \in 1 .. k /\ l + j = i /\ l + (j + 1) = i + 1
      BY <1>1, <1>2, <2>3
    <3> HIDE DEF j
    <3>2. H[i] = F[j] /\ H[i + 1] = F[j + 1]
      <4>1. H[l + j] = F[j] /\ H[l + (j + 1)] = F[j + 1]
        BY <1>4, <3>1
      <4> QED BY <3>1, <4>1
    <3> QED BY <3>1, <3>2 DEF FramesOK
  <2> QED BY <1>1, <2>1, <2>2, <2>3
<1>8. H[Len(H)].fin
  <2>1. H[l + k] = F[k]
    BY <1>1, <1>4
  <2>2. F[k].fin
    BY <1>6 DEF FramesOK
  <2> QED BY <1>2, <2>1, <2>2
<1>9. fs # << >> => H[1] = fs[1]
  BY <1>1, <1>3, <1>5
<1>10. fs = << >> => H[1] = F[1]
  <2> SUFFICES ASSUME fs = << >> PROVE H[1] = F[1]
    OBVIOUS
  <2>1. l = 0 /\ 1 \in 1 .. k
    BY <1>1, <1>5
  <2>2. H[l + 1] = F[1]
    BY <1>4, <2>1
  <2>3. l + 1 = 1
    BY <2>1
  <2> QED BY <2>2, <2>3
<1>11. H # << >>
  BY <1>1, <1>2, EmptySeq
<1>12. FramesOK(o, n, H)
  BY <1>2, <1>7, <1>8 DEF FramesOK
<1> QED BY <1>2, <1>9, <1>10, <1>11, <1>12 DEF H

(* The next frame is one that the websocket library can use.               *)
LEMMA Received ==
  ASSUME NEW o, NEW n \in Nat, NEW fs, NEW msg, FramesOK(o, n, fs), MessageOK(o, n, fs, msg),
         fs # << >>, ~ msg.whole
  PROVE  LET frame == Head(fs)
             new   == [parts |-> Append(msg.parts, frame.part), open |-> ~ frame.fin,
                       whole |-> frame.fin]
         IN  /\ msg.open = (frame.op = "continuation")
             /\ FramesOK(o, n, Tail(fs)) /\ Len(Tail(fs)) <= Len(fs)
             /\ MessageOK(o, n, Tail(fs), new)
<1> DEFINE frame == Head(fs)
           rest == Tail(fs)
           old == msg.parts
           ps == Append(old, frame.part)
           new == [parts |-> ps, open |-> ~ frame.fin, whole |-> frame.fin]
           E == HeadParts \union SampleParts(n)
<1>1. /\ fs \in Seq(FrameSet(n)) /\ fs[Len(fs)].fin
      /\ \A i \in 1 .. Len(fs) - 1 : Follows(o, fs[i], fs[i + 1])
  BY DEF FramesOK
<1>2. /\ Len(fs) \in Nat \ {0} /\ frame = fs[1]
      /\ rest \in Seq(FrameSet(n)) /\ Len(rest) = Len(fs) - 1
      /\ \A i \in 1 .. Len(rest) : rest[i] = fs[i + 1]
  BY <1>1, EmptySeq, HeadTailProperties
<1>3. /\ old \in Seq(E) /\ msg.open \in BOOLEAN
      /\ (msg.open => PartsOK(o, n, old) /\ Continues(o, old, frame))
      /\ (~ msg.open => msg = NoMessage /\ frame.op = "binary")
  BY <1>2 DEF MessageOK
<1>4. /\ frame \in FrameSet(n) /\ frame.fin \in BOOLEAN
      /\ (frame.op = "binary" => frame.part \in HeadParts)
      /\ (frame.op = "continuation" => frame.part \in SampleParts(n))
      /\ frame.op \in {"binary", "continuation"}
  <2>1. frame \in FrameSet(n)
    BY <1>1, <1>2, ElementOfSeq
  <2> HIDE DEF frame
  <2> QED BY <2>1 DEF FrameSet
<1> HIDE DEF frame, rest
<1>5. msg.open = (frame.op = "continuation")
  BY <1>3, <1>4 DEF Continues
<1>6. FramesOK(o, n, rest)
  <2>1. ASSUME NEW i \in 1 .. Len(rest) - 1 PROVE Follows(o, rest[i], rest[i + 1])
    <3>1. i \in 1 .. Len(rest) /\ i + 1 \in 1 .. Len(rest) /\ i + 1 \in 1 .. Len(fs) - 1
      BY <1>2
    <3>2. rest[i] = fs[i + 1] /\ rest[i + 1] = fs[(i + 1) + 1]
      BY <1>2, <3>1
    <3> QED BY <1>1, <3>1, <3>2
  <2>2. ASSUME rest # << >> PROVE rest[Len(rest)].fin
    <3>1. Len(rest) \in Nat \ {0}
      BY <1>2, <2>2, EmptySeq
    <3>2. rest[Len(rest)] = fs[Len(rest) + 1] /\ Len(rest) + 1 = Len(fs)
      BY <1>2, <3>1
    <3> QED BY <1>1, <3>2
  <2> QED BY <1>2, <2>1, <2>2 DEF FramesOK
<1>7. frame.fin \/ rest # << >>
  <2> SUFFICES ASSUME rest = << >> PROVE frame.fin
    OBVIOUS
  <2>1. Len(rest) = 0
    BY EmptySeq
  <2>2. Len(fs) = 1
    BY <1>2, <2>1
  <2> QED BY <1>1, <1>2, <2>2
<1>8. rest # << >> => rest[1] = fs[2] /\ Follows(o, frame, rest[1])
  <2> SUFFICES ASSUME rest # << >> PROVE rest[1] = fs[2] /\ Follows(o, frame, rest[1])
    OBVIOUS
  <2>1. Len(rest) \in Nat \ {0}
    BY <1>2, EmptySeq
  <2>2. rest[1] = fs[1 + 1] /\ 1 \in 1 .. Len(fs) - 1
    BY <1>2, <2>1
  <2>3. 1 + 1 = 2
    OBVIOUS
  <2> QED BY <1>1, <1>2, <2>2, <2>3
<1>9. frame.part \in E
  BY <1>4
<1>10. /\ ps \in Seq(E) /\ Len(ps) = Len(old) + 1
       /\ \A i \in 1 .. Len(old) : ps[i] = old[i]
       /\ ps[Len(old) + 1] = frame.part
  BY <1>3, <1>9, AppendProperties
<1> HIDE DEF ps
<1>11. PartsOK(o, n, ps) /\ (~ frame.fin => Len(ps) <= 2 /\ Continues(o, ps, rest[1]))
  <2>1. CASE frame.op = "binary"
    <3>1. old = << >> /\ Len(old) = 0
      <4>1. msg = NoMessage
        BY <1>3, <1>5, <2>1
      <4>2. NoMessage.parts = << >>
        BY DEF NoMessage
      <4>3. old = << >>
        BY <4>1, <4>2
      <4> HIDE DEF old
      <4> QED BY <4>3, EmptySeq
    <3> HIDE DEF old
    <3>2. Len(ps) = 1 /\ ps[1] = frame.part /\ frame.part \in HeadParts
      BY <1>4, <1>10, <2>1, <3>1
    <3>3. PartsOK(o, n, ps)
      BY <3>2 DEF PartsOK
    <3>4. ASSUME ~ frame.fin PROVE Continues(o, ps, rest[1])
      BY <1>7, <1>8, <2>1, <3>2, <3>4 DEF Follows, Continues
    <3> QED BY <3>2, <3>3, <3>4
  <2>2. CASE frame.op = "continuation"
    <3>1. PartsOK(o, n, old) /\ Continues(o, old, frame) /\ frame.part \in SampleParts(n)
      BY <1>3, <1>4, <1>5, <2>2
    <3> HIDE DEF old
    <3>2. Len(old) \in {1, 2} /\ old[1] \in HeadParts
      BY <3>1 DEF PartsOK, Continues
    <3>3. CASE Len(old) = 1
      <4>1. Len(ps) = 2 /\ ps[1] = old[1] /\ ps[2] = frame.part
        BY <1>10, <3>3
      <4>2. frame.part.from \in 1 .. o
        BY <3>1, <3>3 DEF Continues
      <4>3. PartsOK(o, n, ps)
        <5>1. \A i \in 2 .. Len(ps) : i = 2
          BY <4>1
        <5> QED BY <3>1, <3>2, <4>1, <4>2, <5>1 DEF PartsOK
      <4>4. ASSUME ~ frame.fin PROVE Continues(o, ps, rest[1])
        BY <1>7, <1>8, <2>2, <4>1, <4>4 DEF Follows, Continues
      <4> QED BY <4>1, <4>3, <4>4
    <3>4. CASE Len(old) = 2
      <4>1. Len(ps) = 3 /\ ps[1] = old[1] /\ ps[2] = old[2] /\ ps[3] = frame.part
        BY <1>10, <3>4
      <4>2. frame.fin /\ frame.part.from = old[2].to + 1
        BY <3>1, <3>4 DEF Continues
      <4>3. old[2] \in SampleParts(n) /\ old[2].from \in 1 .. o
        BY <3>1, <3>4 DEF PartsOK
      <4>4. PartsOK(o, n, ps)
        <5>1. \A i \in 2 .. Len(ps) : i = 2 \/ i = 3
          BY <4>1
        <5> QED BY <3>1, <3>2, <4>1, <4>2, <4>3, <5>1 DEF PartsOK
      <4> QED BY <4>2, <4>4
    <3> QED BY <3>2, <3>3, <3>4
  <2> QED BY <1>4, <2>1, <2>2
<1>12. MessageOK(o, n, rest, new)
  <2> HIDE DEF E
  <2>1. new \in [parts : Seq(E), open : BOOLEAN, whole : BOOLEAN]
    BY <1>4, <1>10
  <2>2. new.parts = ps /\ new.open = ~ frame.fin /\ new.whole = frame.fin
    OBVIOUS
  <2>3. ~ (new.open /\ new.whole) /\ (new.open \/ new.whole)
    BY <1>4, <2>2
  <2>4. new.open => rest # << >> /\ Continues(o, new.parts, rest[1])
    BY <1>4, <1>7, <1>11, <2>2
  <2>5. ~ new.open /\ rest # << >> => rest[1].op = "binary"
    BY <1>4, <1>8, <2>2 DEF Follows
  <2>6. PartsOK(o, n, new.parts)
    BY <1>11, <2>2
  <2> HIDE DEF new
  <2> QED BY <2>1, <2>3, <2>4, <2>5, <2>6 DEF MessageOK, E
<1>13. Len(rest) <= Len(fs)
  BY <1>2
<1> QED BY <1>5, <1>6, <1>12, <1>13 DEF frame, rest, ps

(* What is stored of a whole message.                                      *)
LEMMA Reported ==
  ASSUME NEW db, NEW o \in Nat \ {0}, NEW n \in Nat, NEW state, NEW from \in 1 .. o, NEW to \in Int,
         to >= from - 1, to <= n, Kept(db, n)
  PROVE  LET db2 == db \union Report(Body(state, from, to))
         IN  StoredFrom(db2, o, to) /\ Kept(db2, n)
<1> DEFINE R == Report(Body(state, from, to))
<1>1. /\ \A m \in R : \/ m.time = HeadTime /\ Row(m) \in HeadRows
                     \/ \E t \in from .. to : \E i \in 1 .. 13 : m = SampleMetric(t, i)
      /\ \A t \in from .. to : \A i \in 1 .. 13 : SampleMetric(t, i) \in R
  BY ReportOf
<1> HIDE DEF R
<1>2. \A f \in CSample.ints : \E i \in 1 .. 13 : f.name = CSampleFields[i].name
  <2>1. CSampleFields \in Seq(FieldSet) /\ Len(CSampleFields) = 13
    BY SampleLayouts
  <2> QED BY <2>1 DEF CSample, Packed
<1>3. ASSUME NEW t \in o .. to, NEW f \in CSample.ints
      PROVE  \E m \in db \union R : /\ m.value = <<"Sample", f.name, t>>
                                    /\ m.time  = <<"Sample", <<"timestamp">>, t>>
  <2>1. t \in from .. to
    OBVIOUS
  <2>2. PICK i \in 1 .. 13 : f.name = CSampleFields[i].name
    BY <1>2
  <2>3. SampleMetric(t, i) \in R
    BY <1>1, <2>1
  <2>4. /\ SampleMetric(t, i).value = <<"Sample", f.name, t>>
        /\ SampleMetric(t, i).time  = <<"Sample", <<"timestamp">>, t>>
    BY <2>2 DEF SampleMetric, Metric, SampleTime
  <2> QED BY <2>3, <2>4
<1>4. StoredFrom(db \union R, o, to)
  BY <1>3 DEF StoredFrom
<1>5. Kept(db \union R, n)
  <2>1. \A t \in from .. to : t \in 1 .. n
    OBVIOUS
  <2> QED BY <1>1, <2>1 DEF Kept
<1> QED BY <1>4, <1>5 DEF R

LEMMA Bounds == WireInv => /\ closed \in 0 .. MaxSamples /\ closed \in Nat
                          /\ first \in 1 .. closed + 1 /\ first \in Nat \ {0}
BY WireAssumption DEF WireInv, RingOK, closed

LEMMA Begins == Init => WireInv
<1> SUFFICES ASSUME Init PROVE WireInv
  OBVIOUS
<1>1. /\ first = 1 /\ times = << >> /\ failures = 0 /\ misread = FALSE /\ stored = {}
      /\ frames = << >> /\ message = NoMessage /\ replies = << SetTimeBytes >>
  BY DEF Init
<1>2. /\ FramesOK(first, closed, frames) /\ MessageOK(first, closed, frames, message)
      /\ replies \in Seq(Answers(stored, first, closed)) /\ Len(replies) = 1
  BY <1>1, Fresh
<1>3. RingOK
  BY <1>1, WireAssumption DEF RingOK, Grows, closed
<1>4. Kept(stored, closed)
  BY <1>1 DEF Kept
<1>5. Len(frames) <= MaxFrames
  BY <1>1, WireAssumption
<1> QED BY <1>1, <1>2, <1>3, <1>4, <1>5, WireAssumption DEF WireInv

LEMMA TakeSampleKeeps ==
  ASSUME WireInv, TakeSample
  PROVE  WireInv'
<1>1. /\ RingOK /\ closed \in Nat /\ first \in 1 .. closed + 1 /\ times \in Seq(Nat) /\ closed = Len(times)
      /\ closed < MaxSamples /\ UNCHANGED <<frames, message, stored, replies, failures, misread>>
  BY Bounds DEF TakeSample, WireInv, RingOK, closed
<1>2. PICK gap \in Gaps :
        times' = Append(times, IF times = << >> THEN 1 ELSE Last(times) + gap)
  BY DEF TakeSample
<1> DEFINE next == IF times = << >> THEN 1 ELSE Last(times) + gap
<1>3. next \in Nat /\ \A i \in 1 .. Len(times) : times[i] < next
  <2>1. gap \in Nat \ {0}
    BY WireAssumption
  <2>2. CASE times = << >>
    <3>1. Len(times) = 0
      BY <2>2
    <3> QED BY <2>2, <3>1
  <2>3. CASE times # << >>
    <3> DEFINE l == Len(times)
    <3>1. l \in Nat \ {0} /\ Last(times) = times[l] /\ next = times[l] + gap
      BY <1>1, <2>3, EmptySeq DEF Last
    <3>2. \A i \in 1 .. l : times[i] \in Nat
      BY <1>1, ElementOfSeq
    <3>3. \A i \in 1 .. l : i < l => times[i] < times[l]
      BY <1>1, <3>1 DEF RingOK, Grows
    <3> HIDE DEF l, next
    <3>4. next \in Nat
      BY <2>1, <3>1, <3>2
    <3>5. ASSUME NEW i \in 1 .. l PROVE times[i] < next
      <4>1. i < l \/ i = l
        BY <3>1
      <4>2. times[i] <= times[l] /\ times[i] \in Nat /\ times[l] \in Nat
        BY <3>1, <3>2, <3>3, <4>1
      <4> QED BY <2>1, <3>1, <4>2
    <3> QED BY <3>4, <3>5 DEF l
  <2> QED BY <2>2, <2>3
<1>4. times' = Append(times, next)
  BY <1>2
<1> HIDE DEF next
<1>5. /\ times' \in Seq(Nat) /\ Len(times') = Len(times) + 1
      /\ \A i \in 1 .. Len(times) : times'[i] = times[i]
      /\ times'[Len(times) + 1] = next
  BY <1>1, <1>3, <1>4, AppendProperties
<1>6. closed' = closed + 1 /\ closed' \in Nat /\ closed' = Len(times')
  BY <1>1, <1>5 DEF closed
<1>7. /\ first' \in 1 .. closed' + 1 /\ first' \in Nat /\ first <= first' /\ first \in Nat
      /\ closed' - first' + 1 < BufferSize
  <2>1. first' = IF closed - first + 2 = BufferSize THEN first + 1 ELSE first
    BY DEF TakeSample
  <2>2. closed - first + 1 < BufferSize /\ BufferSize \in Nat /\ BufferSize >= 2
    BY <1>1, WireAssumption DEF RingOK
  <2> QED BY <1>1, <1>6, <2>1, <2>2
<1>8. Grows(times')
  <2> SUFFICES ASSUME NEW i \in 1 .. Len(times'), NEW j \in 1 .. Len(times'), i < j
               PROVE  times'[i] < times'[j]
    BY DEF Grows
  <2> DEFINE l == Len(times)
  <2>1. l \in Nat /\ Len(times') = l + 1
    BY <1>1, <1>5
  <2> HIDE DEF l
  <2>2. i \in 1 .. l /\ (j \in 1 .. l \/ j = l + 1)
    BY <2>1
  <2>3. times'[i] = times[i]
    BY <1>5, <2>2 DEF l
  <2>4. CASE j \in 1 .. l
    <3>1. times'[j] = times[j] /\ times[i] < times[j]
      BY <1>1, <1>5, <2>2, <2>4 DEF l, RingOK, Grows
    <3> QED BY <2>3, <3>1
  <2>5. CASE j = l + 1
    <3>1. times'[j] = next /\ times[i] < next
      BY <1>3, <1>5, <2>2, <2>5 DEF l
    <3> QED BY <2>3, <3>1
  <2> QED BY <2>2, <2>4, <2>5
<1>9. RingOK'
  <2>1. closed' <= MaxSamples
    BY <1>1, <1>6, WireAssumption
  <2> QED BY <1>5, <1>7, <1>8, <2>1 DEF RingOK
<1>10. /\ FramesOK(first', closed', frames) /\ MessageOK(first', closed', frames, message)
       /\ replies \in Seq(Answers(stored, first', closed'))
  <2>1. stored \subseteq stored /\ closed <= closed'
    BY <1>1, <1>6
  <2> QED BY <1>1, <1>6, <1>7, <2>1, Grow DEF WireInv
<1>11. Kept(stored, closed')
  <2>1. \A t \in 1 .. closed : t \in 1 .. closed'
    BY <1>1, <1>6
  <2> QED BY <2>1 DEF WireInv, Kept
<1>12. Len(frames) <= MaxFrames /\ Len(replies) <= MaxReplies + 1 /\ failures \in 0 .. MaxFailures
       /\ misread = FALSE
  BY DEF WireInv
<1> QED BY <1>1, <1>9, <1>10, <1>11, <1>12 DEF WireInv

(* The ring is as it was.                                                  *)
LEMMA RingKept ==
  ASSUME WireInv, UNCHANGED <<first, times>>
  PROVE  RingOK' /\ closed' = closed
BY DEF WireInv, RingOK, closed

LEMMA SendKeeps ==
  ASSUME WireInv, Send
  PROVE  WireInv'
<1>1. /\ closed \in Nat /\ first \in 1 .. closed + 1 /\ Len(frames) \in Nat
      /\ Len(frames) + 3 <= MaxFrames
      /\ UNCHANGED <<first, times, message, stored, replies, failures, misread>>
  BY Bounds DEF Send, WireInv, FramesOK
<1>2. PICK state \in States, wrap \in first .. closed \union {closed} :
        frames' = frames \o Frames(state, first, wrap, closed)
  BY DEF Send
<1> DEFINE F == Frames(state, first, wrap, closed)
<1>3. FramesOK(first, closed, F) /\ Len(F) \in 1 .. 3 /\ F[1].op = "binary"
  BY <1>1, FramesSent DEF WireInv
<1>4. frames' = frames \o F
  BY <1>2
<1> HIDE DEF F
<1>5. /\ FramesOK(first, closed, frames') /\ Len(frames') = Len(frames) + Len(F)
      /\ frames' # << >>
      /\ (frames # << >> => frames'[1] = frames[1]) /\ (frames = << >> => frames'[1] = F[1])
  BY <1>3, <1>4, FramesAppended DEF WireInv
<1>6. MessageOK(first, closed, frames', message)
  BY <1>3, <1>5 DEF WireInv, MessageOK
<1>7. Len(frames') <= MaxFrames
  <2> DEFINE l == Len(frames)
             k == Len(F)
  <2>1. Len(frames') = l + k /\ k \in 1 .. 3
    BY <1>3, <1>5
  <2>2. l \in Nat /\ l + 3 <= MaxFrames /\ MaxFrames \in Nat
    BY <1>1, WireAssumption
  <2> HIDE DEF l, k
  <2>3. l + k <= MaxFrames
    BY <2>1, <2>2
  <2> QED BY <2>1, <2>3
<1>8. RingOK' /\ closed' = closed
  BY <1>1, RingKept
<1> QED BY <1>1, <1>5, <1>6, <1>7, <1>8 DEF WireInv

LEMMA ReceiveKeeps ==
  ASSUME WireInv, Receive
  PROVE  WireInv'
<1> DEFINE frame == Head(frames)
           new == [parts |-> Append(message.parts, frame.part), open |-> ~ frame.fin,
                   whole |-> frame.fin]
<1>1. /\ closed \in Nat /\ frames # << >> /\ ~ message.whole
      /\ FramesOK(first, closed, frames) /\ MessageOK(first, closed, frames, message)
  BY Bounds DEF Receive, WireInv
<1>2. /\ message.open = (frame.op = "continuation")
      /\ FramesOK(first, closed, Tail(frames)) /\ Len(Tail(frames)) <= Len(frames)
      /\ MessageOK(first, closed, Tail(frames), new)
  BY <1>1, Received
<1>3. /\ message' = new /\ frames' = Tail(frames)
      /\ UNCHANGED <<first, times, replies, misread, stored, failures>>
  BY <1>2 DEF Receive
<1> HIDE DEF new
<1>4. Len(frames') <= MaxFrames
  <2>1. Len(frames) \in Nat /\ Len(Tail(frames)) \in Nat /\ Len(frames) <= MaxFrames
    BY <1>1, <1>2 DEF FramesOK, WireInv
  <2> QED BY <1>2, <1>3, <2>1, WireAssumption
<1>5. RingOK' /\ closed' = closed
  BY <1>3, RingKept
<1> QED BY <1>2, <1>3, <1>4, <1>5 DEF WireInv

(* After the connection was made again, whatever more was stored.          *)
LEMMA ReconnectKeeps ==
  ASSUME WireInv, Reconnect, UNCHANGED misread, failures' \in 0 .. MaxFailures,
         Kept(stored', closed)
  PROVE  WireInv'
<1>1. /\ frames' = << >> /\ message' = NoMessage
      /\ replies' = << SetTimeBytes >> /\ UNCHANGED <<first, times>>
  BY DEF Reconnect
<1>2. /\ FramesOK(first, closed, frames') /\ MessageOK(first, closed, frames', message')
      /\ replies' \in Seq(Answers(stored', first, closed)) /\ Len(replies') = 1
  BY <1>1, Fresh
<1>3. Len(frames') <= MaxFrames /\ Len(replies') <= MaxReplies + 1
  <2>1. Len(frames') = 0
    BY <1>1, EmptySeq
  <2> QED BY <1>2, <2>1, WireAssumption
<1>4. RingOK' /\ closed' = closed
  BY <1>1, RingKept
<1> QED BY <1>1, <1>2, <1>3, <1>4 DEF WireInv

(* A whole message is telemetry; it is a body, of samples that begin no    *)
(* later than the ring does now.                                           *)
LEMMA WholeMessage ==
  ASSUME WireInv, message.whole
  PROVE  /\ Telemetry
         /\ \E state \in States, from \in Int, to \in Int :
              /\ body = Body(state, from, to)
              /\ from \in 1 .. first /\ to >= from - 1 /\ to <= closed
<1>1. PartsOK(first, closed, message.parts) /\ closed \in Nat /\ first \in Nat \ {0}
  BY Bounds DEF WireInv, MessageOK
<1>2. PICK state \in States, from \in Int, to \in Int :
        /\ Bytes(message.parts) = Body(state, from, to)
        /\ from \in 1 .. first /\ to >= from - 1 /\ to <= closed
  BY <1>1, BodyOfParts
<1>3. body = Body(state, from, to)
  BY <1>2 DEF body
<1>4. Readable(body) /\ Type(body) = TypeValue(MessageType.TELEMETRY)
  BY <1>2, <1>3, ReadableBody, TypeOfBody
<1> QED BY <1>2, <1>3, <1>4 DEF Telemetry

(* The handler answers with the time, or not, and then an answer or none.  *)
LEMMA Answering ==
  ASSUME NEW A, SetTimeBytes \in A, replies \in Seq(A), Len(replies) < MaxReplies,
         NEW ack \in Seq(A), Len(ack) <= 1, Answer(ack)
  PROVE  replies' \in Seq(A) /\ Len(replies') <= MaxReplies + 1
<1>1. PICK time \in {<< >>, << SetTimeBytes >>} : replies' = replies \o time \o ack
  BY DEF Answer
<1>2. time \in Seq(A) /\ Len(time) <= 1
  <2>1. << SetTimeBytes >> \in Seq(A) /\ Len(<< SetTimeBytes >>) = 1
    OBVIOUS
  <2>2. << >> \in Seq(A) /\ Len(<< >>) = 0
    OBVIOUS
  <2>3. time = << >> \/ time = << SetTimeBytes >>
    OBVIOUS
  <2>4. Len(time) <= 1
    <3> DEFINE k == Len(time)
    <3>1. k = 0 \/ k = 1
      BY <2>1, <2>2, <2>3
    <3> HIDE DEF k
    <3>2. k <= 1
      BY <3>1
    <3> QED BY <3>2 DEF k
  <2>5. time \in Seq(A)
    BY <2>1, <2>2, <2>3
  <2> QED BY <2>4, <2>5
<1>3. replies \o time \in Seq(A) /\ Len(replies \o time) = Len(replies) + Len(time)
  BY <1>2, Concatenated
<1>4. /\ (replies \o time) \o ack \in Seq(A)
      /\ Len((replies \o time) \o ack) = Len(replies) + Len(time) + Len(ack)
  BY <1>3, Concatenated
<1>5. /\ Len(replies) \in Nat /\ Len(time) \in Nat /\ Len(ack) \in Nat /\ MaxReplies \in Nat
      /\ Len(replies) < MaxReplies /\ Len(time) <= 1 /\ Len(ack) <= 1
  BY <1>2, WireAssumption
<1>6. Len(replies) + Len(time) + Len(ack) <= MaxReplies + 1
  BY <1>5
<1> QED BY <1>1, <1>4, <1>6

(* A message that was handled leaves none.                                 *)
LEMMA MessageHandled ==
  ASSUME WireInv, message.whole
  PROVE  MessageOK(first, closed, frames, NoMessage)
<1>1. /\ NoMessage \in [parts : Seq(HeadParts \union SampleParts(closed)),
                        open : BOOLEAN, whole : BOOLEAN]
      /\ ~ NoMessage.open /\ ~ NoMessage.whole
  BY DEF NoMessage
<1>2. frames # << >> => frames[1].op = "binary"
  BY DEF WireInv, MessageOK
<1> HIDE DEF NoMessage
<1> QED BY <1>1, <1>2 DEF MessageOK

LEMMA StoreKeeps ==
  ASSUME WireInv, Store, message.whole, Len(replies) < MaxReplies
  PROVE  WireInv'
<1> DEFINE samples == Samples(body)
           ack == IF samples = << >> THEN << >>
                  ELSE << AckBytes(Get(Last(samples), <<"timestamp">>)) >>
           A == Answers(stored', first, closed)
<1>1. PICK state \in States, from \in Int, to \in Int :
        /\ body = Body(state, from, to)
        /\ from \in 1 .. first /\ to >= from - 1 /\ to <= closed
  BY WholeMessage
<1>2. /\ stored' = stored \union Report(body) /\ Answer(ack)
      /\ message' = NoMessage /\ UNCHANGED <<first, times, frames, failures, misread>>
  BY DEF Store
<1>3. closed \in Nat /\ first \in Nat \ {0} /\ stored \subseteq stored'
  BY <1>2, Bounds
<1>4. StoredFrom(stored', first, to) /\ Kept(stored', closed)
  <2>1. stored' = stored \union Report(Body(state, from, to))
    BY <1>1, <1>2
  <2>2. Kept(stored, closed)
    BY DEF WireInv
  <2> QED BY <1>1, <1>3, <2>1, <2>2, Reported
<1>5. replies \in Seq(A)
  <2>1. closed <= closed /\ first <= first
    BY <1>3
  <2> QED BY <1>3, <2>1, Grow DEF WireInv
<1>6. samples = [i \in 1 .. to - from + 1 |-> SampleObject(from + i - 1)]
  BY <1>1, ReadSamples
<1>7. ack \in Seq(A) /\ Len(ack) <= 1
  <2>1. CASE to = from - 1
    <3>1. samples = << >>
      <4>1. to - from + 1 = 0
        BY <2>1
      <4> QED BY <1>6, <4>1
    <3>2. ack = << >>
      BY <3>1
    <3> HIDE DEF ack
    <3> QED BY <3>2
  <2>2. CASE to # from - 1
    <3> DEFINE l == to - from + 1
    <3>1. l \in Nat \ {0} /\ from + l - 1 = to /\ to \in 1 .. closed
      BY <1>1, <1>3, <2>2
    <3>2. samples = [i \in 1 .. l |-> SampleObject(from + i - 1)]
      BY <1>6
    <3> DEFINE S == {SampleObject(t) : t \in from .. to}
    <3> HIDE DEF l, samples
    <3>3. samples \in Seq(S) /\ Len(samples) = l
      <4>1. \A i \in 1 .. l : from + i - 1 \in from .. to
        BY <3>1
      <4>2. \A i \in 1 .. l : SampleObject(from + i - 1) \in S
        BY <4>1
      <4> HIDE DEF S
      <4>3. samples \in [1 .. l -> S]
        BY <3>2, <4>2
      <4> QED BY <3>1, <4>3
    <3>4. samples # << >>
      BY <3>1, <3>3, EmptySeq
    <3>5. Last(samples) = SampleObject(to)
      BY <3>1, <3>2, <3>3 DEF Last
    <3>6. Get(Last(samples), <<"timestamp">>) = SampleTime(to)
      BY <3>5, TimeOfSample
    <3>7. ack = << AckBytes(SampleTime(to)) >>
      BY <3>4, <3>6
    <3> HIDE DEF ack
    <3>8. AckBytes(SampleTime(to)) \in A
      BY <1>4, <3>1 DEF Answers
    <3> HIDE DEF A
    <3> QED BY <3>7, <3>8
  <2> QED BY <2>1, <2>2
<1>8. replies' \in Seq(A) /\ Len(replies') <= MaxReplies + 1
  <2>1. SetTimeBytes \in A
    BY DEF Answers
  <2> HIDE DEF ack, A
  <2> QED BY <1>2, <1>5, <1>7, <2>1, Answering
<1>9. MessageOK(first, closed, frames, message')
  BY <1>2, MessageHandled
<1>10. RingOK' /\ closed' = closed
  BY <1>2, RingKept
<1>11. FramesOK(first, closed, frames) /\ Len(frames) <= MaxFrames /\ failures \in 0 .. MaxFailures
       /\ misread = FALSE
  BY DEF WireInv
<1> QED BY <1>2, <1>4, <1>8, <1>9, <1>10, <1>11 DEF WireInv

LEMMA HandleKeeps ==
  ASSUME WireInv, Handle
  PROVE  WireInv'
<1>1. message.whole /\ Len(replies) < MaxReplies /\ (Store \/ NotStored \/ PutFails)
  BY WholeMessage DEF Handle
<1>2. CASE Store
  BY <1>1, <1>2, StoreKeeps
<1>3. CASE NotStored
  <2>1. /\ failures' \in 0 .. MaxFailures /\ Answer(<< >>) /\ message' = NoMessage
        /\ UNCHANGED <<first, times, frames, stored, misread>>
    BY <1>3, WireAssumption DEF NotStored, WireInv
  <2>2. MessageOK(first, closed, frames, message')
    BY <1>1, <2>1, MessageHandled
  <2>3. /\ replies' \in Seq(Answers(stored, first, closed))
        /\ Len(replies') <= MaxReplies + 1
    <3> DEFINE A == Answers(stored, first, closed)
    <3>1. SetTimeBytes \in A /\ replies \in Seq(A)
      BY DEF Answers, WireInv
    <3> HIDE DEF A
    <3>2. << >> \in Seq(A) /\ Len(<< >>) <= 1
      OBVIOUS
    <3>3. replies' \in Seq(A) /\ Len(replies') <= MaxReplies + 1
      BY <1>1, <2>1, <3>1, <3>2, Answering
    <3> QED BY <3>3 DEF A
  <2>4. RingOK' /\ closed' = closed
    BY <2>1, RingKept
  <2>5. FramesOK(first, closed, frames) /\ Len(frames) <= MaxFrames /\ Kept(stored, closed)
        /\ misread = FALSE
    BY DEF WireInv
  <2> QED BY <2>1, <2>2, <2>3, <2>4, <2>5 DEF WireInv
<1>4. CASE PutFails
  <2>1. /\ failures' \in 0 .. MaxFailures /\ Reconnect /\ UNCHANGED misread
        /\ stored' \in {stored, stored \union Report(body)}
    BY <1>4, WireAssumption DEF PutFails, WireInv
  <2>2. Kept(stored, closed) /\ closed \in Nat /\ first \in Nat \ {0}
    BY Bounds DEF WireInv
  <2>3. Kept(stored \union Report(body), closed)
    <3>1. PICK state \in States, from \in Int, to \in Int :
            /\ body = Body(state, from, to)
            /\ from \in 1 .. first /\ to >= from - 1 /\ to <= closed
      BY <1>1, WholeMessage
    <3>2. Kept(stored \union Report(Body(state, from, to)), closed)
      BY <2>2, <3>1, Reported
    <3> QED BY <3>1, <3>2
  <2> QED BY <2>1, <2>2, <2>3, ReconnectKeeps
<1> QED BY <1>1, <1>2, <1>3, <1>4

LEMMA LoseKeeps ==
  ASSUME WireInv, Lose
  PROVE  WireInv'
<1>1. /\ failures' \in 0 .. MaxFailures /\ Reconnect /\ UNCHANGED misread
      /\ stored' = stored /\ Kept(stored, closed)
  BY WireAssumption DEF Lose, WireInv
<1> QED BY <1>1, ReconnectKeeps

(* What the device reads in an answer is what the service wrote.           *)
LEMMA ReadReply ==
  ASSUME NEW db, NEW o, NEW n, NEW bytes \in Answers(db, o, n)
  PROVE  \/ /\ Get(Unpack(CMessage, bytes), <<"type">>) = TypeValue(MessageType.SET_TIME)
            /\ Get(Unpack(CSetTime, bytes), <<"timestamp">>) = ServiceNow
         \/ /\ Get(Unpack(CMessage, bytes), <<"type">>) = TypeValue(MessageType.SAMPLE_ACK)
            /\ \E t \in 1 .. n : /\ Get(Unpack(CSampleAck, bytes), <<"timestamp">>) = SampleTime(t)
                                 /\ StoredFrom(db, o, t)
<1>1. CASE bytes = SetTimeBytes
  <2>1. "uint64" \in DOMAIN Width
    BY DEF Width
  <2>2. bytes.ints = Laid(PyType \o << Field("timestamp", "uint64") >>,
                          <<TypeValue(MessageType.SET_TIME), ServiceNow>>)
    BY <1>1, SetTimeInBytes DEF SetTimeFields
  <2>3. /\ Get(Unpack(CMessage, bytes), <<"type">>) = TypeValue(MessageType.SET_TIME)
        /\ Get(Unpack(Packed(CType \o << Field("timestamp", "uint64") >>), bytes), <<"timestamp">>)
              = ServiceNow
    BY <2>1, <2>2, ReadAnswer
  <2> QED BY <2>3 DEF CSetTime
<1>2. ASSUME NEW t \in 1 .. n, StoredFrom(db, o, t), bytes = AckBytes(SampleTime(t))
      PROVE  /\ Get(Unpack(CMessage, bytes), <<"type">>) = TypeValue(MessageType.SAMPLE_ACK)
             /\ Get(Unpack(CSampleAck, bytes), <<"timestamp">>) = SampleTime(t)
  <2>1. "uint32" \in DOMAIN Width
    BY DEF Width
  <2>2. bytes.ints = Laid(PyType \o << Field("timestamp", "uint32") >>,
                          <<TypeValue(MessageType.SAMPLE_ACK), SampleTime(t)>>)
    BY <1>2, AckInBytes DEF AckFields
  <2>3. /\ Get(Unpack(CMessage, bytes), <<"type">>) = TypeValue(MessageType.SAMPLE_ACK)
        /\ Get(Unpack(Packed(CType \o << Field("timestamp", "uint32") >>), bytes), <<"timestamp">>)
              = SampleTime(t)
    BY <2>1, <2>2, ReadAnswer
  <2> QED BY <2>3 DEF CSampleAck
<1>3. bytes = SetTimeBytes
      \/ \E t \in 1 .. n : StoredFrom(db, o, t) /\ bytes = AckBytes(SampleTime(t))
  BY DEF Answers
<1> QED BY <1>1, <1>2, <1>3

(* discard moves the ring's begin no further than its end, and by the      *)
(* number of periods up to a sample that is stored with those before it.   *)
LEMMA Released ==
  ASSUME WireInv, Dispatch
  PROVE  /\ UNCHANGED <<times, frames, message, stored, failures>> /\ misread' = FALSE
         /\ replies # << >> /\ replies' = Tail(replies)
         /\ \/ first' = first
            \/ \E t \in first .. closed : /\ StoredFrom(stored, first, t)
                                          /\ first' \in first .. closed + 1
                                          /\ first' - 1 <= t + Skipped(first, t)
<1> DEFINE bytes == Head(replies)
           type == Get(Unpack(CMessage, bytes), <<"type">>)
           Stamp(struct) == Get(Unpack(struct, bytes), <<"timestamp">>)
           stamp == CASE type = TypeValue(MessageType.SET_TIME)   -> Stamp(CSetTime)
                      [] type = TypeValue(MessageType.SAMPLE_ACK) -> Stamp(CSampleAck)
                      [] OTHER                                    -> Garbage
           A == Answers(stored, first, closed)
<1>1. /\ replies # << >> /\ replies' = Tail(replies)
      /\ misread' = (misread \/ stamp = Garbage)
      /\ first' = IF type = TypeValue(MessageType.SAMPLE_ACK) /\ stamp # Garbage
                  THEN Discard(times[stamp[3]]) ELSE first
      /\ UNCHANGED <<times, frames, message, stored, failures>>
  BY DEF Dispatch
<1>2. closed \in Nat /\ first \in 1 .. closed + 1 /\ replies \in Seq(A)
  BY Bounds DEF WireInv
<1>3. bytes \in A
  <2> HIDE DEF A
  <2>1. Len(replies) \in Nat \ {0}
    BY <1>1, <1>2, EmptySeq
  <2> QED BY <1>1, <1>2, <2>1, HeadTailProperties
<1>4. TypeValue(MessageType.SET_TIME) # TypeValue(MessageType.SAMPLE_ACK)
  BY DEF TypeValue, MessageType
<1>5. /\ stamp # Garbage
      /\ \/ type # TypeValue(MessageType.SAMPLE_ACK)
         \/ \E t \in 1 .. closed : stamp[3] = t /\ StoredFrom(stored, first, t)
  <2>1. CASE type = TypeValue(MessageType.SET_TIME) /\ Stamp(CSetTime) = ServiceNow
    <3>1. stamp = ServiceNow
      BY <1>4, <2>1
    <3>2. ServiceNow # Garbage
      BY DEF ServiceNow, Garbage
    <3> QED BY <1>4, <2>1, <3>1, <3>2
  <2>2. ASSUME type = TypeValue(MessageType.SAMPLE_ACK), NEW t \in 1 .. closed,
               Stamp(CSampleAck) = SampleTime(t), StoredFrom(stored, first, t)
        PROVE  stamp # Garbage /\ stamp[3] = t
    <3>1. stamp = SampleTime(t)
      BY <1>4, <2>2
    <3>2. SampleTime(t) # Garbage /\ SampleTime(t)[3] = t
      BY DEF SampleTime, Garbage
    <3> QED BY <3>1, <3>2
  <2>3. \/ type = TypeValue(MessageType.SET_TIME) /\ Stamp(CSetTime) = ServiceNow
        \/ /\ type = TypeValue(MessageType.SAMPLE_ACK)
           /\ \E t \in 1 .. closed : /\ Stamp(CSampleAck) = SampleTime(t)
                                     /\ StoredFrom(stored, first, t)
    BY <1>3, ReadReply
  <2> HIDE DEF stamp, type, Stamp
  <2> QED BY <2>1, <2>2, <2>3
<1> HIDE DEF stamp, type
<1>6. misread' = FALSE
  BY <1>1, <1>5 DEF WireInv
<1>7. ASSUME first' # first
      PROVE  \E t \in first .. closed : /\ StoredFrom(stored, first, t)
                                        /\ first' \in first .. closed + 1
                                        /\ first' - 1 <= t + Skipped(first, t)
  <2>1. PICK t \in 1 .. closed : StoredFrom(stored, first, t) /\ first' = Discard(times[t])
    BY <1>1, <1>5, <1>7
  <2> DEFINE d == DiscardCount(times[t])
             a == times[first]
             b == times[t]
  <2>2. first' = CASE d < 0 -> first [] d > closed - first + 1 -> closed + 1 [] OTHER -> first + d
    BY <2>1 DEF Discard
  <2>3. ~ (first > closed)
    <3> SUFFICES ASSUME first > closed PROVE FALSE
      OBVIOUS
    <3>1. d = 0
      BY DEF DiscardCount
    <3> HIDE DEF d
    <3>2. first' = first + d
      BY <1>2, <2>2, <3>1
    <3> QED BY <1>2, <1>7, <3>1, <3>2
  <2>4. d = b - a + 1
    BY <2>3 DEF DiscardCount
  <2>5. times \in Seq(Nat) /\ closed = Len(times) /\ Grows(times)
    BY DEF WireInv, RingOK, closed
  <2>6. first \in 1 .. closed /\ t \in 1 .. closed
    BY <1>2, <2>3
  <2>7. a \in Nat /\ b \in Nat
    BY <2>5, <2>6, ElementOfSeq
  <2>8. t < first => b < a
    BY <2>5, <2>6 DEF Grows
  <2> DEFINE f == first
             n == closed
             g == first'
  <2>9. n \in Nat /\ f \in 1 .. n /\ t \in 1 .. n /\ g # f
    BY <1>2, <1>7, <2>6
  <2>10. g = CASE d < 0 -> f [] d > n - f + 1 -> n + 1 [] OTHER -> f + d
    BY <2>2
  <2>11. Skipped(first, t) = b - a - (t - f) /\ (t < f => b < a)
    BY <2>8 DEF Skipped
  <2> HIDE DEF d, a, b, f, n, g
  <2>12. d \in Int /\ d = b - a + 1
    BY <2>4, <2>7
  <2>13. ~ (d < 0) /\ d # 0
    <3>1. d < 0 => g = f
      BY <2>9, <2>10, <2>12
    <3>2. d = 0 => g = f
      BY <2>9, <2>10, <2>12
    <3> QED BY <2>9, <3>1, <3>2
  <2>14. t \in f .. n
    BY <2>7, <2>9, <2>11, <2>12, <2>13
  <2>15. g \in f .. n + 1 /\ g - 1 <= f + d - 1
    <3>1. CASE d > n - f + 1
      <4>1. g = n + 1
        BY <2>10, <2>13, <3>1
      <4> QED BY <2>9, <2>12, <3>1, <4>1
    <3>2. CASE ~ (d > n - f + 1)
      <4>1. g = f + d
        BY <2>10, <2>13, <3>2
      <4> QED BY <2>9, <2>12, <2>13, <3>2, <4>1
    <3> QED BY <3>1, <3>2
  <2>16. f + d - 1 = t + (b - a - (t - f))
    BY <2>7, <2>9, <2>12
  <2>17. g - 1 <= t + Skipped(first, t)
    BY <2>11, <2>15, <2>16
  <2> QED BY <2>1, <2>14, <2>15, <2>17 DEF f, n, g
<1> QED BY <1>1, <1>6, <1>7

LEMMA DispatchKeeps ==
  ASSUME WireInv, Dispatch
  PROVE  WireInv'
<1> DEFINE A == Answers(stored, first, closed)
<1>1. /\ UNCHANGED <<times, frames, message, stored, failures>> /\ misread' = FALSE
      /\ replies # << >> /\ replies' = Tail(replies)
  BY Released
<1>2. /\ closed \in Nat /\ first \in 1 .. closed + 1 /\ replies \in Seq(A)
      /\ first' \in first .. closed + 1
  <2>1. closed \in Nat /\ first \in 1 .. closed + 1 /\ replies \in Seq(A)
    BY Bounds DEF WireInv
  <2>2. first' = first \/ first' \in first .. closed + 1
    BY Released
  <2> QED BY <2>1, <2>2
<1>3. closed' = closed
  BY <1>1 DEF closed
<1>4. replies' \in Seq(A) /\ Len(replies') <= Len(replies)
  <2> HIDE DEF A
  <2>1. Len(replies) \in Nat \ {0}
    BY <1>1, <1>2, EmptySeq
  <2> QED BY <1>1, <1>2, <2>1, HeadTailProperties
<1>5. Len(replies') <= MaxReplies + 1
  <2> HIDE DEF A
  <2>1. /\ Len(replies) \in Nat /\ Len(replies') \in Nat /\ Len(replies) <= MaxReplies + 1
        /\ MaxReplies \in Nat
    BY <1>2, <1>4, WireAssumption DEF WireInv
  <2> QED BY <1>4, <2>1
<1>6. RingOK'
  <2>1. times' \in Seq(Nat) /\ Grows(times') /\ closed' <= MaxSamples
    BY <1>1, <1>3 DEF WireInv, RingOK
  <2>2. first' \in 1 .. closed' + 1 /\ closed' - first' + 1 < BufferSize
    <3> DEFINE n == closed
               f == first
               g == first'
    <3>1. n - f + 1 < BufferSize /\ BufferSize \in Nat
      BY WireAssumption DEF WireInv, RingOK
    <3>2. n \in Nat /\ f \in 1 .. n + 1 /\ g \in f .. n + 1
      BY <1>2
    <3>3. closed' = n /\ first' = g
      BY <1>3
    <3> HIDE DEF n, f, g
    <3>4. g \in 1 .. n + 1 /\ n - g + 1 < BufferSize
      BY <3>1, <3>2
    <3> QED BY <3>3, <3>4
  <2> QED BY <2>1, <2>2 DEF RingOK
<1>7. /\ FramesOK(first', closed, frames) /\ MessageOK(first', closed, frames, message)
      /\ replies' \in Seq(Answers(stored, first', closed))
  <2>1. /\ stored \subseteq stored /\ closed <= closed
        /\ first \in Nat /\ first' \in Nat /\ first <= first'
    BY <1>2
  <2> QED BY <1>2, <1>4, <2>1, Grow DEF WireInv
<1>8. Len(frames) <= MaxFrames /\ failures \in 0 .. MaxFailures /\ Kept(stored, closed)
  BY DEF WireInv
<1> QED BY <1>1, <1>3, <1>5, <1>6, <1>7, <1>8 DEF WireInv

-----------------------------------------------------------------------------
(* The theorems.                                                           *)

LEMMA StepKeeps ==
  ASSUME WireInv, [Next]_vars
  PROVE  WireInv'
<1>1. CASE TakeSample
  BY <1>1, TakeSampleKeeps
<1>2. CASE Send
  BY <1>2, SendKeeps
<1>3. CASE Receive
  BY <1>3, ReceiveKeeps
<1>4. CASE Handle
  BY <1>4, HandleKeeps
<1>5. CASE Lose
  BY <1>5, LoseKeeps
<1>6. CASE Dispatch
  BY <1>6, DispatchKeeps
<1>7. CASE UNCHANGED vars
  <2>1. RingOK' /\ closed' = closed
    BY <1>7, RingKept DEF vars
  <2> QED BY <1>7, <2>1 DEF vars, WireInv
<1> QED BY <1>1, <1>2, <1>3, <1>4, <1>5, <1>6, <1>7 DEF Next

(* What is on its way fits the ring and what is stored: frames make        *)
(* messages of a header and of consecutive samples, from one that was the  *)
(* oldest, and an answer acknowledges what is stored with all that the     *)
(* ring has before it.                                                     *)
THEOREM WireInvariant == Spec => []WireInv
<1>1. WireInv /\ [Next]_vars => WireInv'
  BY StepKeeps
<1> QED BY <1>1, Begins, PTL DEF Spec

(* The ring, the queues and the failures stay in their bounds, and what is *)
(* stored is of the header's time, in seconds, or of a sample's.           *)
THEOREM WireTyped == Spec => []TypeOK
<1>1. WireInv => TypeOK
  <2> SUFFICES ASSUME WireInv PROVE TypeOK
    OBVIOUS
  <2>1. ASSUME NEW m \in stored
        PROVE  \/ m.time = Seconds(<<"Telemetry", <<"timestamp">>, 0>>)
               \/ m.time[1] = "Sample" /\ m.time[3] \in 1 .. closed
    <3>1. CASE m.time = HeadTime
      BY <3>1 DEF HeadTime, HeadStamp
    <3>2. ASSUME NEW t \in 1 .. closed, NEW i \in 1 .. 13, m = SampleMetric(t, i)
          PROVE  m.time[1] = "Sample" /\ m.time[3] \in 1 .. closed
      <4>1. m.time = SampleTime(t)
        BY <3>2 DEF SampleMetric, Metric
      <4> QED BY <4>1 DEF SampleTime
    <3> QED BY <3>1, <3>2 DEF WireInv, Kept
  <2> QED BY <2>1 DEF WireInv, RingOK, TypeOK
<1> QED BY <1>1, WireInvariant, PTL

(* No frame, message or answer is refused or misread by the other end:     *)
(* the structs of protocol.h and the formats of protocol.py agree.         *)
THEOREM NothingIsMisread == Spec => []Understood
<1>1. WireInv => Understood
  BY DEF WireInv, Understood
<1> QED BY <1>1, WireInvariant, PTL

(* A step that moves the ring's begin takes a sample, or is discard's.     *)
LEMMA OnlyDiscard ==
  ASSUME WireInv, [Next]_vars, first' # first, UNCHANGED times
  PROVE  /\ closed \in Nat /\ first \in 1 .. closed + 1
         /\ \E t \in first .. closed : /\ \A u \in first .. t : Stored(u)
                                       /\ first' \in first .. closed + 1
                                       /\ first' - 1 <= t + Skipped(first, t)
<1>1. Dispatch
  <2>1. ~ TakeSample
    <3> SUFFICES ASSUME TakeSample PROVE FALSE
      OBVIOUS
    <3>1. PICK x : times' = Append(times, x)
      BY DEF TakeSample
    <3>2. times \in Seq(Nat) /\ Len(Append(times, x)) = Len(times) + 1 /\ Len(times) \in Nat
      BY DEF WireInv, RingOK
    <3> QED BY <3>1, <3>2
  <2>2. ~ Send /\ ~ Receive /\ ~ Handle /\ ~ Lose
    BY DEF Send, Receive, Handle, Lose, Store, NotStored, PutFails, Refuse, Reconnect
  <2> QED BY <2>1, <2>2 DEF Next, vars
<1>2. PICK t \in first .. closed : /\ StoredFrom(stored, first, t)
                                  /\ first' \in first .. closed + 1
                                  /\ first' - 1 <= t + Skipped(first, t)
  BY <1>1, Released
<1>3. \A u \in first .. t : Stored(u)
  BY <1>2 DEF StoredFrom, Stored
<1> QED BY <1>2, <1>3, Bounds

(* discardSamples gives up what is stored, field by field, and no more     *)
(* samples beyond it than periods were skipped between those it is for.    *)
THEOREM DiscardedSamplesAreStored == Spec => DiscardedAreStored
<1>1. WireInv /\ [Next]_vars =>
        (first' # first /\ UNCHANGED times =>
           \E t \in first .. closed : /\ \A u \in first .. t : Stored(u)
                                     /\ first' - 1 <= t + Skipped(first, t))
  BY OnlyDiscard
<1>2. WireInv /\ [Next]_vars =>
        [first' # first /\ UNCHANGED times =>
           \E t \in first .. closed : /\ \A u \in first .. t : Stored(u)
                                     /\ first' - 1 <= t + Skipped(first, t)]_vars
  BY <1>1
<1> QED BY <1>2, WireInvariant, PTL DEF Spec, DiscardedAreStored

(* If every sample is taken one period after the last, the timestamps      *)
(* number the samples, and discardSamples gives up what is stored only.    *)
DiscardsStoredOnly ==
  [][UNCHANGED times => \A u \in first .. first' - 1 : Stored(u)]_vars

Numbered == \A i \in 1 .. closed : times[i] = i

THEOREM WithoutGapsDiscardedIsStored ==
  ASSUME Gaps = {1}
  PROVE  Spec => DiscardsStoredOnly
<1>1. Init => Numbered
  BY DEF Init, Numbered, closed
<1>2. ASSUME WireInv, Numbered, [Next]_vars PROVE Numbered'
  <2>1. CASE TakeSample
    <3>1. /\ times \in Seq(Nat) /\ closed = Len(times) /\ closed \in Nat
          /\ \A i \in 1 .. Len(times) : times[i] = i
      BY <1>2, Bounds DEF WireInv, RingOK, Numbered, closed
    <3>2. times' = Append(times, IF times = << >> THEN 1 ELSE Last(times) + 1)
      BY <2>1 DEF TakeSample
    <3> DEFINE l == Len(times)
    <3>3. l \in Nat
      BY <3>1
    <3>4. (IF times = << >> THEN 1 ELSE Last(times) + 1) = l + 1
      <4>1. CASE times = << >>
        <5>1. l = 0
          BY <4>1
        <5> QED BY <4>1, <5>1
      <4>2. CASE times # << >>
        <5>1. l \in 1 .. l /\ Last(times) = times[l]
          BY <3>1, <4>2, EmptySeq DEF Last
        <5> QED BY <3>1, <4>2, <5>1
      <4> QED BY <4>1, <4>2
    <3>5. times' = Append(times, l + 1)
      BY <3>2, <3>4
    <3>6. /\ Len(times') = l + 1 /\ \A i \in 1 .. l : times'[i] = times[i]
          /\ times'[l + 1] = l + 1
      BY <3>1, <3>3, <3>5, AppendProperties
    <3>7. \A i \in 1 .. l : times[i] = i
      BY <3>1
    <3> HIDE DEF l
    <3>8. \A i \in 1 .. l + 1 : times'[i] = i
      BY <3>3, <3>6, <3>7
    <3>9. closed' = l + 1
      BY <3>6 DEF closed
    <3> QED BY <3>8, <3>9 DEF Numbered
  <2>2. CASE UNCHANGED times
    BY <1>2, <2>2 DEF Numbered, closed
  <2>3. TakeSample \/ UNCHANGED times
    BY <1>2 DEF Next, vars, Send, Receive, Handle, Lose, Dispatch, Store, NotStored, PutFails, Refuse,
                Reconnect
  <2> QED BY <2>1, <2>2, <2>3
<1>3. ASSUME WireInv, Numbered, [Next]_vars, UNCHANGED times
      PROVE  \A u \in first .. first' - 1 : Stored(u)
  <2>1. closed \in Nat /\ first \in 1 .. closed + 1
    BY <1>3, Bounds
  <2>2. CASE first' = first
    BY <2>1, <2>2
  <2>3. CASE first' # first
    <3>1. PICK t \in first .. closed : /\ \A u \in first .. t : Stored(u)
                                      /\ first' \in first .. closed + 1
                                      /\ first' - 1 <= t + Skipped(first, t)
      BY <1>3, <2>3, OnlyDiscard
    <3>2. first \in 1 .. closed /\ t \in 1 .. closed
      BY <2>1
    <3>3. times[first] = first /\ times[t] = t
      BY <1>3, <3>2 DEF Numbered
    <3>4. Skipped(first, t) = 0
      BY <2>1, <3>2, <3>3 DEF Skipped
    <3> DEFINE f == first
               g == first' - 1
    <3>5. f \in Nat /\ t \in Nat /\ g \in Int /\ g <= t + 0
      <4>1. first' \in first .. closed + 1 /\ first' - 1 <= t + 0
        BY <3>1, <3>4
      <4> DEFINE e == first'
                 n == closed
      <4>2. f \in 1 .. n /\ t \in 1 .. n /\ e \in f .. n + 1 /\ n \in Nat /\ g = e - 1
        BY <2>1, <3>2, <4>1
      <4> HIDE DEF e, n, f
      <4>3. e - 1 \in Int /\ f \in Nat /\ t \in Nat
        BY <4>2
      <4> QED BY <4>1, <4>2, <4>3
    <3> HIDE DEF f, g
    <3>6. \A u \in f .. g : u \in f .. t
      BY <3>5
    <3> QED BY <3>1, <3>6 DEF f, g
  <2> QED BY <2>2, <2>3
<1>4. WireInv /\ Numbered /\ [Next]_vars =>
        [UNCHANGED times => \A u \in first .. first' - 1 : Stored(u)]_vars
  BY <1>3
<1> QED BY <1>1, <1>2, <1>4, WireInvariant, PTL DEF Spec, DiscardsStoredOnly

(* metrics_for_sample gives each field a name of its own, whatever was     *)
(* sent, and sent again.                                                   *)
THEOREM SeriesAreOne == Spec => []OneSeries
<1>1. WireInv => OneSeries
  <2> SUFFICES ASSUME WireInv, NEW m \in stored, NEW k \in stored
               PROVE  Row(m)[1] = Row(k)[1] <=> Row(m)[2] = Row(k)[2]
    BY DEF OneSeries, Row
  <2>1. ASSUME NEW x \in stored PROVE Row(x) \in SampleRows \union HeadRows
    <3>1. CASE Row(x) \in HeadRows
      BY <3>1
    <3>2. ASSUME NEW t \in 1 .. closed, NEW i \in 1 .. 13, x = SampleMetric(t, i)
          PROVE  Row(x) \in SampleRows
      <4>1. Row(x) = << <<"kiln">> \o PySampleFields[i].name, <<"Sample", CSampleFields[i].name>> >>
        BY <3>2 DEF Row, SampleMetric, Metric
      <4> QED BY <4>1 DEF SampleRows
    <3> QED BY <3>1, <3>2 DEF WireInv, Kept
  <2> HIDE DEF Row
  <2> QED BY <2>1, RowsAreOneToOne
<1> QED BY <1>1, WireInvariant, PTL

(* Two structs whose fields have the same types in the same order, however *)
(* they are named: what one end writes of its fields the other reads, each *)
(* value at the place of its field.                                        *)
THEOREM SameTypesSameValues ==
  ASSUME NEW N, NEW F \in Seq(Fields(N)), NEW G \in Seq(Fields(N)), SameTypes(F, G),
         NEW w, NEW bytes,
         bytes.ints = {[at |-> f.at, type |-> f.type, value |-> w[f.name]] : f \in Packed(F).ints},
         NEW i \in 1 .. Len(G), Only(G, i)
  PROVE  /\ Packed(F).size = Packed(G).size
         /\ Get(Unpack(Packed(G), bytes), G[i].name) = w[F[i].name]
<1> DEFINE v == [j \in 1 .. Len(F) |-> w[F[j].name]]
<1>1. Packed(F).size = Packed(G).size
  BY SameOffsets DEF Packed, SameTypes
<1>2. bytes.ints = Laid(F, v)
  <2> DEFINE I == Packed(F).ints
             u == [f \in I |-> w[f.name]]
  <2>1. ASSUME NEW j \in 1 .. Len(F)
        PROVE  u[[name |-> F[j].name, type |-> F[j].type, at |-> Offsets(F)[j]]] = v[j]
    <3> DEFINE f == [name |-> F[j].name, type |-> F[j].type, at |-> Offsets(F)[j]]
    <3>1. f \in I
      BY DEF Packed
    <3> HIDE DEF I
    <3> QED BY <3>1
  <2>2. \A f \in I : u[f] = w[f.name]
    OBVIOUS
  <2> HIDE DEF u, v
  <2>3. {[at |-> f.at, type |-> f.type, value |-> u[f]] : f \in I} = Laid(F, v)
    BY <2>1, WrittenLaid
  <2> HIDE DEF I
  <2>4. bytes.ints = {[at |-> f.at, type |-> f.type, value |-> w[f.name]] : f \in I}
    BY DEF I
  <2> QED BY <2>2, <2>3, <2>4
<1> HIDE DEF v
<1>3. Unpack(Packed(G), bytes) = Object(G, v)
  BY <1>2, UnpackLaid
<1>4. Get(Object(G, v), G[i].name) = v[i]
  BY GetObject
<1>5. v[i] = w[F[i].name]
  BY DEF v, SameTypes
<1> QED BY <1>1, <1>3, <1>4, <1>5
=============================================================================
