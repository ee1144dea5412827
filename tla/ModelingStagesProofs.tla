------------------------- MODULE ModelingStagesProofs -----------------------
(***************************************************************************)
(* What holds of ModelingStages for all replies, outputs and bounds.       *)
(*                                                                         *)
(* The argument.  Validate compares neighbours in a sorted order; sums     *)
(* that do not wrap make that a fact about every pair, so a map that       *)
(* passes is sound by definition.  A stage's drafts are a valid map with   *)
(* its questions, or nothing a later stage takes for a map; what is past   *)
(* the current stage is gone.  So what infer reads back is extract's map,  *)
(* what emit reads is infer's, and the merge, a fold, keeps at every       *)
(* candidate what the map knew.                                            *)
(***************************************************************************)
EXTENDS ModelingStages, FiniteSetTheorems, WellFoundedInduction, TLAPS
(***************************************************************************)
(* Validate, judged by definition                                          *)
(***************************************************************************)
\* Neighbours in a sorted order decide about every pair.
LEMMA DisjointPairs ==
    ASSUME NEW spans, Len(spans) \in Nat, Disjoint(spans),
           \A i \in 1..Len(spans) : spans[i].start \in Int /\ spans[i].end \in Int,
           NEW i \in 1..Len(spans), NEW j \in 1..Len(spans), i # j
    PROVE  spans[i].end <= spans[j].start \/ spans[j].end <= spans[i].start
<1> DEFINE n == Len(spans)
<1>1. PICK p \in Bijection(1..n, 1..n) :
        /\ SortedBy(p, spans)
        /\ \A k \in 1..n - 1 : spans[p[k + 1]].start >= spans[p[k]].end
  BY DEF Disjoint
<1>2. /\ \A k \in 1..n : p[k] \in 1..n
      /\ \E a \in 1..n : p[a] = i
      /\ \E b \in 1..n : p[b] = j
  BY <1>1 DEF Bijection, Surjection, Injection
<1>3. PICK a \in 1..n, b \in 1..n : p[a] = i /\ p[b] = j
  BY <1>2
<1> HIDE DEF n
<1>4. ASSUME NEW c \in 1..n, NEW d \in 1..n, c < d
      PROVE  spans[p[c]].end <= spans[p[d]].start
  <2>0. n \in Nat
    BY DEF n
  <2>1. c \in 1..n - 1 /\ c + 1 \in 1..n /\ (c + 1 < d \/ c + 1 = d)
    BY <1>4, <2>0
  <2>2. spans[p[c + 1]].start >= spans[p[c]].end
    BY <1>1, <2>1
  <2>3. spans[p[c + 1]].start <= spans[p[d]].start
    <3>1. CASE c + 1 = d
      BY <1>2, <2>1, <3>1 DEF n
    <3>2. CASE c + 1 < d
      BY <1>1, <2>1, <3>2 DEF SortedBy, n
    <3>3. QED BY <2>1, <3>1, <3>2
  <2>4. /\ spans[p[c]].end \in Int /\ spans[p[d]].start \in Int
        /\ spans[p[c + 1]].start \in Int
    BY <1>2, <2>1 DEF n
  <2>5. QED BY <2>2, <2>3, <2>4
<1>5. a # b /\ a \in Int /\ b \in Int
  BY <1>3
<1>6. CASE a < b
  BY <1>3, <1>4, <1>6
<1>7. CASE b < a
  BY <1>3, <1>4, <1>7
<1>8. QED BY <1>5, <1>6, <1>7

\* An end that does not wrap is a sum.
LEMMA SpanForm ==
    ASSUME NEW x \in Int, NEW y \in Int
    PROVE  /\ Span(x, y).start = x /\ Span(x, y).end \in Int
           /\ x + y < Word => Span(x, y).end = x + y
  BY BoundsAssumption DEF Span, Plus, Word

\* What SoundMap asks of one map.
Sound(ir) ==
    /\ \A i, j \in 1..Len(ir.registers) :
           LET r == ir.registers[i]
               q == ir.registers[j]
           IN  i # j => /\ r.name # q.name
                        /\ \/ r.width > ir.mmio \/ q.width > ir.mmio
                           \/ r.offset + r.width <= q.offset
                           \/ q.offset + q.width <= r.offset
    /\ \A r \in Registers(ir) :
           /\ r.width <= ir.mmio => r.offset + r.width <= ir.mmio
           /\ r.reset # Unknown => r.reset < 2 ^ (8 * r.width)
           /\ \A i, j \in 1..Len(r.fields) :
                  i # j => \A b \in 0..8 * r.width : \E f \in {r.fields[i], r.fields[j]} :
                              b < f.bit \/ b >= f.bit + f.width
    /\ Cardinality(ToSet(ir.irqs)) = Len(ir.irqs)

\* Members of a sequence of records.
LEMMA RegistersForm ==
    ASSUME NEW ir \in RegIR
    PROVE  /\ Len(ir.registers) \in Nat /\ DOMAIN ir.registers = 1..Len(ir.registers)
           /\ \A i \in 1..Len(ir.registers) : ir.registers[i] \in Register
           /\ ir.mmio \in 0..Word - 1 /\ Word \in Nat
           /\ Len(ir.irqs) \in Nat /\ DOMAIN ir.irqs = 1..Len(ir.irqs) /\ ir.irqs \in Seq(Int)
           /\ ir.registers \in Seq(Register)
<1>1. ir.registers \in Seq(Register) /\ ir.irqs \in Seq(Int) /\ ir.mmio \in 0..Word - 1
  BY DEF RegIR
<1>2. QED BY <1>1, BoundsAssumption DEF Word

LEMMA FieldsForm ==
    ASSUME NEW r \in Register
    PROVE  /\ r.offset \in 0..Word - 1 /\ r.width \in Nat
           /\ Len(r.fields) \in Nat /\ \A i \in 1..Len(r.fields) : r.fields[i] \in Field
<1>1. r.offset \in 0..Word - 1 /\ r.width \in Nat /\ r.fields \in Seq(Field)
  BY DEF Register
<1>2. QED BY <1>1

\* The fields of a valid register share no bit.
LEMMA FieldsApart ==
    ASSUME NEW r \in Register, NEW mmio, ValidRegister(r, mmio),
           NEW i \in 1..Len(r.fields), NEW j \in 1..Len(r.fields), i # j,
           NEW b \in 0..8 * r.width
    PROVE  \E f \in {r.fields[i], r.fields[j]} : b < f.bit \/ b >= f.bit + f.width
<1> DEFINE spans == [k \in 1..Len(r.fields) |-> Span(r.fields[k].bit, r.fields[k].width)]
<1>1. r.width \in {1, 2, 4, 8} /\ ValidFields(r)
  BY DEF ValidRegister
<1>2. Len(r.fields) \in Nat /\ Len(spans) = Len(r.fields)
  BY FieldsForm
<1>3. \A k \in 1..Len(r.fields) : /\ r.fields[k].bit \in Integer /\ r.fields[k].width \in Integer
                                  /\ r.fields[k].bit \in Int /\ r.fields[k].width \in Int
  BY FieldsForm, BoundsAssumption DEF Field, Integer
<1>4. ASSUME NEW k \in 1..Len(r.fields)
      PROVE  r.fields[k].bit + r.fields[k].width < Word
  BY <1>3, BoundsAssumption DEF Word, Integer
<1>5. Disjoint(spans)
  BY <1>1 DEF ValidFields
<1>6. \A k \in 1..Len(r.fields) : /\ spans[k].start = r.fields[k].bit
                                  /\ spans[k].end = r.fields[k].bit + r.fields[k].width
                                  /\ spans[k].end \in Int
  BY <1>3, <1>4, SpanForm
<1> HIDE DEF spans
<1>7. spans[i].end <= spans[j].start \/ spans[j].end <= spans[i].start
  BY <1>2, <1>3, <1>5, <1>6, DisjointPairs
<1>8. b \in Int
  BY <1>1
<1>9. \/ r.fields[i].bit + r.fields[i].width <= r.fields[j].bit
      \/ r.fields[j].bit + r.fields[j].width <= r.fields[i].bit
  BY <1>6, <1>7
<1> DEFINE x == r.fields[i].bit
           u == r.fields[i].width
           y == r.fields[j].bit
           v == r.fields[j].width
<1>10. x \in Int /\ u \in Int /\ y \in Int /\ v \in Int
  BY <1>3
<1> HIDE DEF x, u, y, v
<1>11. x + u <= y \/ y + v <= x
  BY <1>9 DEF x, u, y, v
<1>12. b < x \/ b >= x + u \/ b < y \/ b >= y + v
  BY ONLY <1>8, <1>10, <1>11
<1>13. QED BY <1>12 DEF x, u, y, v

\* A register the window has room for lies in it: mmioSize - size does not wrap.
LEMMA RegisterFits ==
    ASSUME NEW r \in Register, NEW mmio \in 0..Word - 1, ValidRegister(r, mmio),
           r.width <= mmio
    PROVE  r.offset + r.width <= mmio
<1>1. r.offset \in Int /\ r.width \in Int /\ mmio \in Int /\ r.offset <= Minus(mmio, r.width)
  BY FieldsForm, BoundsAssumption DEF ValidRegister, Word
<1>2. QED BY <1>1 DEF Minus

\* Members that all differ are as many as their positions.
LEMMA DistinctCount ==
    ASSUME NEW s \in Seq(Int), Distinct(s)
    PROVE  Cardinality(ToSet(s)) = Len(s)
<1>1. Len(s) \in Nat /\ DOMAIN s = 1..Len(s)
  OBVIOUS
<1>2. ToSet(s) = {s[i] : i \in 1..Len(s)}
  BY <1>1 DEF ToSet
<1>3. s \in Bijection(1..Len(s), ToSet(s))
  <2>1. s \in [1..Len(s) -> ToSet(s)]
    BY <1>1, <1>2
  <2>2. \A i, j \in 1..Len(s) : s[i] = s[j] => i = j
    BY DEF Distinct
  <2>3. \A t \in ToSet(s) : \E i \in 1..Len(s) : s[i] = t
    BY <1>2
  <2>4. s \in Injection(1..Len(s), ToSet(s))
    BY <2>1, <2>2, Zenon DEF Injection, IsInjective
  <2>5. s \in Surjection(1..Len(s), ToSet(s))
    BY <2>1, <2>3, Zenon DEF Surjection
  <2>6. QED BY <2>4, <2>5 DEF Bijection
<1>4. ExistsBijection(1..Len(s), ToSet(s))
  BY <1>3 DEF ExistsBijection
<1>5. QED BY <1>1, <1>4, FS_CountingElements

\* Two registers of a valid map that the window has room for share no byte.
LEMMA RegistersApart ==
    ASSUME NEW ir \in RegIR, Validate(ir),
           NEW i \in 1..Len(ir.registers), NEW j \in 1..Len(ir.registers), i # j,
           ir.registers[i].width <= ir.mmio, ir.registers[j].width <= ir.mmio
    PROVE  \/ ir.registers[i].offset + ir.registers[i].width <= ir.registers[j].offset
           \/ ir.registers[j].offset + ir.registers[j].width <= ir.registers[i].offset
<1> DEFINE n == Len(ir.registers)
           reg(k) == ir.registers[k]
           spans == [k \in 1..n |-> Span(reg(k).offset, reg(k).width)]
<1>1. n \in Nat /\ Len(spans) = n /\ ir.mmio < Word /\ ir.mmio \in Int /\ Word \in Int
  BY RegistersForm
<1>2. \A k \in 1..n : reg(k) \in Register
  BY RegistersForm
<1>3. \A k \in 1..n : reg(k).offset \in Int /\ reg(k).width \in Int
  BY <1>2, FieldsForm, BoundsAssumption DEF Word
<1>4. Disjoint(spans) /\ \A k \in 1..n : ValidRegister(reg(k), ir.mmio)
  BY DEF Validate
<1>5. /\ reg(i).offset + reg(i).width <= ir.mmio
      /\ reg(j).offset + reg(j).width <= ir.mmio
  BY <1>2, <1>4, RegistersForm, RegisterFits
<1>6. \A k \in 1..n : spans[k] = Span(reg(k).offset, reg(k).width)
  OBVIOUS
<1>7. \A k \in 1..n : spans[k].start \in Int /\ spans[k].end \in Int
  BY <1>3, <1>6, SpanForm
<1> HIDE DEF reg
<1>8. /\ spans[i].start = reg(i).offset /\ spans[i].end = reg(i).offset + reg(i).width
      /\ spans[j].start = reg(j).offset /\ spans[j].end = reg(j).offset + reg(j).width
  <2>1. ASSUME NEW k \in 1..n, reg(k).offset + reg(k).width <= ir.mmio
        PROVE  spans[k].start = reg(k).offset /\ spans[k].end = reg(k).offset + reg(k).width
    <3>1. reg(k).offset \in Int /\ reg(k).width \in Int
      BY <1>3
    <3>2. reg(k).offset + reg(k).width < Word
      BY <1>1, <2>1, <3>1
    <3>3. QED BY <1>6, <3>1, <3>2, SpanForm
  <2>2. QED BY <1>5, <2>1
<1> HIDE DEF spans
<1>9. spans[i].end <= spans[j].start \/ spans[j].end <= spans[i].start
  BY <1>1, <1>4, <1>7, DisjointPairs
<1>10. QED BY <1>8, <1>9 DEF reg

\* "Validate is the single gate between model output and everything downstream"
\* (regir.go:117): what passes it is sound.
LEMMA ValidateSound ==
    ASSUME NEW ir \in RegIR, Validate(ir)
    PROVE  Sound(ir)
<1> DEFINE n == Len(ir.registers)
           reg(k) == ir.registers[k]
<1>1. n \in Nat /\ ir.mmio \in 0..Word - 1 /\ ir.mmio \in Int
  BY RegistersForm
<1>2. \A k \in 1..n : reg(k) \in Register /\ ValidRegister(reg(k), ir.mmio)
  BY RegistersForm DEF Validate
<1>3. \A k \in 1..n : reg(k).offset \in Int /\ reg(k).width \in Int
  BY <1>2, FieldsForm, BoundsAssumption DEF Word
<1>4. ASSUME NEW i \in 1..n, NEW j \in 1..n, i # j
      PROVE  /\ reg(i).name # reg(j).name
             /\ \/ reg(i).width > ir.mmio \/ reg(j).width > ir.mmio
                \/ reg(i).offset + reg(i).width <= reg(j).offset
                \/ reg(j).offset + reg(j).width <= reg(i).offset
  <2> DEFINE names == [k \in 1..n |-> reg(k).name]
  <2>1. Distinct(names)
    BY DEF Validate
  <2>2. Len(names) = n /\ names[i] = reg(i).name /\ names[j] = reg(j).name
    BY <1>1
  <2>3. reg(i).name # reg(j).name
    BY <1>4, <2>1, <2>2 DEF Distinct
  <2>4. CASE reg(i).width <= ir.mmio /\ reg(j).width <= ir.mmio
    BY <1>4, <2>3, <2>4, RegistersApart
  <2>5. QED BY <1>1, <1>3, <2>3, <2>4
<1>5. \A r \in Registers(ir) : \E k \in 1..n : r = reg(k)
  BY RegistersForm DEF Registers, ToSet
<1>6. ASSUME NEW r \in Registers(ir)
      PROVE  /\ r.width <= ir.mmio => r.offset + r.width <= ir.mmio
             /\ r.reset # Unknown => r.reset < 2 ^ (8 * r.width)
             /\ \A i, j \in 1..Len(r.fields) :
                    i # j => \A b \in 0..8 * r.width : \E f \in {r.fields[i], r.fields[j]} :
                                b < f.bit \/ b >= f.bit + f.width
  <2>1. r \in Register /\ ValidRegister(r, ir.mmio)
    BY <1>2, <1>5, <1>6
  <2>2. r.width <= ir.mmio => r.offset + r.width <= ir.mmio
    BY <1>1, <2>1, RegisterFits
  <2>3. r.reset # Unknown => r.reset < 2 ^ (8 * r.width)
    BY <2>1 DEF ValidRegister, Fits
  <2>4. QED BY <2>1, <2>2, <2>3, FieldsApart
<1>7. Cardinality(ToSet(ir.irqs)) = Len(ir.irqs)
  BY RegistersForm, DistinctCount DEF Validate
<1> HIDE DEF reg, n
<1>8. QED BY <1>4, <1>6, <1>7 DEF Sound, reg, n

(***************************************************************************)
(* The merge                                                               *)
(***************************************************************************)
\* Induction over the numbers, for a set and so without an operator parameter.
LEMMA SetInduction ==
    ASSUME NEW T, 0 \in T, \A n \in Nat : n \in T => n + 1 \in T
    PROVE  Nat \subseteq T
<1> SUFFICES ASSUME Nat \ T # {} PROVE FALSE
  OBVIOUS
<1>1. PICK x \in Nat \ T : \A y \in Nat \ T : <<y, x>> \notin OpToRel(<, Nat)
  BY NatLessThanWellFounded, WFMin
<1>2. x \in Nat /\ x \notin T
  BY <1>1
<1>3. x # 0
  BY <1>2
<1>4. x - 1 \in Nat /\ x - 1 < x /\ (x - 1) + 1 = x
  BY <1>2, <1>3
<1>5. <<x - 1, x>> \in OpToRel(<, Nat)
  BY <1>2, <1>4 DEF OpToRel
<1>6. x - 1 \in T
  BY <1>1, <1>4, <1>5
<1>7. (x - 1) + 1 \in T
  BY <1>4, <1>6
<1>8. QED BY <1>2, <1>4, <1>7

LEMMA LastPosition ==
    ASSUME NEW k \in Nat, NEW s \in SUBSET (1..(k + 1)), k + 1 \in s
    PROVE  Max(s) = k + 1 /\ s \ {k + 1} \in SUBSET (1..k)
<1>1. \A x \in s : x \in 1..(k + 1)
  OBVIOUS
<1>2. \A x \in s : (\A y \in s : x >= y) <=> x = k + 1
  BY <1>1
<1>3. Max(s) = k + 1
  BY <1>2 DEF Max
<1>4. QED BY <1>1, <1>3

LEMMA MaxIn ==
    ASSUME NEW k \in Nat, NEW s \in SUBSET (1..k), s # {}
    PROVE  Max(s) \in s
<1> DEFINE T == {j \in Nat : \A t \in SUBSET (1..j) : t # {} => Max(t) \in t}
<1>1. 0 \in T
  <2>1. \A t \in SUBSET (1..0) : t = {}
    OBVIOUS
  <2>2. QED BY <2>1
<1>2. ASSUME NEW j \in Nat, j \in T PROVE j + 1 \in T
  <2>1. ASSUME NEW t \in SUBSET (1..(j + 1)), t # {} PROVE Max(t) \in t
    <3>1. CASE j + 1 \in t
      BY <3>1, LastPosition
    <3>2. CASE j + 1 \notin t
      <4>1. t \in SUBSET (1..j)
        BY <3>2
      <4>2. QED BY <1>2, <2>1, <4>1
    <3>3. QED BY <3>1, <3>2
  <2>2. QED BY <2>1
<1> HIDE DEF T
<1>3. Nat \subseteq T
  BY <1>1, <1>2, SetInduction
<1>4. QED BY <1>3 DEF T

FoldsOf(base, Y, F, n) ==
    {g \in [SUBSET (1..n) -> Y] : \A s \in SUBSET (1..n) :
        g[s] = IF s = {} THEN base ELSE F[<<g[s \ {Max(s)}], Max(s)>>]}

\* There is such a function ...
LEMMA FoldExists ==
    ASSUME NEW base, NEW Y, base \in Y, NEW n \in Nat, NEW F \in [Y \X (1..n) -> Y]
    PROVE  \E g : g \in FoldsOf(base, Y, F, n)
<1> DEFINE Folds(k) == FoldsOf(base, Y, F, k)
           T == {k \in Nat : k <= n => Folds(k) # {}}
<1>1. 0 \in T
  <2>1. \A s \in SUBSET (1..0) : s = {}
    <3>1. \A x : x \notin 1..0
      OBVIOUS
    <3>2. QED BY <3>1
  <2>2. PICK g : g = [s \in SUBSET (1..0) |-> base]
    OBVIOUS
  <2>3. g \in [SUBSET (1..0) -> Y] /\ \A s \in SUBSET (1..0) : g[s] = base
    BY <2>2
  <2>4. \A s \in SUBSET (1..0) :
            g[s] = IF s = {} THEN base ELSE F[<<g[s \ {Max(s)}], Max(s)>>]
    BY ONLY <2>1, <2>3
  <2>5. g \in Folds(0)
    BY <2>3, <2>4 DEF FoldsOf
  <2> HIDE DEF Folds
  <2>6. QED BY <2>5
<1> HIDE DEF Folds
<1>2. ASSUME NEW k \in Nat, k \in T PROVE k + 1 \in T
  <2> SUFFICES ASSUME k + 1 <= n PROVE Folds(k + 1) # {}
    OBVIOUS
  <2>1. PICK g : g \in Folds(k)
    BY <1>2
  <2>2. g \in [SUBSET (1..k) -> Y]
    BY <2>1 DEF Folds, FoldsOf
  <2>3. ASSUME NEW s \in SUBSET (1..k), s # {}
        PROVE g[s] = F[<<g[s \ {Max(s)}], Max(s)>>]
    BY <2>1, <2>3 DEF Folds, FoldsOf
  <2>4. g[{}] = base
    BY <2>1 DEF Folds, FoldsOf
  <2> DEFINE h == [s \in SUBSET (1..(k + 1)) |->
                      IF k + 1 \in s THEN F[<<g[s \ {k + 1}], k + 1>>] ELSE g[s]]
  <2>5. ASSUME NEW s \in SUBSET (1..(k + 1)), k + 1 \notin s
        PROVE s \in SUBSET (1..k) /\ h[s] = g[s]
    <3>1. s \in SUBSET (1..k)
      BY <2>5
    <3>2. QED BY <2>5, <3>1
  <2>6. ASSUME NEW s \in SUBSET (1..(k + 1)), k + 1 \in s
        PROVE /\ Max(s) = k + 1 /\ s \ {k + 1} \in SUBSET (1..k)
              /\ h[s] = F[<<g[s \ {k + 1}], k + 1>>]
              /\ h[s \ {k + 1}] = g[s \ {k + 1}]
    <3>1. Max(s) = k + 1 /\ s \ {k + 1} \in SUBSET (1..k)
      BY <2>6, LastPosition
    <3>2. s \ {k + 1} \in SUBSET (1..(k + 1)) /\ k + 1 \notin s \ {k + 1}
      OBVIOUS
    <3>3. h[s \ {k + 1}] = g[s \ {k + 1}]
      BY <2>5, <3>2
    <3>4. QED BY <2>6, <3>1, <3>3
  <2> HIDE DEF h
  <2>7. h \in [SUBSET (1..(k + 1)) -> Y]
    <3>1. \A s \in SUBSET (1..(k + 1)) : h[s] \in Y
      <4> TAKE s \in SUBSET (1..(k + 1))
      <4>1. CASE k + 1 \in s
        <5>1. g[s \ {k + 1}] \in Y /\ k + 1 \in 1..n
          BY <2>2, <2>6, <4>1
        <5>2. QED BY <2>6, <4>1, <5>1
      <4>2. CASE k + 1 \notin s
        BY <2>2, <2>5, <4>2
      <4>3. QED BY <4>1, <4>2
    <3>2. h = [s \in SUBSET (1..(k + 1)) |-> h[s]]
      BY DEF h
    <3>3. QED BY <3>1, <3>2
  <2>8. ASSUME NEW s \in SUBSET (1..(k + 1))
        PROVE h[s] = IF s = {} THEN base ELSE F[<<h[s \ {Max(s)}], Max(s)>>]
    <3>1. CASE k + 1 \in s
      <4>1. s # {}
        BY <3>1
      <4>2. QED BY <2>6, <3>1, <4>1
    <3>2. CASE k + 1 \notin s /\ s # {}
      <4>1. s \in SUBSET (1..k) /\ h[s] = g[s]
        BY <2>5, <3>2
      <4>2. s \ {Max(s)} \in SUBSET (1..(k + 1)) /\ k + 1 \notin s \ {Max(s)}
        BY <3>2
      <4>3. h[s \ {Max(s)}] = g[s \ {Max(s)}]
        BY <2>5, <4>2
      <4>4. QED BY <2>3, <3>2, <4>1, <4>3
    <3>3. CASE s = {}
      BY <2>4, <2>5, <3>3
    <3>4. QED BY <3>1, <3>2, <3>3
  <2>9. h \in Folds(k + 1)
    BY <2>7, <2>8 DEF Folds, FoldsOf
  <2>10. QED BY <2>9
<1> HIDE DEF T
<1>3. Nat \subseteq T
  BY <1>1, <1>2, SetInduction
<1>4. Folds(n) # {}
  BY <1>3 DEF T
<1>5. QED BY <1>4 DEF Folds

\* ... and what each step keeps, it keeps.
LEMMA FoldKeeps ==
    ASSUME NEW Y, NEW n \in Nat, NEW g, g[{}] \in Y,
           \A s \in SUBSET (1..n) : s # {} /\ g[s \ {Max(s)}] \in Y => g[s] \in Y
    PROVE  \A s \in SUBSET (1..n) : g[s] \in Y
<1> DEFINE T == {k \in Nat : k <= n => \A s \in SUBSET (1..k) : g[s] \in Y}
<1>1. 0 \in T
  <2>1. \A s \in SUBSET (1..0) : s = {}
    OBVIOUS
  <2>2. QED BY <2>1
<1>2. ASSUME NEW k \in Nat, k \in T PROVE k + 1 \in T
  <2> SUFFICES ASSUME k + 1 <= n, NEW s \in SUBSET (1..(k + 1)) PROVE g[s] \in Y
    OBVIOUS
  <2>1. \A t \in SUBSET (1..k) : g[t] \in Y
    BY <1>2
  <2>2. CASE k + 1 \in s
    <3>1. Max(s) = k + 1 /\ s \ {k + 1} \in SUBSET (1..k) /\ s # {}
      BY <2>2, LastPosition
    <3>2. s \in SUBSET (1..n)
      OBVIOUS
    <3>3. QED BY <2>1, <3>1, <3>2
  <2>3. CASE k + 1 \notin s
    <3>1. s \in SUBSET (1..k)
      BY <2>3
    <3>2. QED BY <2>1, <3>1
  <2>4. QED BY <2>2, <2>3
<1> HIDE DEF T
<1>3. Nat \subseteq T
  BY <1>1, <1>2, SetInduction
<1>4. QED BY <1>3 DEF T

\* What the no-rewrite rule keeps of one register.
Keeps(r, q) ==
    /\ <<q.name, q.offset, q.width, q.access>> = <<r.name, r.offset, r.width, r.access>>
    /\ r.reset # Unknown => q.reset = r.reset
    /\ r.fields # <<>> => q.fields = r.fields

KeepsAll(old, new) ==
    /\ Len(new) = Len(old)
    /\ \A i \in 1..Len(old) : Keeps(old[i], new[i])

LEMMA MergeRegisterKeeps ==
    ASSUME NEW r \in Register, NEW q \in Register, Keeps(r, q), NEW c \in Register
    PROVE  MergeRegister(q, c) \in Register /\ Keeps(r, MergeRegister(q, c))
<1> DEFINE m == MergeRegister(q, c)
<1>1. /\ m = [q EXCEPT !.reset = m.reset, !.effect = m.effect, !.fields = m.fields]
      /\ m.reset = IF q.reset = Unknown /\ Fits(c.reset, q.width) THEN c.reset ELSE q.reset
      /\ m.effect = (q.effect \/ c.effect)
      /\ m.fields = IF q.fields = <<>> THEN c.fields ELSE q.fields
  BY DEF MergeRegister, Register
<1> HIDE DEF m
<1>2. /\ m.reset \in Nat \union {Unknown} /\ m.effect \in BOOLEAN /\ m.fields \in Seq(Field)
  BY <1>1 DEF Register
<1>3. m \in Register /\ <<m.name, m.offset, m.width, m.access>> = <<q.name, q.offset, q.width, q.access>>
  BY <1>1, <1>2 DEF Register
<1>4. r.reset # Unknown => m.reset = r.reset
  BY <1>1 DEF Keeps
<1>5. r.fields # <<>> => m.fields = r.fields
  BY <1>1 DEF Keeps
<1>6. QED BY <1>3, <1>4, <1>5 DEF Keeps, m

LEMMA MergeCandidateKeeps ==
    ASSUME NEW old \in Seq(Register), NEW new \in Seq(Register), KeepsAll(old, new),
           NEW c \in Register
    PROVE  MergeCandidate(new, c) \in Seq(Register) /\ KeepsAll(old, MergeCandidate(new, c))
<1> DEFINE m == MergeCandidate(new, c)
           n == Len(new)
<1>1. n \in Nat /\ n = Len(old) /\ \A i \in 1..n : new[i] \in Register /\ old[i] \in Register
  BY DEF KeepsAll
<1>2. \A i \in 1..n : m[i] = new[i] \/ m[i] = MergeRegister(new[i], c)
  BY DEF MergeCandidate
<1>3. \A i \in 1..n : m[i] \in Register /\ Keeps(old[i], m[i])
  BY <1>1, <1>2, MergeRegisterKeeps DEF KeepsAll
<1>4. m = [i \in 1..n |-> m[i]]
  BY DEF MergeCandidate
<1> HIDE DEF m
<1>5. m \in Seq(Register) /\ Len(m) = n
  BY <1>1, <1>3, <1>4
<1>6. QED BY <1>1, <1>3, <1>5 DEF KeepsAll, m

LEMMA MergedKeeps ==
    ASSUME NEW old \in Seq(Register), NEW proposed \in Seq(Register)
    PROVE  LET new == FoldLeft(MergeCandidate, old, proposed)
           IN  new \in Seq(Register) /\ KeepsAll(old, new)
<1> DEFINE n == Len(proposed)
           Y == {new \in Seq(Register) : KeepsAll(old, new)}
           F == [p \in Y \X (1..n) |-> MergeCandidate(p[1], proposed[p[2]])]
           Step(h) == [s \in SUBSET (1..n) |->
                          IF s = {} THEN old
                          ELSE MergeCandidate(h[s \ {Max(s)}], proposed[Max(s)])]
           iter == CHOOSE h : h = Step(h)
<1>1. n \in Nat /\ DOMAIN proposed = 1..n /\ \A k \in 1..n : proposed[k] \in Register
  <2> HIDE DEF Y, F, Step, iter
  <2>1. QED OBVIOUS
<1>2. old \in Y
  BY DEF KeepsAll, Keeps
<1>3. ASSUME NEW new \in Y, NEW k \in 1..n PROVE MergeCandidate(new, proposed[k]) \in Y
  BY <1>1, <1>3, MergeCandidateKeeps
<1> HIDE DEF Y
<1>4. F \in [Y \X (1..n) -> Y] /\ \A c \in Y, k \in 1..n : F[<<c, k>>] = MergeCandidate(c, proposed[k])
  <2> HIDE DEF n, Step, iter
  <2>1. \A p \in Y \X (1..n) : p[1] \in Y /\ p[2] \in 1..n
    OBVIOUS
  <2>2. QED BY <1>3, <2>1
<1>5. \A s \in SUBSET (1..n) : s # {} => Max(s) \in 1..n /\ s \ {Max(s)} \in SUBSET (1..n)
  BY <1>1, MaxIn
<1>6. \E h : h = Step(h)
  <2> HIDE DEF F
  <2> DEFINE Folds == FoldsOf(old, Y, F, n)
  <2>0. PICK g : g \in Folds
    BY <1>1, <1>2, <1>4, FoldExists
  <2>1. /\ g \in [SUBSET (1..n) -> Y]
        /\ \A s \in SUBSET (1..n) :
              g[s] = IF s = {} THEN old ELSE F[<<g[s \ {Max(s)}], Max(s)>>]
    BY <2>0 DEF FoldsOf
  <2>2. ASSUME NEW s \in SUBSET (1..n)
        PROVE g[s] = IF s = {} THEN old ELSE MergeCandidate(g[s \ {Max(s)}], proposed[Max(s)])
    <3>1. CASE s = {}
      BY <2>1, <3>1
    <3>2. CASE s # {}
      <4>1. g[s \ {Max(s)}] \in Y
        BY <1>5, <2>1, <3>2
      <4>2. QED BY <1>4, <1>5, <2>1, <3>2, <4>1
    <3>3. QED BY <3>1, <3>2
  <2>3. g = [s \in SUBSET (1..n) |-> g[s]]
    BY <2>1
  <2>4. g = Step(g)
    BY <2>2, <2>3
  <2>5. QED BY <2>4
<1>7. iter = Step(iter)
  BY <1>6
<1>8. FoldLeft(MergeCandidate, old, proposed) = iter[1..n]
  BY <1>1 DEF FoldLeft, MapThenFoldSet
<1> HIDE DEF iter, F
<1>9. /\ iter[{}] = old
      /\ \A s \in SUBSET (1..n) :
            s # {} => iter[s] = MergeCandidate(iter[s \ {Max(s)}], proposed[Max(s)])
  <2>1. \A s \in SUBSET (1..n) : iter[s] = Step(iter)[s]
    BY <1>7
  <2>2. \A s \in SUBSET (1..n) : iter[s] = IF s = {} THEN old
                                 ELSE MergeCandidate(iter[s \ {Max(s)}], proposed[Max(s)])
    BY <2>1
  <2>3. {} \in SUBSET (1..n)
    OBVIOUS
  <2>4. QED BY <2>2, <2>3
<1> HIDE DEF Step
<1>10. \A s \in SUBSET (1..n) : s # {} /\ iter[s \ {Max(s)}] \in Y => iter[s] \in Y
  BY <1>3, <1>5, <1>9
<1>11. \A s \in SUBSET (1..n) : iter[s] \in Y
  BY <1>1, <1>2, <1>9, <1>10, FoldKeeps
<1>12. iter[1..n] \in Y
  BY <1>11
<1>13. QED BY <1>8, <1>12 DEF Y

\* mergeInferred changes nothing of what the base knew, and what comes out is a map
\* again.
LEMMA InferredKeeps ==
    ASSUME NEW base \in RegIR, NEW proposal \in RegIR
    PROVE  LET ir == MergeInferred(base, proposal)
           IN  /\ ir \in RegIR
               /\ KeepsAll(base.registers, ir.registers)
               /\ base.irqs # <<>> => ir.irqs = base.irqs
<1> DEFINE ir == MergeInferred(base, proposal)
           merged == FoldLeft(MergeCandidate, base.registers, proposal.registers)
<1>1. merged \in Seq(Register) /\ KeepsAll(base.registers, merged)
  BY MergedKeeps, RegistersForm
<1> HIDE DEF merged
<1>2. /\ ir = [base EXCEPT !.registers = ir.registers, !.irqs = ir.irqs,
                           !.notes = ir.notes, !.long = ir.long]
      /\ ir.registers = merged
      /\ ir.irqs = IF base.irqs = <<>> THEN proposal.irqs ELSE base.irqs
      /\ ir.notes = (base.notes \/ proposal.notes \/ Refused(base, proposal))
      /\ ir.long = (base.long \/ proposal.long)
  BY DEF MergeInferred, RegIR, merged
<1> HIDE DEF ir
<1>3. ir.irqs \in Seq(Int) /\ ir.long \in BOOLEAN
  BY <1>2 DEF RegIR
<1>4. ir.notes \in BOOLEAN
  BY <1>2
<1>5. ir \in RegIR
  BY <1>1, <1>2, <1>3, <1>4 DEF RegIR
<1>6. QED BY <1>1, <1>2, <1>5 DEF ir

(***************************************************************************)
(* The inductive invariant                                                 *)
(***************************************************************************)

\* What a sequence of drafts has under a name; Filed is this of a stage.
In(drafts, name) == {drafts[i].body : i \in {j \in 1..Len(drafts) : drafts[j].name = name}}

\* Drafts none of which is, or is taken for, a register map.
NoMap(drafts) ==
    /\ Len(drafts) \in Nat /\ drafts = [i \in 1..Len(drafts) |-> drafts[i]]
    /\ \A i \in 1..Len(drafts) : drafts[i].name # "reg-ir.json" /\ drafts[i].kind # "regir"

\* The drafts of a valid map: itself first, then its questions.
MapStage(drafts) ==
    LET ir == drafts[1].body
    IN  drafts # <<>> /\ ir \in RegIR /\ Validate(ir) /\ drafts = MapDrafts(ir)

Kept(extracted, inferred) ==
    \A old \in In(extracted, "reg-ir.json"), new \in In(inferred, "reg-ir.json") :
        KeepsAll(old.registers, new.registers) /\ (old.irqs # <<>> => new.irqs = old.irqs)

\* What emit files is of the map infer filed, when it filed one.
Emitted(inferred, emitted) ==
    \A ir \in In(inferred, "reg-ir.json") : emitted \in {<<>>, EmitDrafts(ir)}

Shape(a, c) ==
    /\ c \in StageOrder /\ a = [t \in StageOrder |-> a[t]]
    /\ \A t \in StageOrder : NoMap(a[t]) \/ (t \in {extract, infer} /\ MapStage(a[t]))
    /\ \A t \in StageOrder : t > c => a[t] = <<>>
    /\ c \in {extract, infer} => NoMap(a[c])
    /\ Kept(a[extract], a[infer])
    /\ Emitted(a[infer], a[emit])

Earned == Len(ran) = 2 /\ Passed(ran[1]) /\ Passed(ran[2])

Verdict ==
    /\ \A report \in In(artifacts[verify], "evidence.json") : report.ok => Earned
    /\ status = "done" => \E report \in In(artifacts[verify], "evidence.json") : report.ok

IInv == Shape(artifacts, current) /\ Verdict

LEMMA NothingIn ==
    /\ NoMap(<<>>)
    /\ \A name : In(<<>>, name) = {}
    /\ \A drafts : NoMap(drafts) => In(drafts, "reg-ir.json") = {}
<1>1. Len(<<>>) = 0 /\ \A i : i \notin 1..0
  OBVIOUS
<1>2. <<>> = [i \in 1..0 |-> <<>>[i]]
  OBVIOUS
<1>3. NoMap(<<>>)
  BY <1>1, <1>2 DEF NoMap
<1>4. \A name : In(<<>>, name) = {}
  BY <1>1 DEF In
<1>5. \A drafts : NoMap(drafts) => In(drafts, "reg-ir.json") = {}
  BY DEF NoMap, In
<1>6. QED BY <1>3, <1>4, <1>5

LEMMA Pair ==
    ASSUME NEW u, NEW v
    PROVE  /\ Len(<<u>> \o <<v>>) = 2
           /\ (<<u>> \o <<v>>)[1] = u /\ (<<u>> \o <<v>>)[2] = v
<1>1. /\ <<u>> \in Seq({u, v}) /\ Len(<<u>>) = 1 /\ <<u>>[1] = u
      /\ <<v>> \in Seq({u, v}) /\ Len(<<v>>) = 1 /\ <<v>>[1] = v
  OBVIOUS
<1>2. PICK x \in Seq({u, v}), y \in Seq({u, v}) : x = <<u>> /\ y = <<v>>
  BY <1>1
<1>3. Len(x \o y) = 2 /\ (x \o y)[1] = u /\ (x \o y)[2] = v
  BY <1>1, <1>2
<1>4. QED BY <1>2, <1>3

\* A map's drafts are one map and at most one page of questions.
LEMMA MapDraftsHave ==
    ASSUME NEW ir
    PROVE  /\ In(MapDrafts(ir), "reg-ir.json") = {ir}
           /\ UNION {q.resets : q \in In(MapDrafts(ir), "open-questions.md")} =
                  OpenQuestions(ir).resets
           /\ MapDrafts(ir) # <<>> /\ MapDrafts(ir)[1].body = ir
           /\ Len(MapDrafts(ir)) \in {1, 2}
           /\ MapDrafts(ir)[1].kind = "regir" /\ MapDrafts(ir)[1].name = "reg-ir.json"
           /\ Len(MapDrafts(ir)) = 2 => /\ MapDrafts(ir)[2].kind = "plan"
                                        /\ MapDrafts(ir)[2].name = "open-questions.md"
<1> DEFINE asked == OpenQuestions(ir)
           first == Draft("reg-ir.json", "regir", ir)
           second == Draft("open-questions.md", "plan", asked)
           quiet == asked.resets = {} /\ ~asked.others
           m == MapDrafts(ir)
<1>1. /\ first.name = "reg-ir.json" /\ first.kind = "regir" /\ first.body = ir
      /\ second.name = "open-questions.md" /\ second.kind = "plan" /\ second.body = asked
  BY DEF Draft
<1>2. m = <<first>> \o (IF quiet THEN <<>> ELSE <<second>>)
  BY DEF MapDrafts
<1> HIDE DEF asked, first, second, quiet, m
<1>3. CASE quiet
  <2>1. m = <<first>>
    BY <1>2, <1>3
  <2>2. Len(m) = 1 /\ m[1] = first /\ 1..1 = {1} /\ m # <<>>
    BY <2>1
  <2>3. In(m, "reg-ir.json") = {ir} /\ In(m, "open-questions.md") = {}
    BY <1>1, <2>2 DEF In
  <2>4. asked.resets = {}
    BY <1>3 DEF quiet
  <2>5. UNION {q.resets : q \in In(m, "open-questions.md")} = asked.resets
    BY <2>3, <2>4
  <2>6. QED BY <1>1, <2>2, <2>3, <2>5 DEF m, asked
<1>4. CASE ~quiet
  <2>0. m = <<first>> \o <<second>>
    BY <1>2, <1>4
  <2>2. Len(m) = 2 /\ m[1] = first /\ m[2] = second /\ 1..2 = {1, 2} /\ m # <<>>
    <3>1. Len(m) = 2 /\ m[1] = first /\ m[2] = second
      BY <2>0, Pair
    <3>2. QED BY <3>1
  <2>3. In(m, "reg-ir.json") = {ir} /\ In(m, "open-questions.md") = {asked}
    BY <1>1, <2>2 DEF In
  <2>4. UNION {q.resets : q \in In(m, "open-questions.md")} = asked.resets
    BY <2>3
  <2>5. QED BY <1>1, <2>2, <2>3, <2>4 DEF m, asked
<1>5. QED BY <1>3, <1>4

\* Filing a stage's drafts clears the later stages.
LEMMA RecordShape ==
    ASSUME NEW a, NEW c, Shape(a, c), NEW s \in StageOrder, NEW drafts,
           NoMap(drafts) \/ (s \in {extract, infer} /\ MapStage(drafts)),
           s = infer => Kept(a[extract], drafts),
           s = emit => Emitted(a[infer], drafts),
           NEW d \in StageOrder, d = s \/ d = s + 1,
           d = s /\ d \in {extract, infer} => NoMap(drafts),
           NEW b, b = [t \in StageOrder |->
                         IF t < s THEN a[t] ELSE IF t = s THEN drafts ELSE <<>>]
    PROVE  Shape(b, d)
<1> USE DEF StageOrder, plan, extract, infer, emit, verify
<1>1. \A t \in StageOrder : b[t] = IF t < s THEN a[t] ELSE IF t = s THEN drafts ELSE <<>>
  OBVIOUS
<1>2. b = [t \in StageOrder |-> b[t]]
  OBVIOUS
<1>3. \A t \in StageOrder : NoMap(b[t]) \/ (t \in {extract, infer} /\ MapStage(b[t]))
  BY <1>1, NothingIn DEF Shape
<1>4. \A t \in StageOrder : t > d => b[t] = <<>>
  BY <1>1
<1>5. d \in {extract, infer} => NoMap(b[d])
  BY <1>1, NothingIn
<1>6. Kept(b[extract], b[infer])
  <2>1. CASE s < infer
    <3>1. In(b[infer], "reg-ir.json") = {}
      BY <1>1, <2>1, NothingIn
    <3>2. QED BY <3>1 DEF Kept
  <2>2. CASE s >= infer
    BY <1>1, <2>2 DEF Shape
  <2>3. QED BY <2>1, <2>2
<1>7. Emitted(b[infer], b[emit])
  <2>1. CASE s < emit
    BY <1>1, <2>1 DEF Emitted
  <2>2. CASE s >= emit
    BY <1>1, <2>2 DEF Shape
  <2>3. QED BY <2>1, <2>2
<1>8. QED BY <1>2, <1>3, <1>4, <1>5, <1>6, <1>7 DEF Shape

LEMMA NoMapConcat ==
    ASSUME NEW x, NoMap(x), NEW y, NoMap(y)
    PROVE  NoMap(x \o y) /\ x \o <<>> = x
<1>1. Len(x) \in Nat /\ Len(y) \in Nat
  BY DEF NoMap
<1> DEFINE S == ToSet(x) \union ToSet(y)
<1>2. DOMAIN x = 1..Len(x) /\ DOMAIN y = 1..Len(y)
  BY DEF NoMap
<1>3. x \in Seq(S) /\ y \in Seq(S)
  <2>1. /\ \A i \in 1..Len(x) : x[i] \in S
        /\ \A i \in 1..Len(y) : y[i] \in S
    BY <1>2 DEF ToSet
  <2> HIDE DEF S
  <2>2. x = [i \in 1..Len(x) |-> x[i]] /\ y = [i \in 1..Len(y) |-> y[i]]
    BY DEF NoMap
  <2>3. QED BY <1>1, <2>1, <2>2
<1> HIDE DEF S
<1>4. /\ x \o y \in Seq(S) /\ Len(x \o y) = Len(x) + Len(y)
      /\ \A i \in 1..Len(x) + Len(y) :
             (x \o y)[i] = IF i <= Len(x) THEN x[i] ELSE y[i - Len(x)]
      /\ x \o <<>> = x
  BY <1>3
<1> DEFINE z == x \o y
<1>5. z \in Seq(S) /\ Len(z) \in Nat /\ z = [i \in 1..Len(z) |-> z[i]]
  <2>1. z \in Seq(S)
    BY <1>4
  <2> HIDE DEF z
  <2>2. QED BY ONLY <2>1
<1>6. ASSUME NEW i \in 1..Len(z)
      PROVE  z[i].name # "reg-ir.json" /\ z[i].kind # "regir"
  <2>1. i \in Int /\ i >= 1 /\ i <= Len(x) + Len(y)
    BY <1>1, <1>4
  <2>2. CASE i <= Len(x)
    BY <1>1, <1>4, <2>1, <2>2 DEF NoMap
  <2>3. CASE i > Len(x)
    <3>1. i - Len(x) \in 1..Len(y)
      BY <1>1, <2>1, <2>3
    <3>2. z[i] = y[i - Len(x)]
      BY <1>1, <1>4, <2>1, <2>3
    <3>3. QED BY <3>1, <3>2 DEF NoMap
  <2>4. QED BY <1>1, <2>1, <2>2, <2>3
<1>7. QED BY <1>4, <1>5, <1>6 DEF NoMap

\* A failed run appends to what is filed, and emit never files evidence.
LEMMA FailShape ==
    ASSUME NEW a, NEW c, Shape(a, c), NEW evidence, NoMap(evidence),
           c = emit => evidence = <<>>,
           NEW b, b = [a EXCEPT ![c] = @ \o evidence]
    PROVE  Shape(b, c)
<1> USE DEF StageOrder, plan, extract, infer, emit, verify
<1>1. c \in StageOrder /\ a = [t \in StageOrder |-> a[t]]
  BY DEF Shape
<1>2. \A t \in StageOrder : b[t] = IF t = c THEN a[c] \o evidence ELSE a[t]
  BY <1>1
<1>3. b = [t \in StageOrder |-> b[t]]
  BY <1>1
<1>4. NoMap(a[c])
  BY <1>1 DEF Shape
<1>5. NoMap(b[c]) /\ (c = emit => b[c] = a[c])
  BY <1>1, <1>2, <1>4, NoMapConcat
<1>6. \A t \in StageOrder : NoMap(b[t]) \/ (t \in {extract, infer} /\ MapStage(b[t]))
  BY <1>2, <1>5 DEF Shape
<1>7. \A t \in StageOrder : t > c => b[t] = <<>>
  BY <1>1, <1>2 DEF Shape
<1>8. Kept(b[extract], b[infer])
  <2>1. CASE c <= infer
    <3>1. In(b[infer], "reg-ir.json") = {}
      BY <1>1, <1>2, <1>5, <2>1, NothingIn DEF Shape
    <3>2. QED BY <3>1 DEF Kept
  <2>2. CASE c > infer
    BY <1>2, <2>2 DEF Shape
  <2>3. QED BY <1>1, <2>1, <2>2
<1>9. Emitted(b[infer], b[emit])
  <2>1. CASE c <= infer
    <3>1. In(b[infer], "reg-ir.json") = {}
      BY <1>1, <1>2, <1>5, <2>1, NothingIn DEF Shape
    <3>2. QED BY <3>1 DEF Emitted
  <2>2. CASE c > infer
    BY <1>1, <1>2, <1>5, <2>2 DEF Shape
  <2>3. QED BY <1>1, <2>1, <2>2
<1>10. QED BY <1>1, <1>3, <1>5, <1>6, <1>7, <1>8, <1>9 DEF Shape

LEMMA MapStageHas ==
    ASSUME NEW drafts, MapStage(drafts)
    PROVE  /\ In(drafts, "reg-ir.json") = {drafts[1].body}
           /\ drafts[1].body \in RegIR /\ Validate(drafts[1].body)
           /\ drafts = MapDrafts(drafts[1].body)
           /\ {i \in 1..Len(drafts) : drafts[i].kind = "regir"} = {1}
<1> DEFINE ir == drafts[1].body
           m == MapDrafts(ir)
<1>1. drafts = m /\ ir \in RegIR /\ Validate(ir)
  BY DEF MapStage
<1>2. /\ In(m, "reg-ir.json") = {ir} /\ Len(m) \in {1, 2} /\ m[1].kind = "regir"
      /\ Len(m) = 2 => m[2].kind = "plan"
  BY MapDraftsHave
<1>3. {i \in 1..Len(m) : m[i].kind = "regir"} = {1}
  <2> HIDE DEF m
  <2>1. 1..1 = {1} /\ 1..2 = {1, 2}
    OBVIOUS
  <2>2. QED BY <1>2, <2>1
<1>4. QED BY <1>1, <1>2, <1>3

\* Reading back, a stage gets the latest map on file: infer's when infer filed one.
LEMMA FoundMap ==
    ASSUME Shape(artifacts, current), NEW s \in {infer, emit, verify}, CanLoad(s)
    PROVE  LET ir == FindStageArtifact("regir", s)
           IN  /\ ir \in RegIR /\ Validate(ir)
               /\ s = infer => ir = artifacts[extract][1].body /\ MapStage(artifacts[extract])
               /\ s > infer /\ MapStage(artifacts[infer]) => ir = artifacts[infer][1].body
<1> USE DEF StageOrder, plan, extract, infer, emit, verify
<1> DEFINE places == Places("regir", s)
           ir == FindStageArtifact("regir", s)
           first == <<extract, 1>>
           second == <<infer, 1>>
           latest == CHOOSE p \in places : \A q \in places : Later(p, q)
<1>1. \A t \in 1..s - 1 :
          {j \in 1..Len(artifacts[t]) : artifacts[t][j].kind = "regir"} =
              IF t \in {extract, infer} /\ MapStage(artifacts[t]) THEN {1} ELSE {}
  BY MapStageHas DEF Shape, NoMap
<1>2. \A p : p \in places <=>
          \/ p = first /\ MapStage(artifacts[extract])
          \/ p = second /\ s > infer /\ MapStage(artifacts[infer])
  <2>1. ASSUME NEW p \in places
        PROVE  \/ p = first /\ MapStage(artifacts[extract])
               \/ p = second /\ s > infer /\ MapStage(artifacts[infer])
    <3>1. PICK t \in 1..s - 1 : \E i \in 1..Len(artifacts[t]) :
              p = <<t, i>> /\ artifacts[t][i].kind = "regir"
      BY DEF Places, places
    <3>2. PICK i \in 1..Len(artifacts[t]) : p = <<t, i>> /\ artifacts[t][i].kind = "regir"
      BY <3>1
    <3>3. t \in {extract, infer} /\ MapStage(artifacts[t]) /\ i = 1
      BY <1>1, <3>2
    <3>4. t = infer => s > infer
      OBVIOUS
    <3>5. QED BY <3>2, <3>3, <3>4
  <2>2. ASSUME NEW t \in {extract, infer}, t < s, MapStage(artifacts[t])
        PROVE  <<t, 1>> \in places
    <3>1. t \in 1..s - 1
      BY <2>2
    <3>2. 1 \in {j \in 1..Len(artifacts[t]) : artifacts[t][j].kind = "regir"}
      BY <1>1, <2>2, <3>1
    <3>3. QED BY <3>1, <3>2 DEF Places
  <2>3. QED BY <2>1, <2>2
<1> HIDE DEF places
<1>3. /\ Later(second, first) /\ Later(second, second) /\ Later(first, first)
      /\ ~Later(first, second)
  BY DEF Later
<1>4. places # {} /\ ir = Body(latest) /\ Validate(ir)
  BY DEF CanLoad, FindStageArtifact, places
<1>5. Body(first) = artifacts[extract][1].body /\ Body(second) = artifacts[infer][1].body
  BY DEF Body
<1> HIDE DEF ir
<1>6. CASE second \in places
  <2>1. \A p \in places : (\A q \in places : Later(p, q)) <=> p = second
    BY <1>2, <1>3, <1>6
  <2>2. latest = second
    BY <1>6, <2>1
  <2>3. ir = artifacts[infer][1].body
    BY <1>4, <1>5, <2>2
  <2>4. s > infer /\ MapStage(artifacts[infer])
    BY <1>2, <1>6
  <2>5. QED BY <1>4, <2>3, <2>4, MapStageHas DEF ir
<1>7. CASE second \notin places
  <2>1. places = {first} /\ MapStage(artifacts[extract])
    BY <1>2, <1>4, <1>7
  <2>2. latest = first
    BY <1>3, <2>1
  <2>3. ir = artifacts[extract][1].body
    BY <1>4, <1>5, <2>2
  <2>4. ~(s > infer /\ MapStage(artifacts[infer]))
    BY <1>2, <1>7
  <2>5. QED BY <1>4, <2>1, <2>3, <2>4, MapStageHas DEF ir
<1>8. QED BY <1>6, <1>7

LEMMA EmitDraftsHave ==
    ASSUME NEW ir
    PROVE  NoMap(EmitDrafts(ir)) /\ In(EmitDrafts(ir), "device.c") = {Render(ir)}
<1> DEFINE code == Render(ir)
           m == EmitDrafts(ir)
<1>1. /\ m[1] = Draft("device.c", "code", code)
      /\ m[2] = Draft("meson.build.fragment", "plan", code)
      /\ m[3] = Draft("Kconfig.fragment", "plan", code)
      /\ m[4] = Draft("apply-manifest.json", "plan", code)
      /\ m[5] = Draft("device.diff", "diff", code)
      /\ Len(m) = 5 /\ m = [i \in 1..5 |-> m[i]]
  <2> HIDE DEF code
  <2>1. QED BY DEF EmitDrafts, code
<1>2. 1..5 = {1, 2, 3, 4, 5}
  OBVIOUS
<1> HIDE DEF code, m
<1>3. /\ m[1].name = "device.c" /\ m[1].kind = "code" /\ m[1].body = code
      /\ m[2].name = "meson.build.fragment" /\ m[2].kind = "plan"
      /\ m[3].name = "Kconfig.fragment" /\ m[3].kind = "plan"
      /\ m[4].name = "apply-manifest.json" /\ m[4].kind = "plan"
      /\ m[5].name = "device.diff" /\ m[5].kind = "diff"
  BY <1>1 DEF Draft
<1>4. NoMap(m)
  BY <1>1, <1>2, <1>3 DEF NoMap
<1>5. {j \in 1..5 : m[j].name = "device.c"} = {1}
  BY <1>2, <1>3
<1>6. In(m, "device.c") = {code}
  BY <1>1, <1>3, <1>5 DEF In
<1>7. QED BY <1>4, <1>6 DEF m, code

LEMMA OneDraft ==
    ASSUME NEW name, name # "reg-ir.json", NEW kind, kind # "regir", NEW body
    PROVE  NoMap(<<Draft(name, kind, body)>>)
<1> DEFINE d == Draft(name, kind, body)
<1>1. d.name = name /\ d.kind = kind
  BY DEF Draft
<1> HIDE DEF d
<1>2. /\ Len(<<d>>) = 1 /\ <<d>>[1] = d /\ 1..1 = {1}
      /\ <<d>> = [i \in 1..1 |-> <<d>>[i]]
  OBVIOUS
<1>3. NoMap(<<d>>)
  BY <1>1, <1>2 DEF NoMap
<1>4. QED BY <1>3 DEF d

\* A verify run's drafts: its records, and one report.
LEMMA ReportIn ==
    ASSUME NEW n \in Nat, NEW records, \A i \in 1..n : records[i].kind \in {"build", "qtest"},
           NEW report
    PROVE  LET drafts == [i \in 1..n |-> Draft(records[i].kind, "evidence", records[i])]
                         \o <<Draft("evidence.json", "evidence", report)>>
           IN  NoMap(drafts) /\ In(drafts, "evidence.json") = {report}
<1> DEFINE D(i) == Draft(records[i].kind, "evidence", records[i])
           e == Draft("evidence.json", "evidence", report)
           x == [i \in 1..n |-> D(i)]
           S == {D(i) : i \in 1..n} \union {e}
<1>1. /\ \A i \in 1..n : D(i).name \in {"build", "qtest"} /\ D(i).kind = "evidence"
      /\ e.name = "evidence.json" /\ e.kind = "evidence" /\ e.body = report
  BY DEF Draft
<1> HIDE DEF e
<1>2. NoMap(<<e>>)
  <2>1. "evidence.json" # "reg-ir.json" /\ "evidence" # "regir"
    OBVIOUS
  <2>2. QED BY <2>1, OneDraft, Zenon DEF e
<1>3. Len(x) = n /\ x = [i \in 1..Len(x) |-> x[i]] /\ \A i \in 1..n : x[i] = D(i)
  OBVIOUS
<1> HIDE DEF D
<1>4. NoMap(x)
  BY <1>1, <1>3 DEF NoMap
<1>5. NoMap(x \o <<e>>)
  BY <1>2, <1>4, NoMapConcat
<1>6. PICK u \in Seq(S), v \in Seq(S) : u = x /\ v = <<e>>
  <2>1. e \in S /\ \A i \in 1..n : D(i) \in S
    BY Zenon
  <2> HIDE DEF S
  <2>2. x \in Seq(S)
    BY <2>1
  <2>3. <<e>> \in Seq(S)
    BY <2>1
  <2>4. QED BY <2>2, <2>3
<1>7. Len(u) = n /\ (\A i \in 1..n : u[i] = D(i)) /\ Len(v) = 1 /\ v[1] = e
  BY <1>3, <1>6
<1> HIDE DEF S, x
<1> DEFINE z == u \o v
<1>8. Len(z) = n + 1 /\ z[n + 1] = e /\ \A i \in 1..n : z[i] = D(i)
  BY ONLY <1>6, <1>7, n \in Nat
<1>9. {j \in 1..n + 1 : z[j].name = "evidence.json"} = {n + 1}
  <2> HIDE DEF z
  <2>1. \A j \in 1..n + 1 : j \in 1..n \/ j = n + 1
    OBVIOUS
  <2>2. QED BY <1>1, <1>8, <2>1
<1> HIDE DEF z
<1>10. In(z, "evidence.json") = {report}
  BY <1>1, <1>8, <1>9 DEF In
<1>11. QED BY <1>5, <1>6, <1>10 DEF z, x, D, e

\* splitExitMarker reads the wrapper's marker, unless the tool cut it off.
LEMMA PassedWhen ==
    ASSUME NEW o \in Output, Answered(o), ExitCode(o) = 0
    PROVE  Passed(o)
<1>1. o.printed \in Seq(Nat) /\ o.code \in Nat /\ o.cut \in BOOLEAN
  BY DEF Output
<1>2. CASE o.cut
  BY <1>2 DEF Answered, Marks, Passed
<1>3. CASE ~o.cut
  <2>1. ExitCode(o) = Last(Append(o.printed, o.code))
    BY <1>3 DEF ExitCode, Marks
  <2>2. Last(Append(o.printed, o.code)) = o.code
    BY <1>1 DEF Last
  <2>3. QED BY <2>1, <2>2 DEF Passed
<1>4. QED BY <1>1, <1>2, <1>3

(***************************************************************************)
(* The steps                                                               *)
(***************************************************************************)
LEMMA QuietVerdict ==
    ASSUME Verdict, status' # "done",
           artifacts'[verify] = <<>> \/ (artifacts'[verify] = artifacts[verify] /\ ran' = ran)
    PROVE  Verdict'
<1>1. CASE artifacts'[verify] = <<>>
  BY <1>1, NothingIn DEF Verdict
<1>2. CASE artifacts'[verify] = artifacts[verify] /\ ran' = ran
  BY <1>2 DEF Verdict, Earned
<1>3. QED BY <1>1, <1>2

\* A stage before verify files its drafts, and the project goes to it or past it.
LEMMA Filing ==
    ASSUME IInv, NEW s \in StageOrder \ {verify}, NEW drafts, Record(s, drafts),
           NoMap(drafts) \/ (s \in {extract, infer} /\ MapStage(drafts)),
           s = infer => Kept(artifacts[extract], drafts),
           s = emit => Emitted(artifacts[infer], drafts),
           current' = s \/ current' = s + 1,
           current' = s /\ s \in {extract, infer} => NoMap(drafts),
           status' # "done"
    PROVE  IInv'
<1> DEFINE d == current'
           b == artifacts'
<1>1. b = [t \in StageOrder |->
              IF t < s THEN artifacts[t] ELSE IF t = s THEN drafts ELSE <<>>]
  BY DEF Record
<1>2. d \in StageOrder
  BY DEF StageOrder, verify
<1>3. Shape(artifacts, current)
  BY DEF IInv
<1>4. b[verify] = <<>>
  BY <1>1 DEF StageOrder, verify
<1>5. Verdict'
  BY <1>4, QuietVerdict DEF IInv
<1>6. d = s \/ d = s + 1
  OBVIOUS
<1>7. d = s /\ d \in {extract, infer} => NoMap(drafts)
  OBVIOUS
<1> HIDE DEF d, b
<1>8. Shape(b, d)
  BY <1>1, <1>2, <1>3, <1>6, <1>7, RecordShape
<1>9. QED BY <1>5, <1>8 DEF IInv, b, d

LEMMA Failing ==
    ASSUME IInv, NEW s, s = current, NEW evidence, NoMap(evidence), NEW category,
           FailWith(s, evidence, category), s \in {emit, verify} => evidence = <<>>, ran' = ran
    PROVE  IInv'
<1> DEFINE b == artifacts'
<1>1. b = [artifacts EXCEPT ![current] = @ \o evidence] /\ current' = current
      /\ status' = "blocked"
  BY DEF FailWith
<1>2. Shape(artifacts, current)
  BY DEF IInv
<1>3. b[verify] = artifacts[verify]
  <2>1. verify \in StageOrder /\ artifacts = [t \in StageOrder |-> artifacts[t]]
    BY <1>2 DEF Shape, StageOrder, verify
  <2>2. CASE current = verify
    <3>1. NoMap(artifacts[verify])
      BY <1>2, <2>2 DEF Shape, StageOrder, verify, extract, infer
    <3>2. b[verify] = artifacts[verify] \o <<>>
      BY <1>1, <2>1, <2>2
    <3>3. QED BY <3>1, <3>2, NoMapConcat
  <2>3. CASE current # verify
    BY <1>1, <2>1, <2>3
  <2>4. QED BY <2>2, <2>3
<1>4. Verdict'
  BY <1>1, <1>3, QuietVerdict DEF IInv
<1> HIDE DEF b
<1>5. Shape(b, current)
  BY <1>1, <1>2, FailShape
<1>6. QED BY <1>1, <1>4, <1>5 DEF IInv, b

LEMMA MapDraftsAreAStage ==
    ASSUME NEW ir \in RegIR, Validate(ir)
    PROVE  MapStage(MapDrafts(ir))
<1>1. MapDrafts(ir) # <<>> /\ MapDrafts(ir)[1].body = ir
  BY MapDraftsHave
<1>2. QED BY <1>1 DEF MapStage

LEMMA RawDraftPlain == NoMap(RawDraft)
  BY OneDraft DEF RawDraft

LEMMA PlanInv == ASSUME IInv, RunPlan PROVE IInv'
<1> DEFINE drafts == <<Draft("plan.md", "plan", "prose")>>
<1>1. NoMap(drafts)
  BY OneDraft
<1> HIDE DEF drafts
<1>2. /\ Record(plan, drafts) /\ current' = plan + 1 /\ status' # "done"
      /\ plan \in StageOrder \ {verify} /\ plan # infer /\ plan # emit
      /\ ~(current' = plan)
  BY DEF RunPlan, Complete, drafts, plan, infer, emit, verify, StageOrder
<1>3. QED BY <1>1, <1>2, Filing

LEMMA ExtractInv == ASSUME IInv, RunExtract PROVE IInv'
<1>1. PICK reply \in ExtractReplies :
          IF Decodes(reply) /\ Validate(reply)
          THEN Complete(extract, MapDrafts(reply))
          ELSE FailWith(extract, RawDraft, "schema_invalid")
  BY DEF RunExtract
<1>2. ran' = ran /\ extract = current
  BY DEF RunExtract, Run
<1>3. CASE Decodes(reply) /\ Validate(reply)
  <2>1. reply \in RegIR
    BY <1>3, RepliesAssumption DEF Decodes
  <2>2. MapStage(MapDrafts(reply))
    BY <1>3, <2>1, MapDraftsAreAStage
  <2>3. /\ Record(extract, MapDrafts(reply)) /\ current' = extract + 1 /\ status' # "done"
        /\ extract \in StageOrder \ {verify} /\ extract # infer /\ extract # emit
        /\ ~(current' = extract)
    BY <1>1, <1>3 DEF Complete, extract, infer, emit, verify, StageOrder
  <2>4. QED BY <2>2, <2>3, Filing
<1>4. CASE ~(Decodes(reply) /\ Validate(reply))
  <2>1. FailWith(extract, RawDraft, "schema_invalid") /\ extract \notin {emit, verify}
    BY <1>1, <1>4 DEF extract, emit, verify
  <2>2. QED BY <1>2, <2>1, RawDraftPlain, Failing
<1>5. QED BY <1>3, <1>4

LEMMA InferInv == ASSUME IInv, RunInfer PROVE IInv'
<1> DEFINE base == FindStageArtifact("regir", infer)
<1>1. ran' = ran /\ infer = current /\ infer \notin {emit, verify}
  BY DEF RunInfer, Run, infer, emit, verify
<1>2. Shape(artifacts, current)
  BY DEF IInv
<1>3. CASE ~CanLoad(infer)
  <2>1. FailWith(infer, <<>>, LoadError(infer))
    BY <1>3 DEF RunInfer
  <2>2. QED BY <1>1, <2>1, NothingIn, Failing
<1>4. CASE CanLoad(infer)
  <2>1. PICK reply \in InferReplies :
            IF Decodes(reply) /\ Validate(MergeInferred(base, reply))
            THEN Complete(infer, MapDrafts(MergeInferred(base, reply)))
            ELSE FailWith(infer, RawDraft, "schema_invalid")
    BY <1>4 DEF RunInfer
  <2>2. /\ base \in RegIR /\ base = artifacts[extract][1].body
        /\ MapStage(artifacts[extract])
    BY <1>2, <1>4, FoundMap
  <2> HIDE DEF base
  <2> DEFINE ir == MergeInferred(base, reply)
  <2>3. CASE Decodes(reply) /\ Validate(ir)
    <3>1. reply \in RegIR
      BY <2>3, RepliesAssumption DEF Decodes
    <3>2. /\ ir \in RegIR /\ KeepsAll(base.registers, ir.registers)
          /\ base.irqs # <<>> => ir.irqs = base.irqs
      BY <2>2, <3>1, InferredKeeps
    <3>3. Complete(infer, MapDrafts(ir)) /\ Validate(ir)
      BY <2>1, <2>3
    <3> HIDE DEF ir
    <3>4. MapStage(MapDrafts(ir))
      BY <3>2, <3>3, MapDraftsAreAStage
    <3>5. In(artifacts[extract], "reg-ir.json") = {base} /\ In(MapDrafts(ir), "reg-ir.json") = {ir}
      BY <2>2, MapStageHas, MapDraftsHave
    <3>6. Kept(artifacts[extract], MapDrafts(ir))
      BY <3>2, <3>5 DEF Kept
    <3>7. /\ Record(infer, MapDrafts(ir)) /\ current' = infer + 1 /\ status' # "done"
          /\ infer \in StageOrder \ {verify} /\ infer # emit
          /\ ~(current' = infer)
      BY <3>3 DEF Complete, infer, emit, verify, StageOrder
    <3>8. QED BY <3>4, <3>6, <3>7, Filing
  <2>4. CASE ~(Decodes(reply) /\ Validate(ir))
    <3>1. FailWith(infer, RawDraft, "schema_invalid")
      BY <2>1, <2>4
    <3>2. QED BY <1>1, <3>1, RawDraftPlain, Failing
  <2>5. QED BY <2>3, <2>4
<1>5. QED BY <1>3, <1>4

LEMMA EmitInv == ASSUME IInv, RunEmit PROVE IInv'
<1> DEFINE ir == FindStageArtifact("regir", emit)
           drafts == EmitDrafts(ir)
<1>1. ran' = ran /\ emit = current
  BY DEF RunEmit, Run
<1>2. Shape(artifacts, current)
  BY DEF IInv
<1>3. CASE ~CanLoad(emit)
  <2>1. FailWith(emit, <<>>, LoadError(emit))
    BY <1>3 DEF RunEmit
  <2>2. QED BY <1>1, <2>1, NothingIn, Failing
<1>4. CASE CanLoad(emit)
  <2>1. Complete(emit, drafts) \/ Hold(emit, drafts, "awaiting_apply")
    BY <1>4 DEF RunEmit
  <2>2. MapStage(artifacts[infer]) => ir = artifacts[infer][1].body
    BY <1>2, <1>4, FoundMap DEF emit, infer
  <2> HIDE DEF ir
  <2>3. NoMap(drafts)
    BY EmitDraftsHave
  <2>4. Emitted(artifacts[infer], drafts)
    <3>1. CASE MapStage(artifacts[infer])
      <4>1. In(artifacts[infer], "reg-ir.json") = {ir}
        BY <2>2, <3>1, MapStageHas
      <4>2. QED BY <4>1 DEF Emitted
    <3>2. CASE ~MapStage(artifacts[infer])
      <4>1. NoMap(artifacts[infer])
        BY <1>2, <3>2 DEF Shape, StageOrder, infer
      <4>2. QED BY <4>1, NothingIn DEF Emitted
    <3>3. QED BY <3>1, <3>2
  <2> HIDE DEF drafts
  <2>5. /\ Record(emit, drafts) /\ (current' = emit \/ current' = emit + 1)
        /\ status' # "done" /\ emit \in StageOrder \ {verify}
        /\ emit # infer /\ emit \notin {extract, infer}
    BY <2>1 DEF Complete, Hold, extract, infer, emit, verify, StageOrder
  <2>6. QED BY <2>3, <2>4, <2>5, Filing
<1>5. QED BY <1>3, <1>4

LEMMA VerifyInv == ASSUME IInv, RunVerify PROVE IInv'
<1>1. verify = current
  BY DEF RunVerify, Run
<1>2. Shape(artifacts, current)
  BY DEF IInv
<1>3. CASE ~CanLoad(verify)
  <2>1. FailWith(verify, <<>>, LoadError(verify)) /\ ran' = ran
    BY <1>3 DEF RunVerify
  <2>2. QED BY <1>1, <2>1, NothingIn, Failing
<1>4. CASE CanLoad(verify)
  <2> DEFINE Built(build) == Answered(build) /\ ExitCode(build) = 0
             Records(build, qtest) ==
                 IF Built(build)
                 THEN <<CommandRecord("build", build), CommandRecord("qtest", qtest)>>
                 ELSE <<CommandRecord("build", build)>>
             Report(build, qtest) == [ok |-> AllOK(Records(build, qtest)),
                                      records |-> Records(build, qtest)]
             Drafts(build, qtest) ==
                 [i \in 1..Len(Records(build, qtest)) |->
                     Draft(Records(build, qtest)[i].kind, "evidence",
                           Records(build, qtest)[i])]
                 \o <<Draft("evidence.json", "evidence", Report(build, qtest))>>
  <2>1. PICK build \in Outputs, qtest \in Outputs :
            IF ~Answered(build) \/ (Built(build) /\ ~Answered(qtest))
            THEN FailWith(verify, <<>>, "tool_denied") /\ UNCHANGED ran
            ELSE /\ ran' = IF Built(build) THEN <<build, qtest>> ELSE <<build>>
                 /\ IF AllOK(Records(build, qtest)) THEN Complete(verify, Drafts(build, qtest))
                    ELSE Hold(verify, Drafts(build, qtest), "build_failed")
    BY <1>4 DEF RunVerify
  <2> DEFINE records == Records(build, qtest)
             report == Report(build, qtest)
             drafts == Drafts(build, qtest)
             n == Len(records)
  <2>2. /\ n \in {1, 2} /\ records[1] = CommandRecord("build", build)
        /\ Built(build) => n = 2 /\ records[2] = CommandRecord("qtest", qtest)
        /\ ~Built(build) => n = 1
    <3> HIDE DEF Built
    <3>1. QED OBVIOUS
  <2>3. /\ CommandRecord("build", build).kind = "build"
        /\ CommandRecord("build", build).code = ExitCode(build)
        /\ CommandRecord("qtest", qtest).kind = "qtest"
        /\ CommandRecord("qtest", qtest).code = ExitCode(qtest)
    BY DEF CommandRecord
  <2>4. report.ok = AllOK(records)
    OBVIOUS
  <2>5. drafts = [i \in 1..n |-> Draft(records[i].kind, "evidence", records[i])]
                 \o <<Draft("evidence.json", "evidence", report)>>
    OBVIOUS
  <2> HIDE DEF records, report, drafts, n
  <2>6. n \in Nat /\ \A i \in 1..n : records[i].kind \in {"build", "qtest"}
    <3>1. 1..1 = {1} /\ 1..2 = {1, 2}
      OBVIOUS
    <3>2. QED BY <2>2, <2>3, <3>1
  <2>7. NoMap(drafts) /\ In(drafts, "evidence.json") = {report}
    <3> DEFINE filed == [i \in 1..n |-> Draft(records[i].kind, "evidence", records[i])]
                        \o <<Draft("evidence.json", "evidence", report)>>
    <3>1. NoMap(filed) /\ In(filed, "evidence.json") = {report}
      BY <2>6, ReportIn
    <3>2. QED BY <2>5, <3>1
  <2>8. CASE ~Answered(build) \/ (Built(build) /\ ~Answered(qtest))
    <3>1. FailWith(verify, <<>>, "tool_denied") /\ ran' = ran
      BY <2>1, <2>8
    <3>2. QED BY <1>1, <3>1, NothingIn, Failing
  <2>9. CASE ~(~Answered(build) \/ (Built(build) /\ ~Answered(qtest)))
    <3>1. /\ ran' = IF Built(build) THEN <<build, qtest>> ELSE <<build>>
          /\ IF AllOK(records) THEN Complete(verify, drafts)
             ELSE Hold(verify, drafts, "build_failed")
      BY <2>1, <2>9 DEF records, drafts
    <3>2. Record(verify, drafts) /\ current' = verify
      BY <3>1 DEF Complete, Hold
    <3>3. AllOK(records) => Earned'
      <4> SUFFICES ASSUME AllOK(records) PROVE Earned'
        OBVIOUS
      <4>1. \A i \in 1..n : records[i].code = 0
        BY DEF AllOK, n
      <4>2. 1 \in 1..n /\ ExitCode(build) = 0 /\ Answered(build)
        BY <2>2, <2>3, <2>9, <4>1
      <4>3. Built(build) /\ n = 2
        BY <2>2, <4>2
      <4>4. ExitCode(qtest) = 0 /\ Answered(qtest)
        BY <2>2, <2>3, <2>9, <4>1, <4>3
      <4>5. build \in Output /\ qtest \in Output
        BY RepliesAssumption
      <4>6. Passed(build) /\ Passed(qtest)
        BY <4>2, <4>4, <4>5, PassedWhen
      <4>7. ran' = <<build, qtest>>
        BY <3>1, <4>3
      <4>8. QED BY <4>6, <4>7 DEF Earned
    <3>4. artifacts'[verify] = drafts
      BY <3>2 DEF Record, StageOrder, verify
    <3>5. status' = "done" => AllOK(records)
      BY <3>1 DEF Hold
    <3>6. Verdict'
      BY <2>4, <2>7, <3>3, <3>4, <3>5 DEF Verdict
    <3>7. /\ verify \in StageOrder /\ verify # infer /\ verify # emit
          /\ verify \notin {extract, infer}
      BY DEF StageOrder, extract, infer, emit, verify
    <3> DEFINE b == artifacts'
    <3>8. b = [t \in StageOrder |->
                  IF t < verify THEN artifacts[t] ELSE IF t = verify THEN drafts ELSE <<>>]
      BY <3>2 DEF Record
    <3> HIDE DEF b
    <3>9. Shape(b, verify)
      BY <1>2, <2>7, <3>7, <3>8, RecordShape
    <3>10. QED BY <3>2, <3>6, <3>9 DEF IInv, b
  <2>10. QED BY <2>8, <2>9
<1>5. QED BY <1>3, <1>4

LEMMA ApplyInv == ASSUME IInv, Apply PROVE IInv'
<1>1. /\ current = emit /\ current' = verify /\ status' # "done"
      /\ artifacts' = artifacts /\ ran' = ran
  BY DEF Apply, Run
<1>2. Shape(artifacts, verify)
  BY <1>1 DEF IInv, Shape, StageOrder, extract, infer, emit, verify
<1>3. Verdict'
  BY <1>1, QuietVerdict DEF IInv
<1>4. QED BY <1>1, <1>2, <1>3 DEF IInv

LEMMA ResetInv == ASSUME IInv, Reset PROVE IInv'
<1>1. PICK s \in StageOrder : Record(s, <<>>) /\ current' = s /\ status' = "pending"
  BY DEF Reset
<1> DEFINE b == artifacts'
<1>2. b = [t \in StageOrder |->
              IF t < s THEN artifacts[t] ELSE IF t = s THEN <<>> ELSE <<>>]
  BY <1>1 DEF Record
<1>3. NoMap(<<>>) /\ Kept(artifacts[extract], <<>>) /\ Emitted(artifacts[infer], <<>>)
  BY NothingIn DEF Kept, Emitted
<1>4. b[verify] = <<>> \/ (b[verify] = artifacts[verify] /\ ran' = ran)
  BY <1>2 DEF StageOrder, verify, Reset
<1>5. Verdict'
  BY <1>1, <1>4, QuietVerdict DEF IInv
<1>6. Shape(artifacts, current)
  BY DEF IInv
<1> HIDE DEF b
<1>7. Shape(b, s)
  BY <1>2, <1>3, <1>6, RecordShape
<1>8. QED BY <1>1, <1>5, <1>7 DEF IInv, b

LEMMA FailsInv == ASSUME IInv, NEW s \in StageOrder, RunFails(s) PROVE IInv'
<1>1. PICK category : FailWith(s, <<>>, category)
  BY DEF RunFails
<1>2. s = current /\ ran' = ran
  BY DEF RunFails, Run
<1>3. QED BY <1>1, <1>2, NothingIn, Failing

LEMMA InitInv == Init => IInv
<1> SUFFICES ASSUME Init PROVE IInv
  OBVIOUS
<1>1. /\ artifacts = [t \in StageOrder |-> <<>>] /\ current = plan /\ status # "done"
  BY DEF Init
<1>2. \A t \in StageOrder : artifacts[t] = <<>>
  BY <1>1
<1>3. {plan, extract, infer, emit, verify} \subseteq StageOrder
  BY DEF StageOrder, plan, extract, infer, emit, verify
<1>4. Shape(artifacts, current)
  BY <1>1, <1>2, <1>3, NothingIn DEF Shape, Kept, Emitted
<1>5. Verdict
  BY <1>1, <1>2, <1>3, NothingIn DEF Verdict
<1>6. QED BY <1>4, <1>5 DEF IInv

LEMMA NextInv == IInv /\ [Next]_vars => IInv'
<1> SUFFICES ASSUME IInv, [Next]_vars PROVE IInv'
  OBVIOUS
<1>1. CASE UNCHANGED vars
  BY <1>1 DEF vars, IInv, Shape, Verdict, Earned
<1>2. CASE Next
  BY <1>2, PlanInv, ExtractInv, InferInv, EmitInv, VerifyInv, ApplyInv, ResetInv, FailsInv
     DEF Next
<1>3. QED BY <1>1, <1>2

\* After any replies, failures, applies and resets (pipeline.go runs the stages,
\* type.go files their drafts) the artifacts on file have the shape they are read in.
THEOREM InductiveInvariant == Spec => []IInv
<1>1. QED BY InitInv, NextInv, PTL DEF Spec

(***************************************************************************)
(* What follows from it                                                    *)
(***************************************************************************)
LEMMA FiledIn ==
    ASSUME NEW s, NEW name
    PROVE  Filed(s, name) = In(artifacts[s], name)
  BY DEF Filed, In

LEMMA SoundInv == IInv => SoundMap
<1> SUFFICES ASSUME IInv, NEW ir \in Maps PROVE Sound(ir)
  BY DEF SoundMap, Sound
<1>1. PICK s \in StageOrder : ir \in In(artifacts[s], "reg-ir.json")
  BY FiledIn DEF Maps
<1>2. MapStage(artifacts[s])
  BY <1>1, NothingIn DEF IInv, Shape
<1>3. ir \in RegIR /\ Validate(ir)
  BY <1>1, <1>2, MapStageHas
<1>4. QED BY <1>3, ValidateSound

LEMMA KeepsInv == IInv => InferKeepsTheMap
<1> SUFFICES ASSUME IInv, NEW old \in In(artifacts[extract], "reg-ir.json"),
                    NEW new \in In(artifacts[infer], "reg-ir.json")
             PROVE  KeepsAll(old.registers, new.registers) /\ (old.irqs # <<>> => new.irqs = old.irqs)
  BY FiledIn DEF InferKeepsTheMap, KeepsAll, Keeps
<1>1. QED BY DEF IInv, Shape, Kept

\* Names are distinct, so a name is readable and unknown of one register.
LEMMA UnknownReadable ==
    ASSUME NEW ir \in RegIR, Validate(ir)
    PROVE  Todo(ir) \intersect {r.name : r \in {q \in Registers(ir) : q.access \notin {"wo", "rsvd"}}}
               = OpenQuestions(ir).resets
<1> DEFINE n == Len(ir.registers)
           reg(k) == ir.registers[k]
<1>1. \A i, j \in 1..n : reg(i).name = reg(j).name => i = j
  <2> DEFINE names == [k \in 1..n |-> reg(k).name]
  <2>1. Distinct(names) /\ Len(names) = n
    BY RegistersForm DEF Validate
  <2>2. \A k \in 1..n : names[k] = reg(k).name
    OBVIOUS
  <2> HIDE DEF names
  <2>3. QED BY <2>1, <2>2 DEF Distinct
<1>2. \A r : r \in Registers(ir) <=> \E k \in 1..n : r = reg(k)
  BY RegistersForm DEF Registers, ToSet
<1> HIDE DEF n, reg
<1>3. \A r, q \in Registers(ir) : r.name = q.name => r = q
  BY <1>1, <1>2
<1>4. OpenQuestions(ir).resets = {r.name : r \in {q \in Registers(ir) :
                                      q.reset = Unknown /\ q.access \notin {"wo", "rsvd"}}}
  BY DEF OpenQuestions
<1>5. QED BY <1>3, <1>4 DEF Todo

LEMMA CodeInv == IInv => CodeSaysUnknown
<1> SUFFICES ASSUME IInv, NEW code \in Filed(emit, "device.c"),
                    NEW ir \in Filed(infer, "reg-ir.json")
             PROVE  LET asked == UNION {q.resets : q \in Filed(infer, "open-questions.md")}
                        readable == {r.name : r \in {q \in Registers(ir) :
                                                        q.access \notin {"wo", "rsvd"}}}
                    IN  code.todo \intersect readable = asked
  BY DEF CodeSaysUnknown
<1>1. ir \in In(artifacts[infer], "reg-ir.json") /\ code \in In(artifacts[emit], "device.c")
  BY FiledIn
<1>2. MapStage(artifacts[infer])
  BY <1>1, NothingIn DEF IInv, Shape, StageOrder, infer
<1>3. ir \in RegIR /\ Validate(ir) /\ artifacts[infer] = MapDrafts(ir)
  BY <1>1, <1>2, MapStageHas
<1>4. artifacts[emit] = EmitDrafts(ir)
  BY <1>1, NothingIn DEF IInv, Shape, Emitted
<1>5. code.todo = Todo(ir)
  BY <1>1, <1>4, EmitDraftsHave DEF Render
<1>6. UNION {q.resets : q \in Filed(infer, "open-questions.md")} = OpenQuestions(ir).resets
  BY <1>3, FiledIn, MapDraftsHave
<1>7. QED BY <1>3, <1>5, <1>6, UnknownReadable

LEMMA EarnedInv == IInv => VerdictIsEarned
  BY FiledIn DEF IInv, Verdict, Earned, VerdictIsEarned

\* "Every claim about hardware that reaches generated C has passed Validate() first"
\* (regir.go:8), and what Validate lets through is sound: sorting and comparing
\* neighbours decides about every pair, of every number of registers and fields.
THEOREM SoundMapAlways == Spec => []SoundMap
  BY InductiveInvariant, SoundInv, PTL

\* Whatever the model proposes, in any number of candidates, mergeInferred
\* (stage_infer.go) leaves what extract read out of the datasheet.
THEOREM InferKeepsTheMapAlways == Spec => []InferKeepsTheMap
  BY InductiveInvariant, KeepsInv, PTL

\* The code emit files and the questions infer files are of one map
\* (findStageArtifact), so writeReset marks TODO what OpenQuestions asks about.
THEOREM CodeSaysUnknownAlways == Spec => []CodeSaysUnknown
  BY InductiveInvariant, CodeInv, PTL

\* A report of ok, and a project that is done, is of a run whose build and test
\* exited 0 as splitExitMarker (stage_verify.go) reads it.
THEOREM VerdictIsEarnedAlways == Spec => []VerdictIsEarned
  BY InductiveInvariant, EarnedInv, PTL

=============================================================================
