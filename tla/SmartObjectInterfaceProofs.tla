---------------------- MODULE SmartObjectInterfaceProofs ----------------------
(***************************************************************************)
(* Proofs about the graphical interface and the smart objects it speaks    *)
(* to: for every table, every sequence of changes and every loss, what an  *)
(* object shows is what the last row that reached it holds, and it runs    *)
(* the mission that was last chosen for it, where no message misled it.    *)
(*                                                                         *)
(* The heart is what a message becomes: the digits of the LEDs are where   *)
(* the test looks for them. The rest says which row an object heard last,  *)
(* and that a row changed without being heard is known to be so.           *)
(***************************************************************************)
EXTENDS SmartObjectInterface, Integers, FiniteSetTheorems, SequenceTheorems,
        WellFoundedInduction, TLAPS

(* The row an object shows is one of its own rows. *)
Spoke == \A a \in Addresses : shown[a] # 0 => smart_object_list[shown[a]].Id = a

(* The rows of a group are different rows. *)
Distinct == \A j, k \in DOMAIN Members : j # k => Members[j] # Members[k]

-----------------------------------------------------------------------------
(* A set of rows that is not empty has a last one. *)
LEMMA LastRow ==
  ASSUME NEW n \in Nat, NEW S \in SUBSET (1..n), S # {}
  PROVE  Max(S) \in S
<1> DEFINE above(x) == {y \in S : y > x}
           T == {above(x) : x \in S}
<1>1. IsWellFoundedOn(StrictSubsetOrdering(1..n), FiniteSubsetsOf(1..n))
  BY FS_StrictSubsetOrderingWellFounded
<1>2. T \subseteq FiniteSubsetsOf(1..n) /\ T # {}
  <2>1. IsFiniteSet(1..n)
    BY FS_Interval
  <2>2. \A U \in SUBSET (1..n) : IsFiniteSet(U)
    BY <2>1, FS_Subset
  <2>3. QED
    BY <2>2 DEF FiniteSubsetsOf
<1>3. PICK U \in T : \A V \in T : <<V, U>> \notin StrictSubsetOrdering(1..n)
  <2> HIDE DEF T
  <2>1. QED
    BY <1>1, <1>2, WFMin
<1>4. PICK x \in S : U = above(x)
  OBVIOUS
<1>5. ASSUME NEW y \in S, y > x
      PROVE  FALSE
  <2>1. /\ above(y) \in T /\ above(y) \subseteq above(x) /\ y \in above(x) /\ y \notin above(y)
        /\ above(x) \subseteq 1..n
    <3>1. x \in Nat /\ y \in Nat /\ \A z \in S : z \in Nat
      BY <1>4, <1>5
    <3>2. \A z \in S : z > y => z > x
      BY <1>5, <3>1
    <3>3. y \in above(x) /\ y \notin above(y)
      BY <1>5, <3>1
    <3>4. above(y) \subseteq above(x)
      BY <3>2
    <3>5. QED
      BY <1>5, <3>3, <3>4
  <2>2. <<above(y), above(x)>> \in StrictSubsetOrdering(1..n)
    <3> HIDE DEF above
    <3>1. above(y) # above(x) /\ above(y) \in SUBSET (1..n) /\ above(x) \in SUBSET (1..n)
      BY <2>1
    <3>2. QED
      BY <2>1, <3>1 DEF StrictSubsetOrdering
  <2>3. QED
    BY <1>3, <1>4, <2>1, <2>2
<1>6. \A y \in S : x >= y
  BY <1>5
<1>7. QED
  BY <1>6 DEF Max

(* What is written with three digits at most.                              *)
ThreeDigits == 0..999

(* What Decimal writes. *)
LEMMA DigitsOf ==
  ASSUME NEW n \in ThreeDigits
  PROVE  /\ Decimal(n) \in Seq(0..9) /\ Len(Decimal(n)) \in 1..3
         /\ n >= 100 => Len(Decimal(n)) = 3
<1> USE DEF ThreeDigits
<1>1. CASE n < 10
  BY <1>1 DEF Decimal
<1>2. CASE n >= 10 /\ n < 100
  <2>1. Decimal(n) = <<n \div 10, n % 10>> /\ n \div 10 \in 0..9 /\ n % 10 \in 0..9
    BY <1>2 DEF Decimal
  <2>2. QED
    BY <1>2, <2>1
<1>3. CASE n >= 100
  <2>1. Decimal(n) = <<n \div 100, (n \div 10) % 10, n % 10>>
    BY <1>3 DEF Decimal
  <2>2. n \div 100 \in 0..9 /\ (n \div 10) % 10 \in 0..9 /\ n % 10 \in 0..9
    BY <1>3
  <2>3. QED
    BY <1>3, <2>1, <2>2
<1>4. QED
  BY <1>1, <1>2, <1>3

-----------------------------------------------------------------------------
(* What a row makes an object show lies in two of its fields. *)
LEMMA BelievedSame ==
  ASSUME NEW o, NEW p, p.color = o.color, p.Configuration = o.Configuration
  PROVE  Believed(p) = Believed(o)
BY Zenon DEF Believed

(* What a row holds. *)
LEMMA RowOf ==
  ASSUME NEW o \in Objects
  PROVE  /\ o.brightness \in ThreeDigits /\ o.color \in Colors \cup {0} /\ o.color \in Nat
         /\ o.Configuration \in [1..Leds -> Bits] /\ o.Id \in Addresses /\ Leds \in Nat \ {0}
<1>1. /\ o.brightness \in Brightnesses \cup {255} /\ o.color \in Colors \cup {0}
      /\ o.Configuration \in [1..Leds -> Bits] /\ o.Id \in Addresses
  BY DEF Objects
<1>2. /\ \A b \in Brightnesses : b \in ThreeDigits 
      /\ \A c \in Colors : c \in 0..3
      /\ Leds \in Nat \ {0}
  BY InterfaceAssumption DEF ThreeDigits
<1>3. (\A b \in Brightnesses \cup {255} : b \in ThreeDigits) /\ (\A c \in Colors \cup {0} : c \in Nat)
  BY <1>2 DEF ThreeDigits
<1>4. o.brightness \in ThreeDigits
  BY <1>1, <1>3
<1>5. o.color \in Nat
  BY <1>1, <1>3
<1>6. QED
  BY <1>1, <1>2, <1>4, <1>5

(* The digits of a message that lights LEDs: the colour, the brightness,   *)
(* the configuration.                                                      *)
LEMMA DigitsOfColor ==
  ASSUME NEW o \in Objects, o.color # 0
  PROVE  LET m == ColorMessage(o)
             d == Decimal(o.brightness)
         IN  /\ m \in Seq(Nat) /\ Len(m) = 1 + Len(d) + Leds /\ m[1] = o.color
             /\ \A k \in 1..Len(d) : m[1 + k] = d[k]
             /\ \A i \in 1..Leds : m[1 + Len(d) + i] = o.Configuration[i]
<1>1. o.brightness \in ThreeDigits /\ o.color \in Nat /\ o.Configuration \in [1..Leds -> Bits] /\ Leds \in Nat
  BY RowOf
<1>2. o.Configuration \in Seq(Nat) /\ Len(o.Configuration) = Leds
  BY <1>1 DEF Bits
<1>3. Decimal(o.brightness) \in Seq(Nat)
  <2>1. \A q \in Seq(0..9) : q \in Seq(Nat)
    OBVIOUS
  <2>2. QED
    BY <1>1, <2>1, DigitsOf
<1>4. PICK c \in Nat, d, e \in Seq(Nat) : c = o.color /\ d = Decimal(o.brightness) /\ e = o.Configuration
  BY <1>1, <1>2, <1>3, Zenon
<1>5. Len(d) \in Nat /\ Len(e) \in Nat /\ Len(e) = Leds
  BY <1>2, <1>4, LenProperties
<1>6. PICK f \in Seq(Nat) : f = <<c>> \o d /\ Len(f) = 1 + Len(d) /\ f[1] = c /\ \A k \in 1..Len(d) : f[1 + k] = d[k]
  <2>1. <<c>> \in Seq(Nat) /\ Len(<<c>>) = 1 /\ <<c>>[1] = c
    BY <1>4
  <2>2. <<c>> \o d \in Seq(Nat) /\ Len(<<c>> \o d) = 1 + Len(d) /\ (<<c>> \o d)[1] = c
    BY <1>4, <1>5, <2>1
  <2>3. \A k \in 1..Len(d) : (<<c>> \o d)[1 + k] = d[k]
    BY <1>4, <1>5, <2>1
  <2>4. QED
    BY <2>2, <2>3
<1>7. PICK m \in Seq(Nat) :
                            /\ m = f \o e /\ Len(m) = Len(f) + Len(e)
                            /\ \A k \in 1..Len(f) + Len(e) : m[k] = IF k <= Len(f) THEN f[k] ELSE e[k - Len(f)]
  <2>1. \A k \in 1..Len(f) + Len(e) : (f \o e)[k] = IF k <= Len(f) THEN f[k] ELSE e[k - Len(f)]
    BY ConcatProperties
  <2>2. f \o e \in Seq(Nat) /\ Len(f \o e) = Len(f) + Len(e)
    BY ConcatProperties
  <2>3. QED
    BY <2>1, <2>2
<1>8. ColorMessage(o) = m
  BY <1>4, <1>6, <1>7 DEF ColorMessage
<1>9. m[1] = c /\ Len(m) = 1 + Len(d) + Len(e)
  BY <1>5, <1>6, <1>7
<1>10. \A k \in 1..Len(d) : m[1 + k] = d[k]
  <2>1. \A k \in 1..Len(d) : 1 + k \in 1..Len(f) + Len(e) /\ 1 + k <= Len(f)
    BY <1>5, <1>6
  <2>2. QED
    BY <1>6, <1>7, <2>1
<1>11. \A i \in 1..Len(e) : m[1 + Len(d) + i] = e[i]
  <2>1. \A i \in 1..Len(e) : /\ 1 + Len(d) + i \in 1..Len(f) + Len(e) /\ ~(1 + Len(d) + i <= Len(f))
                              /\ 1 + Len(d) + i - Len(f) = i
    BY <1>5, <1>6
  <2>2. QED
    BY <1>7, <2>1
<1>12. QED
  BY <1>4, <1>5, <1>7, <1>8, <1>9, <1>10, <1>11

LedTypes == [color : Colors \cup {0}, lit : SUBSET (1..Leds)]

(* What a test shows of a row: always a legal state of the LEDs, and what  *)
(* the interface believes when the brightness has three digits.            *)
LEMMA ReadBack ==
  ASSUME NEW o \in Objects
  PROVE  /\ TestOf(ColorMessage(o)) \in LedTypes
         /\ o.brightness \in Hundreds => TestOf(ColorMessage(o)) = Believed(o)
<1>1. Dark \in LedTypes /\ Leds \in Nat \ {0}
  BY InterfaceAssumption DEF Dark, LedTypes
<1>2. CASE o.color = 0
  <2>1. ColorMessage(o)[1] = 0
    BY <1>1, <1>2 DEF ColorMessage, Zeros
  <2>2. TestOf(ColorMessage(o)) = Dark /\ Believed(o) = Dark
    BY <1>2, <2>1 DEF TestOf, Believed
  <2>3. QED
    BY <1>1, <2>2
<1>3. CASE o.color # 0
  <2> DEFINE d == Decimal(o.brightness)
  <2>1. PICK m \in Seq(Nat) : m = ColorMessage(o)
    BY <1>3, DigitsOfColor
  <2>2. /\ Len(m) = 1 + Len(d) + Leds /\ m[1] = o.color
        /\ \A k \in 1..Len(d) : m[1 + k] = d[k]
        /\ \A i \in 1..Leds : m[1 + Len(d) + i] = o.Configuration[i]
    BY <1>3, <2>1, DigitsOfColor
  <2>3. o.brightness \in ThreeDigits /\ o.color \in Colors
    BY <1>3, RowOf
  <2>4. Len(d) \in 1..3
    BY <2>3, DigitsOf
  <2>5. PICK lit \in SUBSET (1..Leds) : lit = {i \in 1..Leds : (IF 4 + i <= Len(m) THEN m[4 + i] ELSE 0) = 1}
    OBVIOUS
  <2>10. TestOf(m) = IF m[1] = 0 \/ lit = {} THEN Dark ELSE [color |-> m[1], lit |-> lit]
    BY <2>5 DEF TestOf
  <2>7. TestOf(m) \in LedTypes
    <3>1. m[1] \in Colors \cup {0} /\ lit \in SUBSET (1..Leds)
      BY <2>2, <2>3, <2>5
    <3>2. [color |-> m[1], lit |-> lit] \in LedTypes
      BY <3>1 DEF LedTypes
    <3>3. QED
      BY <1>1, <2>10, <3>2
  <2>8. ASSUME o.brightness \in Hundreds
        PROVE  TestOf(m) = Believed(o)
    <3>1. Len(d) = 3
      <4>1. o.brightness >= 100
        <5>1. \A b \in Hundreds : b >= 100
          BY DEF Hundreds
        <5>2. QED
          BY <2>8, <5>1, Zenon
      <4>2. QED
        BY <2>3, <4>1, DigitsOf
    <3>2. lit = {i \in 1..Leds : o.Configuration[i] = 1}
      <4>1. \A i \in 1..Leds : 4 + i <= Len(m) /\ 1 + Len(d) + i = 4 + i
        BY <1>1, <2>2, <3>1
      <4>2. \A i \in 1..Leds : (IF 4 + i <= Len(m) THEN m[4 + i] ELSE 0) = o.Configuration[i]
        BY <2>2, <4>1
      <4>3. QED
        BY <2>5, <4>2
    <3>3. QED
      BY <1>3, <2>2, <2>10, <3>2 DEF Believed
  <2>9. QED
    BY <2>1, <2>7, <2>8
<1>4. QED
  BY <1>2, <1>3

-----------------------------------------------------------------------------
(* The rows of the table, and what the table is when a row is changed.     *)
LEMMA RowsAre ==
  ASSUME TypeOK
  PROVE  /\ Len(smart_object_list) \in Nat /\ Rows = 1..Len(smart_object_list)
         /\ \A i \in Rows : smart_object_list[i] \in Objects
         /\ \A list \in [Rows -> Objects] : list \in Seq(Objects) /\ 1..Len(list) = Rows
<1>1. smart_object_list \in Seq(Objects)
  BY DEF TypeOK
<1>2. PICK n \in Nat : n = Len(smart_object_list) /\ smart_object_list \in [1..n -> Objects]
  BY <1>1, LenProperties
<1>3. \A list \in [1..n -> Objects] : list \in Seq(Objects) /\ Len(list) = n
  BY <1>2
<1>4. QED
  BY <1>2, <1>3 DEF Rows

(* Rows as a dialog changes them: rows of the same objects. *)
Changed(rows) == rows \in [Rows -> Objects] /\ \A i \in Rows : rows[i].Id = smart_object_list[i].Id

(* The rows that are changed or reached are rows of the table. *)
LEMMA Targets ==
  ASSUME TypeOK, NEW targets \in Seq(Rows), NEW told \in 0..Len(targets)
  PROVE  /\ Reached(targets, told) \subseteq Rows /\ Touched(targets, told) \subseteq Rows
         /\ Reached(targets, told) \subseteq Touched(targets, told)
<1>1. PICK n \in Nat : n = Len(targets) /\ \A j \in 1..n : targets[j] \in Rows
  BY LenProperties, ElementOfSeq
<1>2. told \in 0..n
  BY <1>1
<1>3. PICK last \in Nat : last = Min({told + 1, n}) /\ told <= last /\ last <= n
  <2>1. ASSUME NEW x \in Nat
        PROVE  Min({x, n}) = IF x <= n THEN x ELSE n
    <3>1. \A z \in {x, n} : (\A y \in {x, n} : z =< y) <=> z = IF x <= n THEN x ELSE n
      BY <1>1, <2>1
    <3>2. (IF x <= n THEN x ELSE n) \in {x, n}
      OBVIOUS
    <3>3. QED
      BY <3>1, <3>2 DEF Min
  <2>2. Min({told + 1, n}) = IF told + 1 <= n THEN told + 1 ELSE n
    BY <1>2, <2>1
  <2>3. QED
    BY <1>1, <1>2, <2>2
<1>4. 1..told \subseteq 1..last /\ 1..last \subseteq 1..n
  <2>1. \A x, y \in Nat : x <= y => 1..x \subseteq 1..y
    OBVIOUS
  <2>2. told \in Nat /\ told <= last /\ last \in Nat /\ last <= n
    BY <1>2, <1>3
  <2>3. QED
    BY <1>1, <2>1, <2>2, Zenon
<1>5. Touched(targets, told) = {targets[j] : j \in 1..last}
  BY <1>1, <1>3 DEF Touched, Reached
<1>6. QED
  BY <1>1, <1>4, <1>5 DEF Reached

(* What sending does to the table. *)
LEMMA Sent ==
  ASSUME TypeOK, NEW targets \in Seq(Rows), NEW told \in 0..Len(targets), NEW rows, Changed(rows),
         Send(targets, told, rows)
  PROVE  /\ smart_object_list' \in Seq(Objects) /\ Rows' = Rows
         /\ \A i \in Rows : smart_object_list'[i] = IF i \in Touched(targets, told) THEN rows[i]
                                                                                    ELSE smart_object_list[i]
         /\ UNCHANGED selectVars
<1>1. smart_object_list' = [i \in Rows |-> IF i \in Touched(targets, told) THEN rows[i] ELSE smart_object_list[i]]
  BY DEF Send
<1>2. smart_object_list' \in [Rows -> Objects]
  BY <1>1, RowsAre DEF Changed
<1>3. smart_object_list' \in Seq(Objects) /\ 1..Len(smart_object_list') = Rows
  BY <1>2, RowsAre
<1>4. UNCHANGED selectVars
  BY DEF Send
<1>5. QED
  BY <1>1, <1>3, <1>4 DEF Rows

(* An object that some of the rows reached was told by the last of them. *)
LEMMA LastSender ==
  ASSUME TypeOK, NEW targets \in Seq(Rows), NEW told \in 0..Len(targets), NEW a, Senders(targets, told, a) # {}
  PROVE  \E i \in Reached(targets, told) : /\ i \in Rows /\ i = Max(Senders(targets, told, a))
                                           /\ smart_object_list[i].Id = a
<1>1. PICK n \in Nat : Rows = 1..n
  BY RowsAre
<1>2. Senders(targets, told, a) \in SUBSET (1..n)
  BY <1>1, Targets DEF Senders
<1>3. Max(Senders(targets, told, a)) \in Senders(targets, told, a)
  BY <1>2, LastRow
<1>4. QED
  BY <1>1, <1>2, <1>3 DEF Senders

-----------------------------------------------------------------------------
(* The messages of one object and of a group go to rows of the table. *)
LEMMA OneRow ==
  ASSUME TypeOK, actual_smart_object # 0
  PROVE  One \in Seq(Rows) /\ Len(One) = 1
BY DEF TypeOK, One

LEMMA MembersAre ==
  ASSUME TypeOK
  PROVE  Members \in Seq(Rows) /\ (Members # <<>> => Members[1] \in Rows)
<1>1. CASE actual_smart_object_list = Table
  <2>1. PICK n \in Nat : Rows = 1..n
    BY RowsAre
  <2>2. [i \in 1..n |-> i] \in Seq(1..n) /\ ([i \in 1..n |-> i] # <<>> => 1 \in 1..n)
    OBVIOUS
  <2>3. QED
    BY <1>1, <2>1, <2>2 DEF Members
<1>2. CASE actual_smart_object_list # Table
  <2>1. Members = actual_smart_object_list /\ Members \in Seq(Rows)
    BY <1>2 DEF Members, TypeOK
  <2>2. \A q \in Seq(Rows) : q # <<>> => q[1] \in Rows
    OBVIOUS
  <2>3. QED
    BY <2>1, <2>2
<1>3. QED
  BY <1>1, <1>2

(* The rows as a dialog changes them stay rows, of the same objects. *)
LEMMA ChangedRows ==
  ASSUME TypeOK
  PROVE  /\ \A color \in Colors : Changed(WithColor(color))
         /\ \A brightness \in Brightnesses : Changed(WithBrightness(brightness))
         /\ \A config \in [Rows -> [1..Leds -> Bits]] : Changed(WithConfiguration(config))
<1>1. \A i \in Rows : smart_object_list[i] \in Objects
  BY RowsAre
<1>2. \A o \in Objects, color \in Colors : [o EXCEPT !.color = color] \in Objects /\ [o EXCEPT !.color = color].Id = o.Id
  BY DEF Objects
<1>3. \A o \in Objects, b \in Brightnesses :
         [o EXCEPT !.brightness = b] \in Objects /\ [o EXCEPT !.brightness = b].Id = o.Id
  BY DEF Objects
<1>4. \A o \in Objects, c \in [1..Leds -> Bits] :
         [o EXCEPT !.Configuration = c] \in Objects /\ [o EXCEPT !.Configuration = c].Id = o.Id
  BY DEF Objects
<1>5. ASSUME NEW color \in Colors
      PROVE  Changed(WithColor(color))
  BY <1>1, <1>2 DEF Changed, WithColor
<1>6. ASSUME NEW b \in Brightnesses
      PROVE  Changed(WithBrightness(b))
  BY <1>1, <1>3 DEF Changed, WithBrightness
<1>7. ASSUME NEW config \in [Rows -> [1..Leds -> Bits]]
      PROVE  Changed(WithConfiguration(config))
  BY <1>1, <1>4 DEF Changed, WithConfiguration
<1>8. QED
  BY <1>5, <1>6, <1>7

LEMMA ConfigurationsAre ==
  ASSUME TypeOK, NEW config \in 1..Leds
  PROVE  /\ [i \in Rows |-> changeConfig(config, smart_object_list[i].Configuration)] \in [Rows -> [1..Leds -> Bits]]
         /\ Members # <<>> => ForGroup(config) \in [Rows -> [1..Leds -> Bits]]
<1>1. \A i \in Rows : smart_object_list[i].Configuration \in [1..Leds -> Bits]
  BY RowsAre, RowOf
<1>2. \A c \in [1..Leds -> Bits] : changeConfig(config, c) \in [1..Leds -> Bits]
  BY DEF changeConfig, Bits
<1>3. QED
  BY <1>1, <1>2, MembersAre DEF ForGroup

(* Every handler that sends colours is an instance of SendColors. *)
LEMMA ColorSenders ==
  ASSUME TypeOK, SetColor \/ SetConfig \/ SetBrightness \/ SetGroupColor \/ SetGroupConfig
  PROVE  \E targets \in Seq(Rows) : \E told \in 0..Len(targets) : \E rows \in [Rows -> Objects] :
            Changed(rows) /\ SendColors(targets, told, rows)
<1>1. \A rows : Changed(rows) => rows \in [Rows -> Objects]
  BY DEF Changed
<1>2. Members \in Seq(Rows)
  BY MembersAre
<1>3. CASE SetColor
  <2>1. PICK color \in Colors, told \in 0..1 : actual_smart_object # 0 /\ SendColors(One, told, WithColor(color))
    BY <1>3 DEF SetColor, Uses
  <2>2. QED
    BY <1>1, <2>1, OneRow, ChangedRows
<1>4. CASE SetConfig
  <2>1. PICK config \in 1..Leds, told \in 0..1 :
           actual_smart_object # 0 /\ SendColors(One, told, WithConfiguration(
              [i \in Rows |-> changeConfig(config, smart_object_list[i].Configuration)]))
    BY <1>4 DEF SetConfig, Uses
  <2>2. QED
    BY <1>1, <2>1, OneRow, ChangedRows, ConfigurationsAre
<1>5. CASE SetBrightness
  <2>1. PICK brightness \in Brightnesses, told \in 0..1 :
           actual_smart_object # 0 /\ SendColors(One, told, WithBrightness(brightness))
    BY <1>5 DEF SetBrightness, Uses
  <2>2. QED
    BY <1>1, <2>1, OneRow, ChangedRows
<1>6. CASE SetGroupColor
  <2>1. PICK color \in Colors, told \in 0..Len(Members) : SendColors(Members, told, WithColor(color))
    BY <1>6 DEF SetGroupColor
  <2>2. QED
    BY <1>1, <1>2, <2>1, ChangedRows
<1>7. CASE SetGroupConfig
  <2>1. PICK config \in 1..Leds, told \in 0..Len(Members) :
           Members # <<>> /\ SendColors(Members, told, WithConfiguration(ForGroup(config)))
    BY <1>7 DEF SetGroupConfig
  <2>2. QED
    BY <1>1, <1>2, <2>1, ChangedRows, ConfigurationsAre
<1>8. QED
  BY <1>3, <1>4, <1>5, <1>6, <1>7

LEMMA DigitsEntered ==
  /\ \A m \in Missions : m \in ThreeDigits
  /\ \A b \in Brightnesses : b \in ThreeDigits
<1>1. Missions \subseteq {1, 2, 3, 8, 9} /\ Brightnesses \subseteq ThreeDigits
  BY InterfaceAssumption DEF ThreeDigits
<1>2. \A m \in {1, 2, 3, 8, 9} : m \in ThreeDigits
  BY DEF ThreeDigits
<1>3. QED
  BY <1>1, <1>2

(* A mission the user chooses is sent to one row or to those of a group.   *)
LEMMA MissionChoosers ==
  ASSUME TypeOK, SetMission \/ SetGroupMission
  PROVE  \E targets \in Seq(Rows) : \E told \in 0..Len(targets) : \E mission \in ThreeDigits :
            SendMission(targets, told, mission) /\ Choose(targets, told, mission)
<1>1. Members \in Seq(Rows)
  BY MembersAre
<1>2. CASE SetMission
  <2>1. PICK mission \in Missions, told \in 0..1 :
           actual_smart_object # 0 /\ SendMission(One, told, mission) /\ Choose(One, told, mission)
    BY <1>2 DEF SetMission, Uses
  <2>2. told \in 0..Len(One) /\ One \in Seq(Rows) /\ mission \in ThreeDigits
    BY <2>1, OneRow, DigitsEntered
  <2>3. QED
    BY <2>1, <2>2, Zenon
<1>3. CASE SetGroupMission
  <2>1. PICK mission \in Missions, told \in 0..Len(Members) :
           SendMission(Members, told, mission) /\ Choose(Members, told, mission)
    BY <1>3 DEF SetGroupMission
  <2>2. mission \in ThreeDigits
    BY <2>1, DigitsEntered
  <2>3. QED
    BY <1>1, <2>1, <2>2, Zenon
<1>4. QED
  BY <1>2, <1>3

(* Every handler that sends missions is an instance of SendMission; the    *)
(* brightness of a group goes out as a mission.                            *)
LEMMA MissionSenders ==
  ASSUME TypeOK, SetMission \/ SetGroupMission \/ SetGroupBrightness
  PROVE  \E targets \in Seq(Rows) : \E told \in 0..Len(targets) : \E mission \in ThreeDigits :
            SendMission(targets, told, mission)
<1>1. CASE SetMission \/ SetGroupMission
  BY <1>1, MissionChoosers
<1>2. CASE SetGroupBrightness
  <2>1. PICK brightness \in Brightnesses, told \in 0..Len(Members) : SendMission(Members, told, brightness)
    BY <1>2 DEF SetGroupBrightness
  <2>2. brightness \in ThreeDigits
    BY <2>1, DigitsEntered, Zenon
  <2>3. told \in 0..Len(Members) /\ Members \in Seq(Rows)
    BY <2>1, MembersAre
  <2>4. QED
    BY <2>1, <2>2, <2>3, Zenon
<1>3. QED
  BY <1>1, <1>2

-----------------------------------------------------------------------------
(* What SendColors does to the table, to one object and to what is unsent. *)
LEMMA ColorsSent ==
  ASSUME TypeOK, NEW targets \in Seq(Rows), NEW told \in 0..Len(targets), NEW rows, Changed(rows),
         SendColors(targets, told, rows)
  PROVE  /\ smart_object_list' \in Seq(Objects) /\ Rows' = Rows
         /\ \A i \in Rows : smart_object_list'[i].Id = smart_object_list[i].Id
         /\ device' = [a \in Addresses |-> device'[a]] /\ shown' = [a \in Addresses |-> shown'[a]]
         /\ unsent' \subseteq Rows /\ UNCHANGED <<chosen, misled, selectVars>>
         /\ \A a \in Addresses :
              \/ /\ device'[a] = device[a] /\ shown'[a] = shown[a]
                 /\ \A i \in Rows : smart_object_list[i].Id = a /\ i \notin unsent' =>
                       i \notin unsent /\ smart_object_list'[i] = smart_object_list[i]
              \/ \E i \in Rows : /\ smart_object_list'[i] \in Objects /\ smart_object_list'[i].Id = a
                                 /\ shown'[a] = i
                                 /\ device'[a] = AfterTest(device[a], ColorMessage(smart_object_list'[i]))
<1> DEFINE R == Reached(targets, told)
           T == Touched(targets, told)
<1>1. /\ Send(targets, told, rows) /\ UNCHANGED <<chosen, misled>> /\ unsent' = (unsent \ R) \cup (T \ R)
      /\ shown' = [a \in Addresses |-> IF Senders(targets, told, a) = {} THEN shown[a]
                                       ELSE Max(Senders(targets, told, a))]
      /\ device' = [a \in Addresses |->
                      IF Senders(targets, told, a) = {} THEN device[a]
                      ELSE AfterTest(device[a], ColorMessage(rows[Max(Senders(targets, told, a))]))]
  BY DEF SendColors
<1>2. /\ smart_object_list' \in Seq(Objects) /\ Rows' = Rows /\ UNCHANGED selectVars
      /\ \A i \in Rows : smart_object_list'[i] = IF i \in T THEN rows[i] ELSE smart_object_list[i]
  BY <1>1, Sent
<1>3. R \subseteq Rows /\ T \subseteq Rows /\ R \subseteq T
  BY Targets
<1>4. \A i \in Rows : rows[i] \in Objects /\ rows[i].Id = smart_object_list[i].Id
  BY DEF Changed
<1>5. ASSUME NEW a \in Addresses, Senders(targets, told, a) = {}
      PROVE  /\ device'[a] = device[a] /\ shown'[a] = shown[a]
             /\ \A i \in Rows : smart_object_list[i].Id = a /\ i \notin unsent' =>
                   i \notin unsent /\ smart_object_list'[i] = smart_object_list[i]
  <2>1. device'[a] = device[a] /\ shown'[a] = shown[a]
    BY <1>1, <1>5
  <2>2. ASSUME NEW i \in Rows, smart_object_list[i].Id = a, i \notin unsent'
        PROVE  i \notin unsent /\ smart_object_list'[i] = smart_object_list[i]
    <3>1. i \notin R
      BY <1>5, <2>2 DEF Senders
    <3>2. i \notin T /\ i \notin unsent
      BY <1>1, <2>2, <3>1
    <3>3. QED
      BY <1>2, <3>2
  <2>3. QED
    BY <2>1, <2>2
<1>6. ASSUME NEW a \in Addresses, Senders(targets, told, a) # {}
      PROVE  \E i \in Rows : /\ smart_object_list'[i] \in Objects /\ smart_object_list'[i].Id = a
                            /\ shown'[a] = i
                            /\ device'[a] = AfterTest(device[a], ColorMessage(smart_object_list'[i]))
  <2>1. PICK i \in R : i \in Rows /\ i = Max(Senders(targets, told, a)) /\ smart_object_list[i].Id = a
    BY <1>6, LastSender
  <2>2. shown'[a] = i /\ device'[a] = AfterTest(device[a], ColorMessage(rows[i]))
    BY <1>1, <1>6, <2>1
  <2>3. smart_object_list'[i] = rows[i]
    BY <1>2, <1>3, <2>1
  <2>4. rows[i].Id = a
    BY <1>4, <2>1
  <2>5. QED
    BY <1>4, <2>1, <2>2, <2>3, <2>4
<1>7. \A i \in Rows : smart_object_list'[i].Id = smart_object_list[i].Id
  BY <1>2, <1>4
<1>8. unsent' \subseteq Rows
  BY <1>1, <1>3 DEF TypeOK
<1>9. QED
  <2> HIDE DEF R, T
  <2>1. QED
    BY <1>1, <1>2, <1>5, <1>6, <1>7, <1>8

(* What SendMission does: an object obeys the last of the messages that it *)
(* acts on.                                                                *)
LEMMA MissionsSent ==
  ASSUME TypeOK, NEW targets \in Seq(Rows), NEW told \in 0..Len(targets), NEW mission,
         SendMission(targets, told, mission)
  PROVE  /\ smart_object_list' \in Seq(Objects) /\ Rows' = Rows
         /\ \A i \in Rows : smart_object_list'[i] = smart_object_list[i]
         /\ device' = [a \in Addresses |-> device'[a]]
         /\ UNCHANGED <<shown, unsent, selectVars>>
         /\ \A a \in Addresses :
              \/ Acting(targets, told, mission, a) = {} /\ device'[a] = device[a]
              \/ \E i \in Senders(targets, told, a) :
                   /\ i \in Acting(targets, told, mission, a) /\ i = Max(Acting(targets, told, mission, a))
                   /\ Digit(i, mission) \in Commands /\ device'[a] = AfterMission(Digit(i, mission))
<1>1. /\ Send(targets, told, smart_object_list) /\ UNCHANGED <<shown, unsent>>
      /\ device' = [a \in Addresses |->
                      IF Acting(targets, told, mission, a) = {} THEN device[a]
                      ELSE AfterMission(Digit(Max(Acting(targets, told, mission, a)), mission))]
  BY DEF SendMission
<1>2. Changed(smart_object_list)
  <2>1. smart_object_list \in [Rows -> Objects]
    BY LenProperties DEF TypeOK, Rows
  <2>2. QED
    BY <2>1 DEF Changed
<1>3. /\ smart_object_list' \in Seq(Objects) /\ Rows' = Rows /\ UNCHANGED selectVars
      /\ \A i \in Rows : smart_object_list'[i] = IF i \in Touched(targets, told) THEN smart_object_list[i]
                                                                                 ELSE smart_object_list[i]
  BY <1>1, <1>2, Sent
<1>4. ASSUME NEW a \in Addresses, Acting(targets, told, mission, a) # {}
      PROVE  \E i \in Senders(targets, told, a) :
                   /\ i \in Acting(targets, told, mission, a) /\ i = Max(Acting(targets, told, mission, a))
                   /\ Digit(i, mission) \in Commands /\ device'[a] = AfterMission(Digit(i, mission))
  <2>1. PICK n \in Nat : Rows = 1..n
    BY RowsAre
  <2>2. Acting(targets, told, mission, a) \in SUBSET (1..n)
    BY <2>1, Targets DEF Acting, Senders
  <2>3. PICK i : i = Max(Acting(targets, told, mission, a)) /\ i \in Acting(targets, told, mission, a)
    BY <1>4, <2>2, LastRow
  <2>4. device'[a] = AfterMission(Digit(i, mission))
    BY <1>1, <1>4, <2>3
  <2>5. i \in Senders(targets, told, a) /\ Digit(i, mission) \in Commands
    BY <2>3 DEF Acting
  <2>6. QED
    BY <2>3, <2>4, <2>5
<1>5. QED
  BY <1>1, <1>3, <1>4

(* What a free message does: who heard it may do anything. *)
LEMMA FreeSent ==
  ASSUME SendMessage \/ SendGroupMessage
  PROVE  /\ UNCHANGED <<smart_object_list, selectVars, misled, shown, unsent>>
         /\ device' = [a \in Addresses |-> device'[a]] /\ chosen' = [a \in Addresses |-> chosen'[a]]
         /\ \A a \in Addresses :
              \/ device'[a] = device[a] /\ chosen'[a] = chosen[a]
              \/ device'[a] = Doing("unknown", 0, Dark) /\ chosen'[a] = 0
<1>1. PICK targets, told : SendFree(targets, told)
  BY DEF SendMessage, SendGroupMessage
<1>2. PICK heard : /\ device' = [a \in Addresses |-> IF a \in heard THEN Doing("unknown", 0, Dark) ELSE device[a]]
                   /\ chosen' = [a \in Addresses |-> IF a \in heard THEN 0 ELSE chosen[a]]
                   /\ UNCHANGED <<smart_object_list, selectVars, misled, shown, unsent>>
  BY <1>1 DEF SendFree
<1>3. device' = [a \in Addresses |-> device'[a]] /\ chosen' = [a \in Addresses |-> chosen'[a]]
  BY <1>2
<1>4. ASSUME NEW a \in Addresses
      PROVE  \/ device'[a] = device[a] /\ chosen'[a] = chosen[a]
             \/ device'[a] = Doing("unknown", 0, Dark) /\ chosen'[a] = 0
  BY <1>2
<1>5. QED
  BY <1>2, <1>3, <1>4

(* What the handlers of missions do to what is chosen. *)
LEMMA ChosenTypes ==
  ASSUME TypeOK, SetMission \/ SetGroupMission \/ SetGroupBrightness
  PROVE  chosen' \in [Addresses -> Runnable \cup {0}] /\ misled' \subseteq Addresses
<1>1. chosen \in [Addresses -> Runnable \cup {0}] /\ misled \subseteq Addresses
  BY DEF TypeOK
<1>2. CASE SetMission \/ SetGroupMission
  <2>1. PICK targets, told, mission : Choose(targets, told, mission)
    BY <1>2 DEF SetMission, SetGroupMission
  <2>2. QED
    BY <1>1, <2>1 DEF Choose
<1>3. CASE SetGroupBrightness
  BY <1>1, <1>3 DEF SetGroupBrightness
<1>4. QED
  BY <1>2, <1>3

-----------------------------------------------------------------------------
Devices == [doing : {"nothing", "test", "mission", "unknown"}, mission : Runnable \cup {0}, leds : LedTypes]

(* What a message makes an object do. *)
LEMMA DeviceTypes ==
  ASSUME NEW d \in Devices
  PROVE  /\ \A o \in Objects : AfterTest(d, ColorMessage(o)) \in Devices
         /\ \A digit \in Commands : AfterMission(digit) \in Devices
         /\ Doing("unknown", 0, Dark) \in Devices /\ Doing("nothing", 0, Dark) \in Devices
<1>1. Dark \in LedTypes
  BY DEF Dark, LedTypes
<1>2. \A l \in LedTypes : Doing("test", 0, l) \in Devices
  BY DEF Doing, Devices
<1>3. \A m \in Runnable : Doing("mission", m, Dark) \in Devices
  BY <1>1 DEF Doing, Devices
<1>4. Doing("unknown", 0, Dark) \in Devices /\ Doing("nothing", 0, Dark) \in Devices
  BY <1>1 DEF Doing, Devices
<1>5. \A o \in Objects : AfterTest(d, ColorMessage(o)) \in Devices
  BY <1>2, ReadBack DEF AfterTest
<1>6. \A digit \in Commands : AfterMission(digit) \in Devices
  BY <1>3, <1>4 DEF AfterMission, Commands
<1>7. QED
  BY <1>4, <1>5, <1>6

(* The tables hold what the code puts in them, and rows only name rows. *)
THEOREM TypeCorrect == Spec => []TypeOK
<1>1. Init => TypeOK
  <2> SUFFICES ASSUME Init PROVE TypeOK
    OBVIOUS
  <2>2. Dark \in LedTypes
    BY DEF Dark, LedTypes
  <2>3. Doing("nothing", 0, Dark) \in Devices
    BY <2>2 DEF Doing, Devices
  <2>4. smart_object_list \in Seq(Objects)
    BY DEF Init
  <2>5. QED
    BY <2>3, <2>4 DEF Init, TypeOK, Devices, LedTypes, Runnable, Table
<1>2. TypeOK /\ [Next]_vars => TypeOK'
  <2> SUFFICES ASSUME TypeOK, [Next]_vars
               PROVE  TypeOK'
    OBVIOUS
  <2>1. /\ smart_object_list \in Seq(Objects)
        /\ actual_smart_object \in {0} \cup Rows /\ shownObject \in {0} \cup Rows
        /\ actual_smart_object_list \in {Table} \cup Seq(Rows)
        /\ windows \subseteq {"object", "many"} /\ dialogs \subseteq {"object", "many"}
        /\ device \in [Addresses -> Devices] /\ chosen \in [Addresses -> Runnable \cup {0}]
        /\ misled \subseteq Addresses
        /\ shown \in [Addresses -> {0} \cup Rows] /\ unsent \subseteq Rows
    BY DEF TypeOK, Devices, LedTypes
  <2>2. ASSUME smart_object_list' \in Seq(Objects), Rows' = Rows, UNCHANGED selectVars,
               device' \in [Addresses -> Devices], chosen' \in [Addresses -> Runnable \cup {0}],
               misled' \subseteq Addresses,
               shown' \in [Addresses -> {0} \cup Rows], unsent' \subseteq Rows
        PROVE  TypeOK'
    BY <2>1, <2>2 DEF TypeOK, Devices, LedTypes, selectVars, Table
  <2>3. ASSUME UNCHANGED <<smart_object_list, deviceVars>>,
               actual_smart_object' \in {0} \cup Rows, shownObject' \in {0} \cup Rows,
               actual_smart_object_list' \in {Table} \cup Seq(Rows),
               windows' \subseteq {"object", "many"}, dialogs' \subseteq {"object", "many"}
        PROVE  TypeOK'
    BY <2>1, <2>3 DEF TypeOK, Devices, LedTypes, deviceVars, Rows, Table
  <2>4. CASE UNCHANGED vars
    BY <2>1, <2>3, <2>4 DEF vars, selectVars
  <2>5. CASE SetColor \/ SetConfig \/ SetBrightness \/ SetGroupColor \/ SetGroupConfig
    <3>1. PICK targets \in Seq(Rows) : \E told \in 0..Len(targets) : \E rows \in [Rows -> Objects] :
             Changed(rows) /\ SendColors(targets, told, rows)
      BY <2>5, ColorSenders
    <3>2. PICK told \in 0..Len(targets), rows \in [Rows -> Objects] : Changed(rows) /\ SendColors(targets, told, rows)
      BY <3>1
    <3>3. /\ smart_object_list' \in Seq(Objects) /\ Rows' = Rows /\ UNCHANGED <<chosen, misled, selectVars>>
          /\ device' = [a \in Addresses |-> device'[a]] /\ shown' = [a \in Addresses |-> shown'[a]]
          /\ unsent' \subseteq Rows
      BY <3>1, <3>2, ColorsSent
    <3>4. \A a \in Addresses :
             \/ device'[a] = device[a] /\ shown'[a] = shown[a]
             \/ \E i \in Rows : /\ smart_object_list'[i] \in Objects /\ shown'[a] = i
                                /\ device'[a] = AfterTest(device[a], ColorMessage(smart_object_list'[i]))
      BY <3>1, <3>2, ColorsSent
    <3>5. \A a \in Addresses : device'[a] \in Devices /\ shown'[a] \in {0} \cup Rows
      BY <2>1, <3>4, DeviceTypes
    <3>6. device' \in [Addresses -> Devices] /\ shown' \in [Addresses -> {0} \cup Rows]
      BY <3>3, <3>5
    <3>7. QED
      BY <2>1, <2>2, <3>3, <3>6
  <2>6. CASE SetMission \/ SetGroupMission \/ SetGroupBrightness
    <3>1. PICK targets \in Seq(Rows) : \E told \in 0..Len(targets) : \E mission \in ThreeDigits :
             SendMission(targets, told, mission)
      BY <2>6, MissionSenders
    <3>2. PICK told \in 0..Len(targets), mission \in ThreeDigits : SendMission(targets, told, mission)
      BY <3>1
    <3>3. /\ smart_object_list' \in Seq(Objects) /\ Rows' = Rows /\ UNCHANGED <<shown, unsent, selectVars>>
          /\ device' = [a \in Addresses |-> device'[a]]
      BY <3>1, <3>2, MissionsSent
    <3>4. \A a \in Addresses :
              device'[a] = device[a] \/ \E digit \in Commands : device'[a] = AfterMission(digit)
      BY <3>1, <3>2, MissionsSent
    <3>5. \A a \in Addresses : device'[a] \in Devices
      BY <2>1, <3>4, DeviceTypes
    <3>6. device' \in [Addresses -> Devices]
      BY <3>3, <3>5
    <3>7. QED
      BY <2>1, <2>2, <2>6, <3>3, <3>6, ChosenTypes
  <2>7. CASE SendMessage \/ SendGroupMessage
    <3>1. UNCHANGED <<smart_object_list, selectVars, misled, shown, unsent>>
      BY <2>7, FreeSent
    <3>2. device' \in [Addresses -> Devices] /\ chosen' \in [Addresses -> Runnable \cup {0}]
      <4>1. Doing("unknown", 0, Dark) \in Devices
        <5>1. Dark \in LedTypes
          BY DEF Dark, LedTypes
        <5>2. QED
          BY <5>1 DEF Doing, Devices
      <4>2. \A a \in Addresses : device'[a] \in Devices /\ chosen'[a] \in Runnable \cup {0}
        BY <2>1, <2>7, <4>1, FreeSent
      <4>3. QED
        BY <2>7, <4>2, FreeSent
    <3>3. Rows' = Rows
      BY <3>1 DEF Rows
    <3>4. QED
      BY <2>1, <2>2, <3>1, <3>2, <3>3
  <2>8. CASE AddToGroup
    <3>1. PICK g \in Groups : smart_object_list' = [smart_object_list EXCEPT ![actual_smart_object].group = g]
      BY <2>8 DEF AddToGroup
    <3>2. actual_smart_object \in 1..Len(smart_object_list)
      BY <2>1, <2>8 DEF AddToGroup, Uses, Rows
    <3>3. PICK o \in Objects : o = [smart_object_list[actual_smart_object] EXCEPT !.group = g]
      <4>1. smart_object_list[actual_smart_object] \in Objects
        BY <2>1, <3>2, ElementOfSeq
      <4>2. \A r \in Objects : [r EXCEPT !.group = g] \in Objects
        BY <3>1 DEF Objects
      <4>3. QED
        BY <4>1, <4>2
    <3>4. smart_object_list' = [smart_object_list EXCEPT ![actual_smart_object] = o]
      BY <3>1, <3>3
    <3>5. smart_object_list' \in Seq(Objects) /\ Len(smart_object_list') = Len(smart_object_list)
      BY <2>1, <3>2, <3>4, ExceptSeq
    <3>6. Rows' = Rows /\ UNCHANGED <<selectVars, deviceVars>>
      BY <2>8, <3>5 DEF AddToGroup, Rows
    <3>7. QED
      BY <2>1, <2>2, <3>5, <3>6 DEF deviceVars
  <2>9. CASE CreateSmartObject
    <3>1. PICK id \in Addresses : smart_object_list' = Append(smart_object_list,
             [Id |-> id, group |-> 0, color |-> 0, Configuration |-> [k \in 1..Leds |-> 1], brightness |-> 255])
      BY <2>9 DEF CreateSmartObject
    <3>2. PICK o \in Objects : o = [Id |-> id, group |-> 0, color |-> 0, Configuration |-> [k \in 1..Leds |-> 1],
                                    brightness |-> 255]
      BY <3>1 DEF Objects, Bits
    <3>3. smart_object_list' \in Seq(Objects) /\ Len(smart_object_list') = Len(smart_object_list) + 1
      BY <2>1, <3>1, <3>2
    <3>4. Rows \subseteq Rows'
      BY <2>1, <3>3, LenProperties DEF Rows
    <3>5. \A q \in Seq(Rows) : q \in Seq(Rows')
      BY <3>4, SeqMonotonic
    <3>6. UNCHANGED <<selectVars, deviceVars>>
      BY <2>9 DEF CreateSmartObject
    <3>7. QED
      BY <2>1, <3>3, <3>4, <3>5, <3>6 DEF TypeOK, Devices, LedTypes, selectVars, deviceVars, Table
  <2>10. CASE Select
    <3>1. PICK i \in {0} \cup Rows :
             /\ actual_smart_object' = i
             /\ IF i = 0 THEN UNCHANGED <<windows, shownObject>> ELSE windows' = {"object"} /\ shownObject' = i
      BY <2>10 DEF Select, NewWindow
    <3>2. UNCHANGED <<smart_object_list, actual_smart_object_list, dialogs, deviceVars>>
      BY <2>10 DEF Select
    <3>3. QED
      BY <2>1, <2>3, <3>1, <3>2
  <2>11. CASE SelectGroup \/ SelectAll
    <3>1. /\ UNCHANGED <<smart_object_list, actual_smart_object, dialogs, deviceVars>>
          /\ windows' \subseteq {"object", "many"} /\ shownObject' = 0
      BY <2>11 DEF SelectGroup, SelectAll, SelectMany
    <3>2. CASE SelectAll
      BY <2>1, <2>3, <3>1, <3>2 DEF SelectAll, SelectMany
    <3>3. CASE SelectGroup
      <4>1. PICK g \in Groups : \E list \in InOrder({i \in Rows : smart_object_list[i].group = g}) : SelectMany(list)
        BY <3>3 DEF SelectGroup
      <4>2. PICK set \in SUBSET Rows : set = {i \in Rows : smart_object_list[i].group = g}
        OBVIOUS
      <4>3. PICK list \in InOrder(set) : actual_smart_object_list' = list
        BY <4>1, <4>2 DEF SelectMany
      <4>4. IsFiniteSet(set) /\ Cardinality(set) \in Nat
        <5>1. IsFiniteSet(Rows)
          BY RowsAre, FS_Interval
        <5>2. QED
          BY <4>2, <5>1, FS_Subset, FS_CardinalityType
      <4>5. list \in [1..Cardinality(set) -> Rows]
        BY <4>2, <4>3 DEF InOrder
      <4>6. list \in Seq(Rows)
        BY <4>4, <4>5
      <4>7. QED
        BY <2>1, <2>3, <3>1, <4>3, <4>6
    <3>4. QED
      BY <2>11, <3>2, <3>3
  <2>12. CASE OpenWindow \/ UserCloses
    <3>1. /\ UNCHANGED <<smart_object_list, actual_smart_object, actual_smart_object_list, deviceVars>>
          /\ windows' \subseteq {"object", "many"} /\ dialogs' \subseteq {"object", "many"}
          /\ shownObject' \in {0, shownObject}
      BY <2>1, <2>12 DEF OpenWindow, UserCloses
    <3>2. QED
      BY <2>1, <2>3, <3>1
  <2>13. QED
    BY <2>4, <2>5, <2>6, <2>7, <2>8, <2>9, <2>10, <2>11, <2>12 DEF Next, OneObject, ManyObjects
<1>3. QED
  BY <1>1, <1>2, PTL DEF Spec

-----------------------------------------------------------------------------
(* What an object shows is what the last row that reached it holds, if     *)
(* that row was not changed since without being sent. The row is one of    *)
(* the object's own, so that a row that is changed and sent is heard by    *)
(* the object that shows it.                                               *)
ColourInv == Spoke /\ InStep

LEMMA ColourAlways == Spec => []ColourInv
<1>1. Init => ColourInv
  BY DEF Init, ColourInv, Spoke, InStep
<1>2. TypeOK /\ TypeOK' /\ ColourInv /\ [Next]_vars => ColourInv'
  <2> SUFFICES ASSUME TypeOK, TypeOK', ColourInv, [Next]_vars
               PROVE  ColourInv'
    OBVIOUS
  <2>1. \A a \in Addresses : shown[a] \in {0} \cup Rows
    BY DEF TypeOK
  <2>2. ASSUME NEW a \in Addresses
        PROVE  /\ shown[a] # 0 => smart_object_list[shown[a]].Id = a
               /\ LET o == smart_object_list[shown[a]]
                  IN  device[a].doing = "test" /\ shown[a] # 0 /\ shown[a] \notin unsent
                        /\ o.brightness \in Hundreds => device[a].leds = Believed(o)
    BY DEF ColourInv, Spoke, InStep
  <2>3. ASSUME UNCHANGED <<device, shown, unsent>>,
               \A i \in Rows : smart_object_list'[i] = smart_object_list[i]
        PROVE  ColourInv'
    <3>1. ASSUME NEW a \in Addresses
          PROVE  shown[a] # 0 => smart_object_list'[shown[a]] = smart_object_list[shown[a]]
      BY <2>1, <2>3
    <3>2. QED
      BY <2>3, <3>1 DEF ColourInv, Spoke, InStep
  <2>4. CASE UNCHANGED vars
    BY <2>3, <2>4 DEF vars, deviceVars
  <2>5. CASE SetColor \/ SetConfig \/ SetBrightness \/ SetGroupColor \/ SetGroupConfig
    <3>1. PICK targets \in Seq(Rows) : \E told \in 0..Len(targets) : \E rows \in [Rows -> Objects] :
             Changed(rows) /\ SendColors(targets, told, rows)
      BY <2>5, ColorSenders
    <3>2. PICK told \in 0..Len(targets), rows \in [Rows -> Objects] : Changed(rows) /\ SendColors(targets, told, rows)
      BY <3>1
    <3>3. \A i \in Rows : smart_object_list'[i].Id = smart_object_list[i].Id
      BY <3>1, <3>2, ColorsSent
    <3>4. \A a \in Addresses :
              \/ /\ device'[a] = device[a] /\ shown'[a] = shown[a]
                 /\ \A i \in Rows : smart_object_list[i].Id = a /\ i \notin unsent' =>
                       i \notin unsent /\ smart_object_list'[i] = smart_object_list[i]
              \/ \E i \in Rows : /\ smart_object_list'[i] \in Objects /\ smart_object_list'[i].Id = a
                                 /\ shown'[a] = i
                                 /\ device'[a] = AfterTest(device[a], ColorMessage(smart_object_list'[i]))
      BY <3>1, <3>2, ColorsSent
    <3>5. ASSUME NEW a \in Addresses
          PROVE  /\ shown'[a] # 0 => smart_object_list'[shown'[a]].Id = a
                 /\ LET o == smart_object_list'[shown'[a]]
                    IN  device'[a].doing = "test" /\ shown'[a] # 0 /\ shown'[a] \notin unsent'
                          /\ o.brightness \in Hundreds => device'[a].leds = Believed(o)
      <4>1. CASE /\ device'[a] = device[a] /\ shown'[a] = shown[a]
                 /\ \A i \in Rows : smart_object_list[i].Id = a /\ i \notin unsent' =>
                       i \notin unsent /\ smart_object_list'[i] = smart_object_list[i]
        <5>1. CASE shown[a] = 0
          BY <4>1, <5>1
        <5>2. CASE shown[a] # 0
          <6>1. PICK i \in Rows : i = shown[a] /\ smart_object_list[i].Id = a
            BY <2>1, <2>2, <5>2
          <6>2. smart_object_list'[i].Id = a
            BY <3>3, <6>1
          <6>3. i \notin unsent' => i \notin unsent /\ smart_object_list'[i] = smart_object_list[i]
            BY <4>1, <6>1
          <6>4. QED
            BY <2>2, <4>1, <6>1, <6>2, <6>3
        <5>3. QED
          BY <5>1, <5>2
      <4>2. ASSUME NEW i \in Rows, smart_object_list'[i] \in Objects, smart_object_list'[i].Id = a,
                   shown'[a] = i, device'[a] = AfterTest(device[a], ColorMessage(smart_object_list'[i]))
            PROVE  /\ smart_object_list'[shown'[a]].Id = a
                   /\ device'[a].doing = "test" /\ smart_object_list'[i].brightness \in Hundreds =>
                         device'[a].leds = Believed(smart_object_list'[i])
        <5>1. PICK o \in Objects : o = smart_object_list'[i]
          BY <4>2
        <5>2. device'[a].doing = "test" => device'[a].leds = TestOf(ColorMessage(o))
          BY <4>2, <5>1 DEF AfterTest, Doing
        <5>3. o.brightness \in Hundreds => TestOf(ColorMessage(o)) = Believed(o)
          BY ReadBack
        <5>4. QED
          BY <4>2, <5>1, <5>2, <5>3
      <4>3. QED
        BY <3>4, <4>1, <4>2
    <3>6. QED
      BY <3>5 DEF ColourInv, Spoke, InStep
  <2>6. CASE SetMission \/ SetGroupMission \/ SetGroupBrightness
    <3>1. PICK targets \in Seq(Rows) : \E told \in 0..Len(targets) : \E mission \in ThreeDigits :
             SendMission(targets, told, mission)
      BY <2>6, MissionSenders
    <3>2. PICK told \in 0..Len(targets), mission \in ThreeDigits : SendMission(targets, told, mission)
      BY <3>1
    <3>3. UNCHANGED <<shown, unsent>> /\ \A i \in Rows : smart_object_list'[i] = smart_object_list[i]
      BY <3>1, <3>2, MissionsSent
    <3>4. \A a \in Addresses : device'[a] = device[a] \/ \E digit : device'[a] = AfterMission(digit)
      BY <3>1, <3>2, MissionsSent
    <3>5. \A a \in Addresses : device'[a] = device[a] \/ device'[a].doing # "test"
      <4>1. \A m : Doing("mission", m, Dark).doing # "test" /\ Doing("nothing", 0, Dark).doing # "test"
        BY DEF Doing
      <4>2. \A digit : AfterMission(digit).doing # "test"
        BY <4>1 DEF AfterMission
      <4>3. QED
        BY <3>4, <4>2
    <3>6. ASSUME NEW a \in Addresses, shown[a] # 0
          PROVE  smart_object_list'[shown[a]] = smart_object_list[shown[a]]
      BY <2>1, <3>3, <3>6
    <3>7. ASSUME NEW a \in Addresses
          PROVE  /\ shown'[a] # 0 => smart_object_list'[shown'[a]].Id = a
                 /\ LET o == smart_object_list'[shown'[a]]
                    IN  device'[a].doing = "test" /\ shown'[a] # 0 /\ shown'[a] \notin unsent'
                          /\ o.brightness \in Hundreds => device'[a].leds = Believed(o)
      <4>1. shown'[a] = shown[a] /\ unsent' = unsent /\ (device'[a] = device[a] \/ device'[a].doing # "test")
        BY <3>3, <3>5
      <4>2. CASE shown[a] = 0
        BY <4>1, <4>2
      <4>3. CASE shown[a] # 0
        <5>1. smart_object_list'[shown[a]] = smart_object_list[shown[a]]
          BY <3>6, <4>3
        <5>2. PICK i : i = shown[a]
          OBVIOUS
        <5>3. PICK o : o = smart_object_list[i] /\ o = smart_object_list'[i]
          BY <5>1, <5>2
        <5>4. o.Id = a /\ (device[a].doing = "test" /\ i \notin unsent /\ o.brightness \in Hundreds
                             => device[a].leds = Believed(o))
          BY <2>2, <4>3, <5>2, <5>3
        <5>5. QED
          BY <4>1, <5>2, <5>3, <5>4
      <4>4. QED
        BY <4>2, <4>3
    <3>8. QED
      BY <3>7 DEF ColourInv, Spoke, InStep
  <2>7. CASE SendMessage \/ SendGroupMessage
    <3>1. UNCHANGED <<smart_object_list, shown, unsent>>
      BY <2>7, FreeSent
    <3>2. \A a \in Addresses : device'[a] = device[a] \/ device'[a].doing # "test"
      <4>1. Doing("unknown", 0, Dark).doing # "test"
        BY DEF Doing
      <4>2. QED
        BY <2>7, <4>1, FreeSent
    <3>3. QED
      BY <3>1, <3>2 DEF ColourInv, Spoke, InStep
  <2>8. CASE AddToGroup
    <3>1. PICK g \in Groups : smart_object_list' = [smart_object_list EXCEPT ![actual_smart_object].group = g]
      BY <2>8 DEF AddToGroup
    <3>2. UNCHANGED <<device, shown, unsent>>
      BY <2>8 DEF AddToGroup, deviceVars
    <3>3. ASSUME NEW i \in Rows
          PROVE  /\ smart_object_list'[i].Id = smart_object_list[i].Id
                 /\ smart_object_list'[i].color = smart_object_list[i].color
                 /\ smart_object_list'[i].brightness = smart_object_list[i].brightness
                 /\ smart_object_list'[i].Configuration = smart_object_list[i].Configuration
      <4>1. \A o \in Objects : /\ [o EXCEPT !.group = g].Id = o.Id
                               /\ [o EXCEPT !.group = g].color = o.color
                               /\ [o EXCEPT !.group = g].brightness = o.brightness
                               /\ [o EXCEPT !.group = g].Configuration = o.Configuration
        BY DEF Objects
      <4>2. smart_object_list[i] \in Objects
        BY RowsAre
      <4>3. \/ smart_object_list'[i] = smart_object_list[i]
            \/ smart_object_list'[i] = [smart_object_list[i] EXCEPT !.group = g]
        <5>1. smart_object_list \in [Rows -> Objects]
          BY LenProperties DEF Rows, TypeOK
        <5>2. QED
          BY <3>1, <5>1
      <4>4. CASE smart_object_list'[i] = smart_object_list[i]
        BY <4>4
      <4>5. CASE smart_object_list'[i] = [smart_object_list[i] EXCEPT !.group = g]
        <5>1. \A o \in Objects :
                smart_object_list'[i] = [o EXCEPT !.group = g] => /\ smart_object_list'[i].Id = o.Id
                                                                  /\ smart_object_list'[i].color = o.color
                                                                  /\ smart_object_list'[i].brightness = o.brightness
                                                                  /\ smart_object_list'[i].Configuration = o.Configuration
          BY <4>1, Zenon
        <5>2. QED
          BY <5>1, <4>2, <4>5, Zenon
      <4>6. QED
        BY <4>3, <4>4, <4>5
    <3>4. \A i \in Rows : Believed(smart_object_list'[i]) = Believed(smart_object_list[i])
      BY <3>3, BelievedSame, Zenon
    <3>5. ASSUME NEW a \in Addresses, shown[a] # 0
          PROVE  /\ smart_object_list'[shown[a]].Id = smart_object_list[shown[a]].Id
                 /\ smart_object_list'[shown[a]].brightness = smart_object_list[shown[a]].brightness
                 /\ Believed(smart_object_list'[shown[a]]) = Believed(smart_object_list[shown[a]])
      BY <2>1, <3>3, <3>4, <3>5
    <3>6. QED
      BY <3>2, <3>5 DEF ColourInv, Spoke, InStep
  <2>9. CASE CreateSmartObject
    <3>1. PICK o : smart_object_list' = Append(smart_object_list, o)
      BY <2>9 DEF CreateSmartObject
    <3>2. \A i \in Rows : smart_object_list'[i] = smart_object_list[i]
      BY <3>1, LenProperties DEF Rows, TypeOK
    <3>3. QED
      BY <2>3, <2>9, <3>2 DEF CreateSmartObject, deviceVars
  <2>10. CASE Select \/ SelectGroup \/ SelectAll \/ OpenWindow \/ UserCloses
    <3>1. UNCHANGED <<smart_object_list, device, shown, unsent>>
      BY <2>10 DEF Select, SelectGroup, SelectAll, SelectMany, OpenWindow, UserCloses, deviceVars
    <3>2. QED
      BY <2>3, <3>1
  <2>11. QED
    BY <2>4, <2>5, <2>6, <2>7, <2>8, <2>9, <2>10 DEF Next, OneObject, ManyObjects
<1>3. QED
  BY <1>1, <1>2, TypeCorrect, PTL DEF Spec

(* An object that runs no mission, and cannot run one, has set the LEDs    *)
(* that the row holds which reached it last, in its colour, whatever was   *)
(* changed, sent or lost before, when the brightness has three digits.     *)
THEOREM InStepHolds == Spec => []InStep
<1>1. ColourInv => InStep
  BY DEF ColourInv
<1>2. QED
  BY <1>1, ColourAlways, PTL

-----------------------------------------------------------------------------
(* A mission whose number does not depend on the colour begins with it. *)
LEMMA FirstDigit ==
  ASSUME NEW i, NEW mission \in {2, 3, 8}
  PROVE  Digit(i, mission) = mission
<1>1. Decimal(mission) = <<mission>> /\ mission \in Nat
  BY DEF Decimal
<1>2. Zeros(11) \in Seq(Nat)
  BY DEF Zeros
<1>3. (<<mission>> \o Zeros(11))[1] = mission
  BY <1>1, <1>2
<1>4. MissionMessage(smart_object_list[i], mission) = Decimal(mission) \o Zeros(11)
  BY DEF MissionMessage
<1>5. QED
  BY <1>1, <1>3, <1>4 DEF Digit

(* A mission chosen for some rows: an object they reached runs it, unless  *)
(* the message of mission 1 named another, and the others are left alone.  *)
LEMMA ChosenRuns ==
  ASSUME TypeOK, NEW targets \in Seq(Rows), NEW told \in 0..Len(targets), NEW mission \in ThreeDigits,
         SendMission(targets, told, mission), Choose(targets, told, mission),
         NEW a \in Addresses, a \notin misled', chosen'[a] # 0
  PROVE  \/ a \notin misled /\ device'[a] = device[a] /\ chosen'[a] = chosen[a]
         \/ device'[a] = Doing("mission", chosen'[a], Dark)
<1>1. PICK heard : /\ heard = {b \in Addresses : Senders(targets, told, b) # {}}
                   /\ a \in heard <=> Senders(targets, told, a) # {}
  OBVIOUS
<1>2. /\ chosen' = [b \in Addresses |-> IF b \notin heard THEN chosen[b]
                                        ELSE IF mission \in Runnable THEN mission ELSE 0]
      /\ a \notin heard => a \notin misled
      /\ a \in heard /\ mission = 1 => \E i \in Acting(targets, told, mission, a) :
                    i = Max(Acting(targets, told, mission, a)) /\ Digit(i, mission) = mission
  BY <1>1 DEF Choose
<1>3. CASE a \notin heard
  <2>1. Acting(targets, told, mission, a) = {}
    BY <1>1, <1>3 DEF Acting
  <2>2. device'[a] = device[a]
    BY <2>1, MissionsSent
  <2>3. QED
    BY <1>2, <1>3, <2>2
<1>4. CASE a \in heard
  <2>1. mission \in Runnable /\ chosen'[a] = mission
    BY <1>2, <1>4
  <2>2. ASSUME NEW i \in Acting(targets, told, mission, a), i = Max(Acting(targets, told, mission, a)),
               Digit(i, mission) = mission
        PROVE  device'[a] = Doing("mission", chosen'[a], Dark)
    <3>1. device'[a] = AfterMission(Digit(i, mission))
      BY <2>2, MissionsSent
    <3>2. mission # 9
      BY <2>1 DEF Runnable
    <3>3. QED
      BY <2>1, <2>2, <3>1, <3>2 DEF AfterMission
  <2>3. CASE mission = 1
    BY <1>2, <1>4, <2>2, <2>3
  <2>4. CASE mission # 1
    <3>1. mission \in {2, 3, 8}
      BY <2>1, <2>4 DEF Runnable
    <3>2. \A i : Digit(i, mission) = mission
      BY <3>1, FirstDigit
    <3>3. mission \in Commands
      BY <2>1 DEF Commands
    <3>4. Acting(targets, told, mission, a) # {}
      BY <1>1, <1>4, <3>2, <3>3 DEF Acting
    <3>5. QED
      BY <2>2, <3>2, <3>4, MissionsSent
  <2>5. QED
    BY <2>3, <2>4
<1>5. QED
  BY <1>3, <1>4

(* An object runs the mission that was last chosen for it: a test leaves a *)
(* running mission alone, the digit of another mission comes only in the   *)
(* message of mission 1 or as the brightness of a group, and only a        *)
(* mission or a message of the user's changes what is chosen.              *)
THEOREM RunsChosenHolds == Spec => []RunsChosen
<1>1. Init => RunsChosen
  BY DEF Init, RunsChosen, RunsFor
<1>2. TypeOK /\ RunsChosen /\ [Next]_vars => RunsChosen'
  <2> SUFFICES ASSUME TypeOK, RunsChosen, [Next]_vars
               PROVE  RunsChosen'
    OBVIOUS
  <2>1. \A a \in Addresses \ misled :
           chosen[a] # 0 => device[a].doing = "mission" /\ device[a].mission = chosen[a]
    BY DEF RunsChosen, RunsFor
  <2>2. CASE UNCHANGED <<device, chosen, misled>>
    BY <2>2 DEF RunsChosen, RunsFor
  <2>3. CASE SetColor \/ SetConfig \/ SetBrightness \/ SetGroupColor \/ SetGroupConfig
    <3>1. PICK targets \in Seq(Rows) : \E told \in 0..Len(targets) : \E rows \in [Rows -> Objects] :
             Changed(rows) /\ SendColors(targets, told, rows)
      BY <2>3, ColorSenders
    <3>2. PICK told \in 0..Len(targets), rows \in [Rows -> Objects] : Changed(rows) /\ SendColors(targets, told, rows)
      BY <3>1
    <3>3. /\ chosen' = chosen /\ misled' = misled
          /\ \A a \in Addresses : device'[a] = device[a] \/ \E digits : device'[a] = AfterTest(device[a], digits)
      BY <3>1, <3>2, ColorsSent
    <3>4. \A a \in Addresses : device[a].doing = "mission" => device'[a] = device[a]
      BY <3>3 DEF AfterTest
    <3>5. QED
      BY <2>1, <3>3, <3>4 DEF RunsChosen, RunsFor
  <2>4. CASE SetMission \/ SetGroupMission
    <3>1. PICK targets \in Seq(Rows) : \E told \in 0..Len(targets) : \E mission \in ThreeDigits :
             SendMission(targets, told, mission) /\ Choose(targets, told, mission)
      BY <2>4, MissionChoosers
    <3>2. PICK told \in 0..Len(targets), mission \in ThreeDigits :
             SendMission(targets, told, mission) /\ Choose(targets, told, mission)
      BY <3>1
    <3>3. ASSUME NEW a \in Addresses, a \notin misled', chosen'[a] # 0
          PROVE  device'[a].doing = "mission" /\ device'[a].mission = chosen'[a]
      <4>1. \/ a \notin misled /\ device'[a] = device[a] /\ chosen'[a] = chosen[a]
            \/ device'[a] = Doing("mission", chosen'[a], Dark)
        BY <3>1, <3>2, <3>3, ChosenRuns
      <4>2. QED
        BY <2>1, <3>3, <4>1 DEF Doing
    <3>4. QED
      BY <3>3 DEF RunsChosen, RunsFor
  <2>5. CASE SetGroupBrightness
    <3>1. PICK brightness \in Brightnesses, told \in 0..Len(Members) :
             /\ SendMission(Members, told, brightness) /\ chosen' = chosen
             /\ misled' = misled \cup {a \in Addresses : Acting(Members, told, brightness, a) # {}}
      BY <2>5 DEF SetGroupBrightness
    <3>2. ASSUME NEW a \in Addresses, a \notin misled'
          PROVE  a \notin misled /\ device'[a] = device[a]
      <4>1. a \notin misled /\ Acting(Members, told, brightness, a) = {}
        BY <3>1, <3>2
      <4>2. QED
        BY <3>1, <4>1, MembersAre, MissionsSent
    <3>3. QED
      BY <2>1, <3>1, <3>2 DEF RunsChosen, RunsFor
  <2>6. CASE SendMessage \/ SendGroupMessage
    <3>1. /\ misled' = misled
          /\ \A a \in Addresses : (device'[a] = device[a] /\ chosen'[a] = chosen[a]) \/ chosen'[a] = 0
      BY <2>6, FreeSent
    <3>2. QED
      BY <2>1, <3>1 DEF RunsChosen, RunsFor
  <2>7. CASE AddToGroup \/ CreateSmartObject \/ Select \/ SelectGroup \/ SelectAll \/ OpenWindow \/ UserCloses
             \/ UNCHANGED vars
    BY <2>2, <2>7 DEF AddToGroup, CreateSmartObject, Select, SelectGroup, SelectAll, SelectMany, OpenWindow,
                      UserCloses, vars, deviceVars
  <2>8. QED
    BY <2>3, <2>4, <2>5, <2>6, <2>7 DEF Next, OneObject, ManyObjects
<1>3. QED
  BY <1>1, <1>2, TypeCorrect, PTL DEF Spec

(* The window of an object shows the one the handlers act on: selecting    *)
(* another row opens another window, and selecting none or a group leaves  *)
(* no handler that acts on a row which no window shows.                    *)
THEOREM ActsOnShownHolds == Spec => []ActsOnShown
<1>1. Init => ActsOnShown
  BY DEF Init, ActsOnShown
<1>2. TypeOK /\ ActsOnShown /\ [Next]_vars => ActsOnShown'
  <2> SUFFICES ASSUME TypeOK, ActsOnShown, [Next]_vars
               PROVE  ActsOnShown'
    OBVIOUS
  <2>1. CASE UNCHANGED <<windows, actual_smart_object, shownObject>>
    BY <2>1 DEF ActsOnShown
  <2>2. CASE SetColor \/ SetConfig \/ SetBrightness \/ SetGroupColor \/ SetGroupConfig
    <3>1. UNCHANGED selectVars
      <4>1. PICK targets \in Seq(Rows) : \E told \in 0..Len(targets) : \E rows \in [Rows -> Objects] :
               Changed(rows) /\ SendColors(targets, told, rows)
        BY <2>2, ColorSenders
      <4>2. QED
        BY <4>1 DEF SendColors, Send
    <3>2. QED
      BY <2>1, <3>1 DEF selectVars
  <2>3. CASE SetMission \/ SetGroupMission \/ SetGroupBrightness
    <3>1. UNCHANGED selectVars
      <4>1. PICK targets \in Seq(Rows) : \E told \in 0..Len(targets) : \E mission \in ThreeDigits :
               SendMission(targets, told, mission)
        BY <2>3, MissionSenders
      <4>2. QED
        BY <4>1 DEF SendMission, Send
    <3>2. QED
      BY <2>1, <3>1 DEF selectVars
  <2>4. CASE SendMessage \/ SendGroupMessage \/ AddToGroup \/ CreateSmartObject \/ OpenWindow \/ UNCHANGED vars
    BY <2>1, <2>4 DEF SendMessage, SendGroupMessage, SendFree, AddToGroup, CreateSmartObject, OpenWindow, vars, selectVars
  <2>5. CASE Select
    <3>1. PICK i : /\ actual_smart_object' = i
                   /\ IF i = 0 THEN UNCHANGED <<windows, shownObject>>
                               ELSE windows' = {"object"} /\ shownObject' = i
      BY <2>5 DEF Select, NewWindow
    <3>2. actual_smart_object' # 0 => shownObject' = actual_smart_object'
      BY <3>1
    <3>3. QED
      BY <3>2 DEF ActsOnShown
  <2>6. CASE SelectGroup \/ SelectAll
    <3>1. windows' \subseteq {"many"}
      BY <2>6 DEF SelectGroup, SelectAll, SelectMany
    <3>2. "object" \notin windows'
      BY <3>1
    <3>3. QED
      BY <3>2 DEF ActsOnShown
  <2>7. CASE UserCloses
    <3>1. PICK w \in windows : windows' = windows \ {w} /\ shownObject' = IF w = "object" THEN 0 ELSE shownObject
      BY <2>7 DEF UserCloses
    <3>2. "object" \in windows' => "object" \in windows /\ shownObject' = shownObject
      BY <3>1
    <3>3. QED
      BY <2>7, <3>2 DEF UserCloses, ActsOnShown
  <2>8. QED
    BY <2>2, <2>3, <2>4, <2>5, <2>6, <2>7 DEF Next, OneObject, ManyObjects
<1>3. QED
  BY <1>1, <1>2, TypeCorrect, PTL DEF Spec

-----------------------------------------------------------------------------
(* A group is selected in the order of the table, so no row is in it twice. *)
LEMMA DistinctAlways == Spec => []Distinct
<1> DEFINE Ordered == \/ actual_smart_object_list = Table
                      \/ \A j, k \in DOMAIN actual_smart_object_list :
                            j # k => actual_smart_object_list[j] # actual_smart_object_list[k]
<1>1. Init => Ordered
  BY DEF Init
<1>2. TypeOK /\ Ordered /\ [Next]_vars => Ordered'
  <2> SUFFICES ASSUME TypeOK, Ordered, [Next]_vars
               PROVE  Ordered'
    OBVIOUS
  <2>1. CASE UNCHANGED actual_smart_object_list
    BY <2>1 DEF Table
  <2> HIDE DEF Ordered
  <2>2. CASE SetColor \/ SetConfig \/ SetBrightness \/ SetGroupColor \/ SetGroupConfig
    <3>1. PICK targets \in Seq(Rows) : \E told \in 0..Len(targets) : \E rows \in [Rows -> Objects] :
             Changed(rows) /\ SendColors(targets, told, rows)
      BY <2>2, ColorSenders
    <3>2. QED
      BY <2>1, <3>1 DEF SendColors, Send, selectVars
  <2>3. CASE SetMission \/ SetGroupMission \/ SetGroupBrightness
    <3>1. PICK targets \in Seq(Rows) : \E told \in 0..Len(targets) : \E mission \in ThreeDigits :
             SendMission(targets, told, mission)
      BY <2>3, MissionSenders
    <3>2. QED
      BY <2>1, <3>1 DEF SendMission, Send, selectVars
  <2>4. CASE SendMessage \/ SendGroupMessage \/ AddToGroup \/ CreateSmartObject \/ Select \/ OpenWindow \/ UserCloses \/ UNCHANGED vars
    BY <2>1, <2>4 DEF SendMessage, SendGroupMessage, SendFree, AddToGroup, CreateSmartObject, Select, OpenWindow, UserCloses, vars, selectVars
  <2>5. CASE SelectAll
    BY <2>5 DEF SelectAll, SelectMany, Ordered, Table
  <2>6. CASE SelectGroup
    <3>1. PICK g \in Groups : \E list \in InOrder({i \in Rows : smart_object_list[i].group = g}) : SelectMany(list)
      BY <2>6 DEF SelectGroup
    <3>2. PICK set \in SUBSET Rows : set = {i \in Rows : smart_object_list[i].group = g}
      OBVIOUS
    <3>3. PICK list \in InOrder(set) : actual_smart_object_list' = list
      BY <3>1, <3>2 DEF SelectMany
    <3>4. PICK n : n = Cardinality(set)
      OBVIOUS
    <3>5. n \in Nat
      <4>1. IsFiniteSet(Rows)
        BY RowsAre, FS_Interval
      <4>2. QED
        BY <3>2, <3>4, <4>1, FS_Subset, FS_CardinalityType
    <3>6. list \in [1..n -> Nat] /\ \A j, k \in 1..n : j < k => list[j] < list[k]
      BY <3>2, <3>3, <3>4, RowsAre DEF InOrder
    <3>7. \A j, k \in 1..n : j # k => list[j] # list[k]
      <4>1. \A j, k \in 1..n : j # k => j < k \/ k < j
        BY <3>5
      <4>2. \A x, y \in Nat : x < y => x # y
        OBVIOUS
      <4>3. \A j \in 1..n : list[j] \in Nat
        BY <3>6
      <4>4. QED
        BY <3>6, <4>1, <4>2, <4>3, Zenon
    <3>8. DOMAIN list = 1..n
      BY <3>6
    <3>9. QED
      BY <3>3, <3>7, <3>8 DEF Ordered
  <2>7. QED
    BY <2>2, <2>3, <2>4, <2>5, <2>6 DEF Next, OneObject, ManyObjects
<1>3. Ordered => Distinct
  BY DEF Distinct, Members
<1>4. QED
  <2> HIDE DEF Ordered
  <2>1. QED
    BY <1>1, <1>2, <1>3, TypeCorrect, PTL DEF Spec

(* A change of the configuration of a group that reaches all its objects   *)
(* leaves them all with the same one: all rows are sent the configuration  *)
(* of the first, and a row that was not reached is left unsent.            *)
THEOREM GroupAlikeHolds == Spec => GroupAlike
<1> DEFINE Alike == (\E i \in Rows : Reconfigured(i)) /\ SetGroupConfig
                       /\ (\A j \in 1..Len(Members) : Members[j] \notin unsent') =>
                     \A j, k \in 1..Len(Members) :
                       smart_object_list'[Members[j]].Configuration = smart_object_list'[Members[k]].Configuration
<1>1. TypeOK /\ Distinct => Alike
  <2> SUFFICES ASSUME TypeOK, Distinct, SetGroupConfig, \A j \in 1..Len(Members) : Members[j] \notin unsent'
               PROVE  \A j, k \in 1..Len(Members) :
                         smart_object_list'[Members[j]].Configuration = smart_object_list'[Members[k]].Configuration
    OBVIOUS
  <2>1. PICK config \in 1..Leds, told \in 0..Len(Members) :
           Members # <<>> /\ SendColors(Members, told, WithConfiguration(ForGroup(config)))
    BY DEF SetGroupConfig
  <2>2. PICK n \in Nat : n = Len(Members) /\ DOMAIN Members = 1..n /\ \A j \in 1..n : Members[j] \in Rows
    BY MembersAre, LenProperties, ElementOfSeq
  <2>3. PICK c \in [1..Leds -> Bits] : c = changeConfig(config, smart_object_list[Members[1]].Configuration)
    <3>1. smart_object_list[Members[1]].Configuration \in [1..Leds -> Bits]
      BY <2>1, MembersAre, RowsAre, RowOf
    <3>2. \A d \in [1..Leds -> Bits] : changeConfig(config, d) \in [1..Leds -> Bits]
      BY DEF changeConfig, Bits
    <3>3. QED
      BY <3>1, <3>2
  <2>4. Changed(WithConfiguration(ForGroup(config)))
    BY <2>1, ChangedRows, ConfigurationsAre
  <2>5. \A i \in Rows : WithConfiguration(ForGroup(config))[i].Configuration = c
    <3>1. \A o \in Objects : [o EXCEPT !.Configuration = c].Configuration = c
      BY DEF Objects
    <3>2. \A i \in Rows : WithConfiguration(ForGroup(config))[i] = [smart_object_list[i] EXCEPT !.Configuration = c]
      BY <2>3 DEF WithConfiguration, ForGroup
    <3>3. QED
      BY <3>1, <3>2, RowsAre
  <2>6. told = n
    <3>1. told \in Nat /\ told <= n
      BY <2>1, <2>2
    <3>2. ASSUME told < n
          PROVE  FALSE
      <4>1. PICK next \in 1..n : next = told + 1 /\ next \notin 1..told /\ 1..told \subseteq 1..n
        BY <3>1, <3>2
      <4>2. Members[next] \notin Reached(Members, told)
        <5>1. \A j \in 1..told : Members[j] # Members[next]
          BY <2>2, <4>1 DEF Distinct
        <5>2. QED
          BY <5>1 DEF Reached
      <4>3. Min({told + 1, Len(Members)}) = next
        <5>1. \A z \in {next, n} : (\A y \in {next, n} : z =< y) <=> z = next
          BY <2>2, <4>1
        <5>2. Min({next, n}) = next
          BY <5>1 DEF Min
        <5>3. QED
          BY <2>2, <4>1, <5>2
      <4>4. Members[next] \in Touched(Members, told)
        <5>1. next \in 1..next
          BY <4>1
        <5>2. QED
          BY <4>3, <5>1 DEF Touched, Reached
      <4>5. Members[next] \in unsent'
        BY <2>1, <4>2, <4>4 DEF SendColors
      <4>6. QED
        BY <2>2, <4>1, <4>5
    <3>3. QED
      BY <2>2, <3>1, <3>2
  <2>7. ASSUME NEW j \in 1..Len(Members)
        PROVE  smart_object_list'[Members[j]].Configuration = c
    <3>1. j \in 1..told
      BY <2>2, <2>6, <2>7
    <3>2. Members[j] \in Reached(Members, told)
      BY <3>1 DEF Reached
    <3>3. Members[j] \in Touched(Members, told) /\ Members[j] \in Rows
      BY <2>1, <3>2, MembersAre, Targets
    <3>4. Send(Members, told, WithConfiguration(ForGroup(config)))
      BY <2>1 DEF SendColors
    <3>5. smart_object_list'[Members[j]] = WithConfiguration(ForGroup(config))[Members[j]]
      BY <2>1, <2>4, <3>3, <3>4, MembersAre, Sent
    <3>6. QED
      BY <2>5, <3>3, <3>5
  <2>8. QED
    BY <2>7
<1>2. QED
  <2> HIDE DEF Alike
  <2>1. GroupAlike <=> [][Alike]_vars
    BY DEF GroupAlike, Alike
  <2>2. QED
    BY <1>1, <2>1, TypeCorrect, DistinctAlways, PTL DEF Spec
=============================================================================
