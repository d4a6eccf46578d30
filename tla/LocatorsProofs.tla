--------------------------- MODULE LocatorsProofs ---------------------------
(***************************************************************************)
(* The list of men that getPawnState makes of a board, and what            *)
(* verifyGameState accepts for it, for a board of any size.                *)
(***************************************************************************)
EXTENDS Locators, RulesProofs, Induction, FiniteSetTheorems

USE SideAssumption

(* A locator says where a man stands, so that no two men have the same.    *)
LEMMA LocatorsRead ==
  ASSUME NEW b, NEW s \in Squares
  PROVE  LocatorToSquare(LocatorAt(b, s)) = s
<1>1. FileOf(s) \in Lane /\ RankOf(s) \in Lane /\ At(FileOf(s), RankOf(s)) = s
  BY Coordinates
<1>2. CodeA \in Int /\ Code1 \in Int
  BY DEF CodeA, Code1
<1>3. LocatorAt(b, s).file = CodeA + FileOf(s) /\ LocatorAt(b, s).rank = Code1 + RankOf(s)
  BY DEF LocatorAt, Locator
<1>4. LocatorAt(b, s).file - CodeA = FileOf(s) /\ LocatorAt(b, s).rank - Code1 = RankOf(s)
  BY <1>1, <1>2, <1>3 DEF Lane
<1> QED BY <1>1, <1>4 DEF LocatorToSquare, OnBoard, Lane

LEMMA LastSquare == Side * Side \in Nat /\ Squares = 0..(Side * Side - 1)
  BY DEF Squares

\* What the loop adds for square n - 1.
Added(b, n) == IF IsEmpty(b, n - 1) THEN <<>> ELSE <<LocatorAt(b, n - 1)>>

LEMMA PawnsListedStep ==
  ASSUME NEW b
  PROVE  /\ PawnsListed(b)[0] = <<>>
         /\ \A n \in 1..(Side * Side) :
              PawnsListed(b)[n] = PawnsListed(b)[n - 1] \o Added(b, n)
<1> DEFINE size == Side * Side
           next(f, n) == IF n = 0 THEN <<>> ELSE f[n - 1] \o Added(b, n)
           upTo(f, n) == f = [m \in 0..n |-> next(f, m)]
           T == {n \in Nat : \E f : upTo(f, n)}
<1>1. 0 \in T
  <2>1. upTo([m \in 0..0 |-> <<>>], 0)
    OBVIOUS
  <2> QED BY <2>1
<1>2. ASSUME NEW n \in Nat, n \in T
      PROVE  n + 1 \in T
  <2>1. PICK f : upTo(f, n)
    BY <1>2
  <2> DEFINE at(m) == IF m = n + 1 THEN f[n] \o Added(b, n + 1) ELSE f[m]
             g     == [m \in 0..(n + 1) |-> at(m)]
  <2>2. n + 1 \in 0..(n + 1) /\ \A m \in 0..n : m \in 0..(n + 1) /\ m # n + 1
    OBVIOUS
  <2>3. /\ at(n + 1) = f[n] \o Added(b, n + 1)
        /\ \A m \in 0..n : at(m) = f[m]
    BY <2>2
  <2> HIDE DEF at
  <2>4. /\ g = [m \in 0..(n + 1) |-> at(m)]
        /\ \A m \in 0..(n + 1) : g[m] = at(m)
        /\ g[n + 1] = f[n] \o Added(b, n + 1)
        /\ \A m \in 0..n : g[m] = f[m]
    BY <2>2, <2>3
  <2>5. \A m \in 0..n : f[m] = next(f, m)
    BY <2>1
  <2> HIDE DEF g
  <2>6. ASSUME NEW m \in 0..(n + 1)
        PROVE  g[m] = next(g, m)
    <3>1. CASE m = n + 1
      <4>1. m # 0 /\ m - 1 = n /\ n \in 0..n
        BY <3>1
      <4> QED BY <2>4, <3>1, <4>1
    <3>2. CASE m = 0
      <4>1. 0 \in 0..n
        OBVIOUS
      <4> QED BY <2>4, <2>5, <3>2, <4>1
    <3>3. CASE m \in 1..n
      <4>1. m # 0 /\ m \in 0..n /\ m - 1 \in 0..n
        BY <3>3
      <4> QED BY <2>4, <2>5, <4>1
    <3> QED BY <3>1, <3>2, <3>3
  <2> HIDE DEF next
  <2>7. upTo(g, n + 1)
    BY <2>4, <2>6
  <2> QED BY <2>7
<1> HIDE DEF T
<1>3. size \in T
  BY <1>1, <1>2, InductionOnSet, LastSquare
<1>4. \E f : upTo(f, size)
  BY <1>3 DEF T
<1>5. PawnsListed(b) = CHOOSE f : upTo(f, size)
  BY DEF PawnsListed, Added
<1>6. upTo(PawnsListed(b), size)
  BY <1>4, <1>5
<1> HIDE DEF size
<1>7. size \in Nat
  BY LastSquare DEF size
<1>8. \A n \in 0..size : PawnsListed(b)[n] = next(PawnsListed(b), n)
  BY <1>6
<1>9. 0 \in 0..size /\ \A n \in 1..size : n \in 0..size /\ n # 0
  BY <1>7
<1> QED BY <1>7, <1>8, <1>9 DEF size

(* A list that has the men on the first n squares, each once.              *)
Lists(list, b, n) ==
  /\ list \in Seq({LocatorAt(b, s) : s \in Squares})
  /\ \A i \in 1..Len(list) : \E s \in 0..(n - 1) : ~IsEmpty(b, s) /\ list[i] = LocatorAt(b, s)
  /\ \A s \in 0..(n - 1) : ~IsEmpty(b, s) => \E i \in 1..Len(list) : list[i] = LocatorAt(b, s)
  /\ \A i, j \in 1..Len(list) : list[i] = list[j] => i = j

LEMMA ListsMore ==
  ASSUME NEW b, NEW n \in Nat, n < Side * Side, NEW list, Lists(list, b, n)
  PROVE  Lists(list \o Added(b, n + 1), b, n + 1)
<1>1. n \in Squares /\ 0..n \subseteq Squares /\ (n + 1) - 1 = n
  BY LastSquare
<1>2. /\ list \in Seq({LocatorAt(b, s) : s \in Squares})
      /\ Len(list) \in Nat
      /\ \A i \in 1..Len(list) : \E s \in 0..(n - 1) : ~IsEmpty(b, s) /\ list[i] = LocatorAt(b, s)
      /\ \A s \in 0..(n - 1) : ~IsEmpty(b, s) => \E i \in 1..Len(list) : list[i] = LocatorAt(b, s)
      /\ \A i, j \in 1..Len(list) : list[i] = list[j] => i = j
  BY DEF Lists
<1>3. \A s \in 0..n : s = n \/ s \in 0..(n - 1)
  OBVIOUS
<1>4. \A s \in 0..(n - 1) : s \in 0..n /\ s # n
  OBVIOUS
<1>5. CASE IsEmpty(b, n)
  <2>1. list \o Added(b, n + 1) = list
    BY <1>1, <1>5 DEF Added, Lists
  <2>2. \A s \in 0..n : ~IsEmpty(b, s) => s \in 0..(n - 1)
    BY <1>5, <1>3
  <2>3. Lists(list, b, n + 1)
    BY <1>1, <1>2, <1>4, <2>2 DEF Lists
  <2> QED BY <2>1, <2>3
<1>6. CASE ~IsEmpty(b, n)
  <2> DEFINE new  == LocatorAt(b, n)
             more == list \o <<new>>
  <2>1. list \o Added(b, n + 1) = more
    BY <1>1, <1>6 DEF Added
  <2>2. /\ more \in Seq({LocatorAt(b, s) : s \in Squares})
        /\ Len(more) = Len(list) + 1 /\ Len(list) \in Nat
        /\ \A i \in 1..Len(list) : more[i] = list[i]
        /\ more[Len(list) + 1] = new
    BY <1>1 DEF Lists
  <2>3. \A i \in 1..Len(list) : list[i] # new
    BY <1>1, LocatorsRead DEF Lists
  <2> HIDE DEF new, more
  <2>4. ASSUME NEW i \in 1..Len(more)
        PROVE  \E s \in 0..n : ~IsEmpty(b, s) /\ more[i] = LocatorAt(b, s)
    <3>1. CASE i = Len(list) + 1
      BY <1>6, <2>2, <3>1 DEF new
    <3>2. CASE i \in 1..Len(list)
      BY <1>2, <1>4, <2>2, <3>2
    <3> QED BY <2>2, <3>1, <3>2
  <2>5. ASSUME NEW s \in 0..n, ~IsEmpty(b, s)
        PROVE  \E i \in 1..Len(more) : more[i] = LocatorAt(b, s)
    <3>1. CASE s = n
      BY <2>2, <3>1 DEF new
    <3>2. CASE s \in 0..(n - 1)
      <4>1. PICK i \in 1..Len(list) : list[i] = LocatorAt(b, s)
        BY <2>5, <3>2 DEF Lists
      <4> QED BY <2>2, <4>1
    <3> QED BY <3>1, <3>2
  <2>6. ASSUME NEW i \in 1..Len(more), NEW j \in 1..Len(more), more[i] = more[j]
        PROVE  i = j
    <3>1. /\ i = Len(list) + 1 \/ i \in 1..Len(list)
          /\ j = Len(list) + 1 \/ j \in 1..Len(list)
      BY <2>2
    <3> QED BY <1>2, <2>2, <2>3, <2>6, <3>1
  <2>7. Lists(more, b, n + 1)
    BY <1>1, <2>2, <2>4, <2>5, <2>6 DEF Lists
  <2> QED BY <2>1, <2>7
<1> QED BY <1>5, <1>6

(* getPawnState lists every man of the board, and each of them once.       *)
LEMMA PawnStateLists ==
  ASSUME NEW b
  PROVE  Lists(PawnState(b), b, Side * Side)
<1> DEFINE size == Side * Side
           T == {n \in Nat : n <= size => Lists(PawnsListed(b)[n], b, n)}
<1>1. size \in Nat
  BY LastSquare
<1>2. 0 \in T
  <2>1. PawnsListed(b)[0] = <<>>
    BY PawnsListedStep
  <2>2. \A set : <<>> \in Seq(set) /\ Len(<<>>) = 0 /\ 0..(0 - 1) = {} /\ 1..0 = {}
    OBVIOUS
  <2> QED BY <2>1, <2>2 DEF Lists
<1>3. ASSUME NEW n \in Nat, n \in T
      PROVE  n + 1 \in T
  <2> SUFFICES ASSUME n + 1 <= size
               PROVE  Lists(PawnsListed(b)[n + 1], b, n + 1)
    OBVIOUS
  <2> HIDE DEF size
  <2>1. n < size /\ n + 1 \in 1..size /\ (n + 1) - 1 = n
    BY <1>1
  <2>2. Lists(PawnsListed(b)[n], b, n)
    BY <1>1, <1>3, <2>1
  <2>3. PawnsListed(b)[n + 1] = PawnsListed(b)[n] \o Added(b, n + 1)
    BY <2>1, PawnsListedStep DEF size
  <2> QED BY <2>1, <2>2, <2>3, ListsMore DEF size
<1> HIDE DEF T
<1>4. size \in T
  BY <1>1, <1>2, <1>3, InductionOnSet
<1> QED BY <1>1, <1>4 DEF T, PawnState

-----------------------------------------------------------------------------
(* What verifyGameState compares: how often each locator is named.         *)
Named(list) == {list[i] : i \in DOMAIN list}
Distinct(list) == \A i, j \in DOMAIN list : list[i] = list[j] => i = j

LEMMA NamedOnce ==
  ASSUME NEW list, Distinct(list)
  PROVE  Occurrences(list) = [l \in Named(list) |-> 1]
<1>1. ASSUME NEW l \in Named(list)
      PROVE  Cardinality({i \in DOMAIN list : list[i] = l}) = 1
  <2>1. PICK i \in DOMAIN list : list[i] = l
    BY DEF Named
  <2>2. {j \in DOMAIN list : list[j] = l} = {i}
    BY <2>1 DEF Distinct
  <2> QED BY <2>2, FS_Singleton
<1> QED BY <1>1 DEF Occurrences, Named

LEMMA PawnStateNames ==
  ASSUME NEW b
  PROVE  /\ DOMAIN PawnState(b) = 1..Len(PawnState(b)) /\ Len(PawnState(b)) \in Nat
         /\ PawnState(b) \in Seq({LocatorAt(b, s) : s \in Squares})
         /\ Distinct(PawnState(b))
         /\ \A l : l \in Named(PawnState(b)) <=>
                \E s \in Squares : ~IsEmpty(b, s) /\ l = LocatorAt(b, s)
<1> DEFINE list == PawnState(b)
<1>1. Lists(list, b, Side * Side)
  BY PawnStateLists
<1> HIDE DEF list
<1>2. DOMAIN list = 1..Len(list) /\ Len(list) \in Nat
  BY <1>1 DEF Lists
<1>3. Distinct(list)
  BY <1>1, <1>2 DEF Lists, Distinct
<1>4. \A l : l \in Named(list) <=> \E s \in Squares : ~IsEmpty(b, s) /\ l = LocatorAt(b, s)
  <2>1. 0..(Side * Side - 1) = Squares
    BY DEF Squares
  <2>2. \A i \in 1..Len(list) : \E s \in Squares : ~IsEmpty(b, s) /\ list[i] = LocatorAt(b, s)
    BY <1>1, <2>1 DEF Lists
  <2>3. \A s \in Squares : ~IsEmpty(b, s) => \E i \in 1..Len(list) : list[i] = LocatorAt(b, s)
    BY <1>1, <2>1 DEF Lists
  <2> QED BY <1>2, <2>2, <2>3 DEF Named
<1>5. list \in Seq({LocatorAt(b, s) : s \in Squares})
  BY <1>1 DEF Lists
<1> QED BY <1>2, <1>3, <1>4, <1>5 DEF list

(* VerifyGameState accepts a list that names the men of the board in any   *)
(* order, and only lists that name them all, nothing else, and none twice. *)
THEOREM VerifiedAsNamed ==
  ASSUME NEW b, NEW list
  PROVE  /\ Distinct(list) /\ Named(list) = Named(PawnState(b)) => Verified(b, list)
         /\ Verified(b, list) =>
              /\ Named(list) = Named(PawnState(b))
              /\ \A l \in Named(list) : Cardinality({i \in DOMAIN list : list[i] = l}) = 1
<1>1. Occurrences(PawnState(b)) = [l \in Named(PawnState(b)) |-> 1]
  BY PawnStateNames, NamedOnce
<1>2. Distinct(list) => Occurrences(list) = [l \in Named(list) |-> 1]
  BY NamedOnce
<1>3. Occurrences(list) = [l \in Named(list) |-> Cardinality({i \in DOMAIN list : list[i] = l})]
  BY DEF Occurrences, Named
<1>4. ASSUME Verified(b, list)
      PROVE  /\ Named(list) = Named(PawnState(b))
             /\ \A l \in Named(list) : Cardinality({i \in DOMAIN list : list[i] = l}) = 1
  <2> DEFINE count(l) == Cardinality({i \in DOMAIN list : list[i] = l})
  <2> HIDE DEF count
  <2>1. [l \in Named(list) |-> count(l)] = [l \in Named(PawnState(b)) |-> 1]
    BY <1>1, <1>3, <1>4 DEF Verified, count
  <2>2. Named(list) = Named(PawnState(b))
    BY <2>1
  <2>3. \A l \in Named(list) : count(l) = 1
    BY <2>1, <2>2
  <2> QED BY <2>2, <2>3 DEF count
<1> QED BY <1>1, <1>2, <1>4 DEF Verified

LEMMA Reordered ==
  ASSUME NEW b
  PROVE  LET pawns == PawnState(b)
             n     == Len(pawns)
         IN  Verified(b, [i \in 1..n |-> pawns[n + 1 - i]])
<1> DEFINE pawns == PawnState(b)
           n     == Len(pawns)
           list  == [i \in 1..n |-> pawns[n + 1 - i]]
<1>1. DOMAIN pawns = 1..n /\ n \in Nat /\ Distinct(pawns)
  BY PawnStateNames
<1> HIDE DEF pawns, n
<1>2. \A i \in 1..n : n + 1 - i \in 1..n /\ n + 1 - (n + 1 - i) = i
  BY <1>1
<1>3. DOMAIN list = 1..n /\ \A i \in 1..n : list[i] = pawns[n + 1 - i]
  OBVIOUS
<1> HIDE DEF list
<1>4. Distinct(list)
  <2>1. \A i, j \in 1..n : n + 1 - i = n + 1 - j => i = j
    BY <1>1
  <2> QED BY <1>1, <1>2, <1>3, <2>1 DEF Distinct
<1>5. Named(list) = Named(pawns)
  <2>1. \A i \in 1..n : pawns[i] = list[n + 1 - i]
    BY <1>2, <1>3
  <2> QED BY <1>1, <1>2, <1>3, <2>1 DEF Named
<1>6. Verified(b, list)
  BY <1>4, <1>5, VerifiedAsNamed DEF pawns
<1> QED BY <1>6 DEF list, pawns, n

LEMMA LeftOutOrTwice ==
  ASSUME NEW b, NEW s \in Squares, ~IsEmpty(b, s)
  PROVE  LET pawns == PawnState(b)
         IN  ~Verified(b, Tail(pawns)) /\ ~Verified(b, Append(pawns, pawns[1]))
<1> DEFINE pawns == PawnState(b)
           n     == Len(pawns)
           men   == {LocatorAt(b, q) : q \in Squares}
<1>1. DOMAIN pawns = 1..n /\ n \in Nat /\ Distinct(pawns) /\ pawns \in Seq(men)
  BY PawnStateNames
<1>2. LocatorAt(b, s) \in Named(pawns)
  BY PawnStateNames
<1> HIDE DEF pawns, n, men
<1>3. n >= 1 /\ 1 \in 1..n /\ pawns # <<>>
  BY <1>1, <1>2 DEF Named, n
<1>4. pawns[1] \in Named(pawns)
  BY <1>1, <1>3 DEF Named
<1>5. ~Verified(b, Tail(pawns))
  <2>1. DOMAIN Tail(pawns) = 1..(n - 1) /\ \A i \in 1..(n - 1) : Tail(pawns)[i] = pawns[i + 1]
    BY <1>1, <1>3 DEF n
  <2>2. pawns[1] \notin Named(Tail(pawns))
    <3>1. \A i \in 1..(n - 1) : i + 1 \in 1..n /\ i + 1 # 1
      BY <1>1
    <3> QED BY <1>1, <1>3, <2>1, <3>1 DEF Named, Distinct
  <2> QED BY <1>4, <2>2, VerifiedAsNamed DEF pawns
<1>6. ~Verified(b, Append(pawns, pawns[1]))
  <2> DEFINE more  == Append(pawns, pawns[1])
             where == {i \in DOMAIN more : more[i] = pawns[1]}
  <2>1. /\ DOMAIN more = 1..(n + 1) /\ more[n + 1] = pawns[1]
        /\ \A i \in 1..n : more[i] = pawns[i]
    BY <1>1, <1>3 DEF n
  <2> HIDE DEF more
  <2>2. 1 \in where /\ n + 1 \in where /\ n + 1 # 1
    BY <1>1, <1>3, <2>1
  <2>3. Cardinality(where) # 1
    <3>1. IsFiniteSet(1..(n + 1)) /\ where \in SUBSET (1..(n + 1))
      BY <1>1, <2>1, FS_Interval
    <3>2. IsFiniteSet(where)
      BY <3>1, FS_Subset
    <3> HIDE DEF where
    <3> QED BY <2>2, <3>2, FS_Singleton
  <2>4. pawns[1] \in Named(more)
    BY <2>2 DEF Named
  <2>5. ~Verified(b, more)
    BY <2>3, <2>4, VerifiedAsNamed
  <2> QED BY <2>5 DEF more
<1> QED BY <1>5, <1>6 DEF pawns
=============================================================================
