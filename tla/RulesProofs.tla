---------------------------- MODULE RulesProofs -----------------------------
(***************************************************************************)
(* Rules against Chess, for a board of any size.                           *)
(***************************************************************************)
EXTENDS Rules, Chess, TLAPS

USE SideAssumption

(* Squares and their files and ranks.                                      *)
Lane == 0..(Side - 1)

\* Side times something is linear for the provers only one by one.
LEMMA Products ==
  ASSUME NEW q \in Int, NEW m \in Lane
  PROVE  /\ q * Side \in Int
         /\ (q + 1) * Side = q * Side + Side
         /\ q >= 1 => q * Side >= Side
         /\ q >= 0 => q * Side >= 0
         /\ q <= -1 => q * Side <= 0 - Side
         /\ q >= Side => q * Side >= Side * Side
         /\ q <= Side - 1 => q * Side <= Side * Side - Side
  BY Z3T(30) DEF Lane

LEMMA Coordinates ==
  ASSUME NEW s \in Squares
  PROVE  /\ FileOf(s) \in Lane
         /\ RankOf(s) \in Lane
         /\ At(FileOf(s), RankOf(s)) = s
  BY Z3T(30) DEF Squares, FileOf, RankOf, At, Lane

LEMMA AtCoordinates ==
  ASSUME NEW f \in Lane, NEW r \in Lane
  PROVE  /\ At(f, r) \in Squares
         /\ FileOf(At(f, r)) = f
         /\ RankOf(At(f, r)) = r
  BY Z3T(30) DEF Squares, FileOf, RankOf, At, Lane

LEMMA OffBoard ==
  ASSUME NEW f \in Lane, NEW r \in Int, At(f, r) \in Squares
  PROVE  r \in Lane
  BY Products DEF Squares, At, Lane

LEMMA SameSquare ==
  ASSUME NEW s \in Squares, NEW t \in Squares, FileOf(s) = FileOf(t), RankOf(s) = RankOf(t)
  PROVE  s = t
  BY Coordinates

(* t is k steps from s in the direction d.                                 *)
Reaches(s, d, k, t) ==
  FileOf(t) = FileOf(s) + k * d[1] /\ RankOf(t) = RankOf(s) + k * d[2]

LEMMA Offsets ==
  /\ Lines \subseteq Int \X Int
  /\ Diagonals \subseteq Int \X Int
  /\ KnightJumps \subseteq Int \X Int
  /\ \A color \in Colors : PawnSteps(color) \subseteq Int \X Int
  BY DEF Lines, Diagonals, KnightJumps, PawnSteps, Forward, Colors

LEMMA ShiftReaches ==
  ASSUME NEW s \in Squares, NEW d \in Int \X Int, NEW k \in Int
  PROVE  /\ Inside(s, d, k) => Shift(s, d, k) \in Squares /\ Reaches(s, d, k, Shift(s, d, k))
         /\ \A t \in Squares : Reaches(s, d, k, t) => Inside(s, d, k) /\ Shift(s, d, k) = t
<1>1. File(s, d, k) = FileOf(s) + k * d[1] /\ Rank(s, d, k) = RankOf(s) + k * d[2]
  BY DEF File, Rank
<1>2. ASSUME Inside(s, d, k)
      PROVE  Shift(s, d, k) \in Squares /\ Reaches(s, d, k, Shift(s, d, k))
  <2>1. File(s, d, k) \in Lane /\ Rank(s, d, k) \in Lane
    BY <1>2 DEF Inside, OnBoard, Lane
  <2> QED BY <1>1, <2>1, AtCoordinates DEF Shift, Reaches
<1>3. ASSUME NEW t \in Squares, Reaches(s, d, k, t)
      PROVE  Inside(s, d, k) /\ Shift(s, d, k) = t
  <2>1. File(s, d, k) = FileOf(t) /\ Rank(s, d, k) = RankOf(t)
    BY <1>1, <1>3 DEF Reaches
  <2> QED BY <2>1, Coordinates DEF Inside, OnBoard, Shift, Lane
<1> QED BY <1>2, <1>3

LEMMA NeighboursReach ==
  ASSUME NEW s \in Squares, NEW offsets \in SUBSET (Int \X Int), NEW t
  PROVE  t \in Neighbours(s, offsets) <=> t \in Squares /\ \E d \in offsets : Reaches(s, d, 1, t)
<1>1. \A d \in offsets : d \in Int \X Int
  OBVIOUS
<1> QED BY <1>1, ShiftReaches DEF Neighbours

LEMMA InSightReaches ==
  ASSUME NEW b, NEW s \in Squares, NEW offsets \in SUBSET (Int \X Int), NEW t
  PROVE  t \in InSight(b, s, offsets) <=>
           /\ t \in Squares
           /\ \E d \in offsets : \E k \in 1..(Side - 1) :
                Reaches(s, d, k, t) /\ \A j \in 1..(k - 1) : IsEmpty(b, Shift(s, d, j))
<1>1. \A d \in offsets : d \in Int \X Int
  OBVIOUS
<1>2. t \in InSight(b, s, offsets) <=>
        \E d \in offsets : \E k \in 1..(Side - 1) :
          /\ Inside(s, d, k)
          /\ \A j \in 1..(k - 1) : IsEmpty(b, Shift(s, d, j))
          /\ t = Shift(s, d, k)
  BY DEF InSight
<1>3. ASSUME NEW d \in offsets, NEW k \in 1..(Side - 1)
      PROVE  Inside(s, d, k) /\ t = Shift(s, d, k) <=> t \in Squares /\ Reaches(s, d, k, t)
  BY <1>1, ShiftReaches
<1> QED BY <1>2, <1>3

-----------------------------------------------------------------------------
(* Rays: what Chess says of two squares and those between them, in steps.  *)
LEMMA Apart ==
  ASSUME NEW s \in Squares, NEW t \in Squares
  PROVE  /\ Files(s, t) \in Nat /\ Ranks(s, t) \in Nat
         /\ Files(s, t) = Files(t, s) /\ Ranks(s, t) = Ranks(t, s)
         /\ Files(s, t) <= Side - 1 /\ Ranks(s, t) <= Side - 1
         /\ Files(s, t) = 0 <=> FileOf(s) = FileOf(t)
         /\ Ranks(s, t) = 0 <=> RankOf(s) = RankOf(t)
         /\ \/ FileOf(t) = FileOf(s) + Files(s, t)
            \/ FileOf(t) = FileOf(s) - Files(s, t)
         /\ \/ RankOf(t) = RankOf(s) + Ranks(s, t)
            \/ RankOf(t) = RankOf(s) - Ranks(s, t)
  BY Coordinates DEF Files, Ranks, Distance, Lane

LEMMA LineReaches ==
  ASSUME NEW s \in Squares, NEW t \in Squares
  PROVE  Straight(s, t) <=> \E d \in Lines : \E k \in 1..(Side - 1) : Reaches(s, d, k, t)
<1>0. FileOf(s) \in Int /\ RankOf(s) \in Int /\ FileOf(t) \in Int /\ RankOf(t) \in Int
  BY Coordinates DEF Lane
<1>1. ASSUME Straight(s, t)
      PROVE  \E d \in Lines : \E k \in 1..(Side - 1) : Reaches(s, d, k, t)
  <2>1. CASE Ranks(s, t) = 0
    <3>1. Files(s, t) \in 1..(Side - 1)
      BY <1>1, <2>1, Apart, SameSquare DEF Straight
    <3>2. Reaches(s, <<1, 0>>, Files(s, t), t) \/ Reaches(s, <<-1, 0>>, Files(s, t), t)
      BY <1>0, <2>1, <3>1, Apart DEF Reaches
    <3> QED BY <3>1, <3>2 DEF Lines
  <2>2. CASE Files(s, t) = 0
    <3>1. Ranks(s, t) \in 1..(Side - 1)
      BY <1>1, <2>2, Apart, SameSquare DEF Straight
    <3>2. Reaches(s, <<0, 1>>, Ranks(s, t), t) \/ Reaches(s, <<0, -1>>, Ranks(s, t), t)
      BY <1>0, <2>2, <3>1, Apart DEF Reaches
    <3> QED BY <3>1, <3>2 DEF Lines
  <2> QED BY <1>1, <2>1, <2>2 DEF Straight
<1>2. ASSUME NEW d \in Lines, NEW k \in 1..(Side - 1), Reaches(s, d, k, t)
      PROVE  Straight(s, t)
  BY <1>0, <1>2 DEF Lines, Reaches, Straight, Files, Ranks, Distance
<1> QED BY <1>1, <1>2

LEMMA DiagonalReaches ==
  ASSUME NEW s \in Squares, NEW t \in Squares
  PROVE  Diagonal(s, t) <=> \E d \in Diagonals : \E k \in 1..(Side - 1) : Reaches(s, d, k, t)
<1>0. FileOf(s) \in Int /\ RankOf(s) \in Int /\ FileOf(t) \in Int /\ RankOf(t) \in Int
  BY Coordinates DEF Lane
<1>1. ASSUME Diagonal(s, t)
      PROVE  \E d \in Diagonals : \E k \in 1..(Side - 1) : Reaches(s, d, k, t)
  <2> DEFINE k == Files(s, t)
  <2>1. k = Ranks(s, t) /\ k \in 1..(Side - 1)
    BY <1>1, Apart, SameSquare DEF Diagonal
  <2>2. /\ FileOf(t) = FileOf(s) + k \/ FileOf(t) = FileOf(s) - k
        /\ RankOf(t) = RankOf(s) + k \/ RankOf(t) = RankOf(s) - k
    BY <2>1, Apart
  <2> HIDE DEF k
  <2>3. \/ Reaches(s, <<1, 1>>, k, t) \/ Reaches(s, <<1, -1>>, k, t)
        \/ Reaches(s, <<-1, 1>>, k, t) \/ Reaches(s, <<-1, -1>>, k, t)
    BY <1>0, <2>1, <2>2 DEF Reaches
  <2> QED BY <2>1, <2>3 DEF Diagonals
<1>2. ASSUME NEW d \in Diagonals, NEW k \in 1..(Side - 1), Reaches(s, d, k, t)
      PROVE  Diagonal(s, t)
  BY <1>0, <1>2 DEF Diagonals, Reaches, Diagonal, Files, Ranks, Distance
<1> QED BY <1>1, <1>2

(* On one axis: what lies between two numbers is reached on the way.       *)
LEMMA OnTheWay ==
  ASSUME NEW x \in Int, NEW y \in Int, NEW z \in Int,
         Distance(x, y) + Distance(y, z) = Distance(x, z)
  PROVE  /\ z >= x => y = x + Distance(x, y) /\ z = y + Distance(y, z)
         /\ x >= z => y = x - Distance(x, y) /\ z = y - Distance(y, z)
         /\ Distance(x, y) \in Nat /\ Distance(y, z) \in Nat
  BY DEF Distance

(* Between two squares of a ray lie those that take fewer steps.           *)
LEMMA BetweenOnLine ==
  ASSUME NEW s \in Squares, NEW t \in Squares, NEW u \in Squares,
         NEW d \in Lines, NEW k \in 1..(Side - 1), Reaches(s, d, k, t)
  PROVE  Between(s, u, t) /\ u \notin {s, t} <=> \E j \in 1..(k - 1) : Reaches(s, d, j, u)
<1>0. /\ FileOf(s) \in Int /\ RankOf(s) \in Int /\ FileOf(t) \in Int /\ RankOf(t) \in Int
      /\ FileOf(u) \in Int /\ RankOf(u) \in Int
  BY Coordinates DEF Lane
<1>1. Straight(s, t) /\ s # t
  BY LineReaches DEF Straight
<1>2. ASSUME Between(s, u, t), u \notin {s, t}
      PROVE  \E j \in 1..(k - 1) : Reaches(s, d, j, u)
  <2> DEFINE j == Files(s, u) + Ranks(s, u)
  <2>1. j \in 1..(k - 1) /\ Reaches(s, d, j, u)
    <3>1. FileOf(u) # FileOf(s) \/ RankOf(u) # RankOf(s)
      BY <1>2, SameSquare
    <3>2. FileOf(u) # FileOf(t) \/ RankOf(u) # RankOf(t)
      BY <1>2, SameSquare
    <3>3. /\ Distance(FileOf(s), FileOf(u)) + Distance(FileOf(u), FileOf(t))
                = Distance(FileOf(s), FileOf(t))
          /\ Distance(RankOf(s), RankOf(u)) + Distance(RankOf(u), RankOf(t))
                = Distance(RankOf(s), RankOf(t))
      BY <1>2 DEF Between, Files, Ranks
    <3> DEFINE df == Distance(FileOf(s), FileOf(u))
               dr == Distance(RankOf(s), RankOf(u))
               ef == Distance(FileOf(u), FileOf(t))
               er == Distance(RankOf(u), RankOf(t))
    <3>4. /\ df \in Nat /\ dr \in Nat /\ ef \in Nat /\ er \in Nat
          /\ FileOf(t) >= FileOf(s) => FileOf(u) = FileOf(s) + df /\ FileOf(t) = FileOf(u) + ef
          /\ FileOf(s) >= FileOf(t) => FileOf(u) = FileOf(s) - df /\ FileOf(t) = FileOf(u) - ef
          /\ RankOf(t) >= RankOf(s) => RankOf(u) = RankOf(s) + dr /\ RankOf(t) = RankOf(u) + er
          /\ RankOf(s) >= RankOf(t) => RankOf(u) = RankOf(s) - dr /\ RankOf(t) = RankOf(u) - er
      BY <1>0, <3>3, OnTheWay
    <3>5. j = df + dr
      BY DEF Files, Ranks
    <3> HIDE DEF j, df, dr, ef, er
    <3>6. CASE d = <<1, 0>>
      BY <1>0, <3>1, <3>2, <3>4, <3>5, <3>6 DEF Reaches
    <3>7. CASE d = <<-1, 0>>
      BY <1>0, <3>1, <3>2, <3>4, <3>5, <3>7 DEF Reaches
    <3>8. CASE d = <<0, 1>>
      BY <1>0, <3>1, <3>2, <3>4, <3>5, <3>8 DEF Reaches
    <3>9. CASE d = <<0, -1>>
      BY <1>0, <3>1, <3>2, <3>4, <3>5, <3>9 DEF Reaches
    <3> QED BY <3>6, <3>7, <3>8, <3>9 DEF Lines
  <2> QED BY <2>1
<1>3. ASSUME NEW j \in 1..(k - 1), Reaches(s, d, j, u)
      PROVE  Between(s, u, t) /\ u \notin {s, t}
  <2>1. /\ Files(s, u) + Files(u, t) = Files(s, t)
        /\ Ranks(s, u) + Ranks(u, t) = Ranks(s, t)
        /\ u \notin {s, t}
        /\ ~Diagonal(s, t)
        /\ Files(s, u) = 0 \/ Ranks(s, u) = 0
        /\ Files(u, t) = 0 \/ Ranks(u, t) = 0
    <3>1. CASE d = <<1, 0>>
      BY <1>0, <1>3, <3>1 DEF Reaches, Files, Ranks, Distance, Diagonal
    <3>2. CASE d = <<-1, 0>>
      BY <1>0, <1>3, <3>2 DEF Reaches, Files, Ranks, Distance, Diagonal
    <3>3. CASE d = <<0, 1>>
      BY <1>0, <1>3, <3>3 DEF Reaches, Files, Ranks, Distance, Diagonal
    <3>4. CASE d = <<0, -1>>
      BY <1>0, <1>3, <3>4 DEF Reaches, Files, Ranks, Distance, Diagonal
    <3> QED BY <3>1, <3>2, <3>3, <3>4 DEF Lines
  <2> QED BY <2>1 DEF Between, Straight
<1> QED BY <1>2, <1>3

LEMMA BetweenOnDiagonal ==
  ASSUME NEW s \in Squares, NEW t \in Squares, NEW u \in Squares,
         NEW d \in Diagonals, NEW k \in 1..(Side - 1), Reaches(s, d, k, t)
  PROVE  Between(s, u, t) /\ u \notin {s, t} <=> \E j \in 1..(k - 1) : Reaches(s, d, j, u)
<1>0. /\ FileOf(s) \in Int /\ RankOf(s) \in Int /\ FileOf(t) \in Int /\ RankOf(t) \in Int
      /\ FileOf(u) \in Int /\ RankOf(u) \in Int
  BY Coordinates DEF Lane
<1>1. Diagonal(s, t) /\ s # t
  BY DiagonalReaches DEF Diagonal
<1>2. ASSUME Between(s, u, t), u \notin {s, t}
      PROVE  \E j \in 1..(k - 1) : Reaches(s, d, j, u)
  <2> DEFINE j == Files(s, u)
  <2>0. /\ Files(s, u) = Ranks(s, u)
        /\ Files(u, t) = Ranks(u, t)
        /\ Files(s, u) + Files(u, t) = Files(s, t)
    BY <1>1, <1>2 DEF Between, Diagonal
  <2>1. j \in 1..(k - 1) /\ Reaches(s, d, j, u)
    <3>1. FileOf(u) # FileOf(s) \/ RankOf(u) # RankOf(s)
      BY <1>2, SameSquare
    <3>2. FileOf(u) # FileOf(t) \/ RankOf(u) # RankOf(t)
      BY <1>2, SameSquare
    <3>3. /\ Distance(FileOf(s), FileOf(u)) + Distance(FileOf(u), FileOf(t))
                = Distance(FileOf(s), FileOf(t))
          /\ Distance(RankOf(s), RankOf(u)) + Distance(RankOf(u), RankOf(t))
                = Distance(RankOf(s), RankOf(t))
      BY <1>2 DEF Between, Files, Ranks
    <3> DEFINE df == Distance(FileOf(s), FileOf(u))
               dr == Distance(RankOf(s), RankOf(u))
               ef == Distance(FileOf(u), FileOf(t))
               er == Distance(RankOf(u), RankOf(t))
    <3>4. /\ df \in Nat /\ dr \in Nat /\ ef \in Nat /\ er \in Nat
          /\ FileOf(t) >= FileOf(s) => FileOf(u) = FileOf(s) + df /\ FileOf(t) = FileOf(u) + ef
          /\ FileOf(s) >= FileOf(t) => FileOf(u) = FileOf(s) - df /\ FileOf(t) = FileOf(u) - ef
          /\ RankOf(t) >= RankOf(s) => RankOf(u) = RankOf(s) + dr /\ RankOf(t) = RankOf(u) + er
          /\ RankOf(s) >= RankOf(t) => RankOf(u) = RankOf(s) - dr /\ RankOf(t) = RankOf(u) - er
      BY <1>0, <3>3, OnTheWay
    <3>5. j = df /\ df = dr /\ ef = er
      BY <2>0 DEF Files, Ranks
    <3> HIDE DEF j, df, dr, ef, er
    <3>6. CASE d = <<1, 1>>
      BY <1>0, <3>1, <3>2, <3>4, <3>5, <3>6 DEF Reaches
    <3>7. CASE d = <<1, -1>>
      BY <1>0, <3>1, <3>2, <3>4, <3>5, <3>7 DEF Reaches
    <3>8. CASE d = <<-1, 1>>
      BY <1>0, <3>1, <3>2, <3>4, <3>5, <3>8 DEF Reaches
    <3>9. CASE d = <<-1, -1>>
      BY <1>0, <3>1, <3>2, <3>4, <3>5, <3>9 DEF Reaches
    <3> QED BY <3>6, <3>7, <3>8, <3>9 DEF Diagonals
  <2> QED BY <2>1
<1>3. ASSUME NEW j \in 1..(k - 1), Reaches(s, d, j, u)
      PROVE  Between(s, u, t) /\ u \notin {s, t}
  <2>1. /\ Files(s, u) + Files(u, t) = Files(s, t)
        /\ Ranks(s, u) + Ranks(u, t) = Ranks(s, t)
        /\ u \notin {s, t}
        /\ Files(s, t) # 0 /\ Ranks(s, t) # 0
        /\ Files(s, u) = Ranks(s, u)
        /\ Files(u, t) = Ranks(u, t)
    <3>1. CASE d = <<1, 1>>
      BY <1>0, <1>3, <3>1 DEF Reaches, Files, Ranks, Distance
    <3>2. CASE d = <<1, -1>>
      BY <1>0, <1>3, <3>2 DEF Reaches, Files, Ranks, Distance
    <3>3. CASE d = <<-1, 1>>
      BY <1>0, <1>3, <3>3 DEF Reaches, Files, Ranks, Distance
    <3>4. CASE d = <<-1, -1>>
      BY <1>0, <1>3, <3>4 DEF Reaches, Files, Ranks, Distance
    <3> QED BY <3>1, <3>2, <3>3, <3>4 DEF Diagonals
  <2> QED BY <2>1 DEF Between, Straight, Diagonal
<1> QED BY <1>2, <1>3

(* A ray does not leave the board and come back.                           *)
LEMMA RayInside ==
  ASSUME NEW s \in Squares, NEW t \in Squares, NEW d \in Lines \cup Diagonals,
         NEW k \in 1..(Side - 1), Reaches(s, d, k, t), NEW j \in 1..(k - 1)
  PROVE  Inside(s, d, j)
<1>1. FileOf(s) \in Lane /\ RankOf(s) \in Lane /\ FileOf(t) \in Lane /\ RankOf(t) \in Lane
  BY Coordinates
<1>2. /\ d \in Lines => d \in {<<1, 0>>, <<-1, 0>>, <<0, 1>>, <<0, -1>>}
      /\ d \in Diagonals => d \in {<<1, 1>>, <<1, -1>>, <<-1, 1>>, <<-1, -1>>}
  BY DEF Lines, Diagonals
<1> QED BY <1>1, <1>2 DEF Reaches, Inside, OnBoard, File, Rank, Lane

LEMMA ClearOnRay ==
  ASSUME NEW b, NEW s \in Squares, NEW t \in Squares, NEW d \in Lines \cup Diagonals,
         NEW k \in 1..(Side - 1), Reaches(s, d, k, t)
  PROVE  Unobstructed(b, s, t) <=> \A j \in 1..(k - 1) : IsEmpty(b, Shift(s, d, j))
<1>1. d \in Int \X Int
  BY Offsets
<1>2. \A u \in Squares :
        Between(s, u, t) /\ u \notin {s, t} <=> \E j \in 1..(k - 1) : Reaches(s, d, j, u)
  BY BetweenOnLine, BetweenOnDiagonal
<1>3. \A j \in 1..(k - 1) :
        /\ Shift(s, d, j) \in Squares
        /\ Reaches(s, d, j, Shift(s, d, j))
        /\ \A u \in Squares : Reaches(s, d, j, u) => Shift(s, d, j) = u
  BY <1>1, RayInside, ShiftReaches
<1>4. ASSUME Unobstructed(b, s, t), NEW j \in 1..(k - 1)
      PROVE  IsEmpty(b, Shift(s, d, j))
  BY <1>2, <1>3, <1>4 DEF Unobstructed
<1>5. ASSUME \A j \in 1..(k - 1) : IsEmpty(b, Shift(s, d, j))
      PROVE  Unobstructed(b, s, t)
  BY <1>2, <1>3, <1>5 DEF Unobstructed
<1> QED BY <1>4, <1>5

(* What is seen outwards from a square is what is on a line, or a diagonal,*)
(* with it and nothing between.                                            *)
LEMMA LinesInSight ==
  ASSUME NEW b, NEW s \in Squares, NEW t
  PROVE  t \in InSight(b, s, Lines) <=> t \in Squares /\ Straight(s, t) /\ Unobstructed(b, s, t)
<1>1. t \in InSight(b, s, Lines) <=>
        /\ t \in Squares
        /\ \E d \in Lines : \E k \in 1..(Side - 1) :
             Reaches(s, d, k, t) /\ \A j \in 1..(k - 1) : IsEmpty(b, Shift(s, d, j))
  BY Offsets, InSightReaches
<1>2. t \in Squares =>
        \A d \in Lines : \A k \in 1..(Side - 1) : Reaches(s, d, k, t) =>
          (Unobstructed(b, s, t) <=> \A j \in 1..(k - 1) : IsEmpty(b, Shift(s, d, j)))
  BY ClearOnRay
<1>3. t \in Squares =>
        (Straight(s, t) <=> \E d \in Lines : \E k \in 1..(Side - 1) : Reaches(s, d, k, t))
  BY LineReaches
<1> QED BY <1>1, <1>2, <1>3

LEMMA DiagonalsInSight ==
  ASSUME NEW b, NEW s \in Squares, NEW t
  PROVE  t \in InSight(b, s, Diagonals) <=>
           t \in Squares /\ Diagonal(s, t) /\ Unobstructed(b, s, t)
<1>1. t \in InSight(b, s, Diagonals) <=>
        /\ t \in Squares
        /\ \E d \in Diagonals : \E k \in 1..(Side - 1) :
             Reaches(s, d, k, t) /\ \A j \in 1..(k - 1) : IsEmpty(b, Shift(s, d, j))
  BY Offsets, InSightReaches
<1>2. t \in Squares =>
        \A d \in Diagonals : \A k \in 1..(Side - 1) : Reaches(s, d, k, t) =>
          (Unobstructed(b, s, t) <=> \A j \in 1..(k - 1) : IsEmpty(b, Shift(s, d, j)))
  BY ClearOnRay
<1>3. t \in Squares =>
        (Diagonal(s, t) <=> \E d \in Diagonals : \E k \in 1..(Side - 1) : Reaches(s, d, k, t))
  BY DiagonalReaches
<1> QED BY <1>1, <1>2, <1>3

LEMMA QueenInSight ==
  ASSUME NEW b, NEW s, NEW t
  PROVE  t \in InSight(b, s, Lines \cup Diagonals) <=>
           t \in InSight(b, s, Lines) \/ t \in InSight(b, s, Diagonals)
  BY DEF InSight

LEMMA PawnNeighbours ==
  ASSUME NEW s \in Squares, NEW color \in Colors, NEW t
  PROVE  t \in Neighbours(s, PawnSteps(color)) <=>
           t \in Squares /\ Files(s, t) = 1 /\ RankOf(t) - RankOf(s) = Forward(color)
<1>1. t \in Neighbours(s, PawnSteps(color)) <=>
        t \in Squares /\ \E d \in PawnSteps(color) : Reaches(s, d, 1, t)
  BY Offsets, NeighboursReach
<1>2. ASSUME t \in Squares
      PROVE  (\E d \in PawnSteps(color) : Reaches(s, d, 1, t)) <=>
               Files(s, t) = 1 /\ RankOf(t) - RankOf(s) = Forward(color)
  <2>1. /\ FileOf(s) \in Int /\ RankOf(s) \in Int /\ FileOf(t) \in Int /\ RankOf(t) \in Int
    BY <1>2, Coordinates DEF Lane
  <2>2. Forward(color) \in {1, -1}
    BY DEF Forward
  <2>3. (\E d \in PawnSteps(color) : Reaches(s, d, 1, t)) <=>
          \/ FileOf(t) = FileOf(s) - 1 /\ RankOf(t) = RankOf(s) + Forward(color)
          \/ FileOf(t) = FileOf(s) + 1 /\ RankOf(t) = RankOf(s) + Forward(color)
    BY <2>1, <2>2 DEF PawnSteps, Reaches
  <2> QED BY <2>1, <2>2, <2>3 DEF Files, Distance
<1> QED BY <1>1, <1>2

LEMMA KingNeighbours ==
  ASSUME NEW s \in Squares, NEW t
  PROVE  t \in Neighbours(s, Lines \cup Diagonals) <=>
           t \in Squares /\ s # t /\ Files(s, t) <= 1 /\ Ranks(s, t) <= 1
<1>1. t \in Neighbours(s, Lines \cup Diagonals) <=>
        t \in Squares /\ \E d \in Lines \cup Diagonals : Reaches(s, d, 1, t)
  BY Offsets, NeighboursReach
<1>2. ASSUME t \in Squares
      PROVE  (\E d \in Lines \cup Diagonals : Reaches(s, d, 1, t)) <=>
               s # t /\ Files(s, t) <= 1 /\ Ranks(s, t) <= 1
  <2>1. /\ FileOf(s) \in Int /\ RankOf(s) \in Int /\ FileOf(t) \in Int /\ RankOf(t) \in Int
    BY <1>2, Coordinates DEF Lane
  <2>2. s = t <=> FileOf(s) = FileOf(t) /\ RankOf(s) = RankOf(t)
    BY <1>2, SameSquare
  <2> DEFINE x == FileOf(t) - FileOf(s)
             y == RankOf(t) - RankOf(s)
  <2>3. (\E d \in Lines \cup Diagonals : Reaches(s, d, 1, t)) <=>
          x \in {-1, 0, 1} /\ y \in {-1, 0, 1} /\ ~(x = 0 /\ y = 0)
    <3>1. \A d \in Lines \cup Diagonals : Reaches(s, d, 1, t) <=> x = d[1] /\ y = d[2]
      BY <2>1, Offsets DEF Reaches
    <3>2. Lines \cup Diagonals = {<<1, 0>>, <<-1, 0>>, <<0, 1>>, <<0, -1>>,
                                  <<1, 1>>, <<1, -1>>, <<-1, 1>>, <<-1, -1>>}
      BY DEF Lines, Diagonals
    <3>3. x \in Int /\ y \in Int
      BY <2>1
    <3> HIDE DEF x, y
    <3>4. \A d \in Lines \cup Diagonals : d = <<d[1], d[2]>>
      BY <3>2
    <3>5. (\E d \in Lines \cup Diagonals : Reaches(s, d, 1, t)) <=>
            <<x, y>> \in Lines \cup Diagonals
      <4>1. ASSUME NEW d \in Lines \cup Diagonals, Reaches(s, d, 1, t)
            PROVE  <<x, y>> \in Lines \cup Diagonals
        <5>1. <<x, y>> = d
          BY <3>1, <3>4, <4>1
        <5> QED BY <5>1
      <4>2. ASSUME <<x, y>> \in Lines \cup Diagonals
            PROVE  Reaches(s, <<x, y>>, 1, t)
        BY <3>1, <4>2
      <4> QED BY <4>1, <4>2
    <3>6. <<x, y>> \in Lines \cup Diagonals <=>
            x \in {-1, 0, 1} /\ y \in {-1, 0, 1} /\ ~(x = 0 /\ y = 0)
      BY <3>2, <3>3
    <3> QED BY <3>5, <3>6
  <2>4. Files(s, t) <= 1 <=> x \in {-1, 0, 1}
    BY <2>1 DEF Files, Distance
  <2>5. Ranks(s, t) <= 1 <=> y \in {-1, 0, 1}
    BY <2>1 DEF Ranks, Distance
  <2>6. s = t <=> x = 0 /\ y = 0
    BY <2>1, <2>2
  <2> HIDE DEF x, y
  <2> QED BY <2>3, <2>4, <2>5, <2>6
<1> QED BY <1>1, <1>2

-----------------------------------------------------------------------------
(* Attacks: those found by looking outwards are those of chess, unless a   *)
(* knight is about (two of whose jumps the code's table lacks).            *)
LEMMA Symmetry ==
  ASSUME NEW s \in Squares, NEW t \in Squares
  PROVE  /\ Straight(s, t) <=> Straight(t, s)
         /\ Diagonal(s, t) <=> Diagonal(t, s)
         /\ \A b : Unobstructed(b, s, t) <=> Unobstructed(b, t, s)
<1>1. \A u, v \in Squares : Files(u, v) = Files(v, u) /\ Ranks(u, v) = Ranks(v, u)
  BY Apart
<1>2. \A u, v \in Squares : /\ Straight(u, v) <=> Straight(v, u)
                            /\ Diagonal(u, v) <=> Diagonal(v, u)
  BY <1>1 DEF Straight, Diagonal
<1>3. \A u \in Squares : Between(s, u, t) <=> Between(t, u, s)
  <2> SUFFICES ASSUME NEW u \in Squares
               PROVE  Between(s, u, t) <=> Between(t, u, s)
    OBVIOUS
  <2>1. /\ Files(s, u) \in Nat /\ Files(u, t) \in Nat /\ Ranks(s, u) \in Nat /\ Ranks(u, t) \in Nat
    BY Apart
  <2> QED BY <1>1, <1>2, <2>1 DEF Between
<1> QED BY <1>2, <1>3 DEF Unobstructed

NoKnights(b, color) == \A s \in Squares : Own(b, s, color) => KindOf(b, s) # "Knight"

\* The pieces of a board.
LEMMA OwnKinds ==
  ASSUME NEW b \in Boards, NEW s \in Squares
  PROVE  /\ ~IsEmpty(b, s) => /\ b.squares[s] = Piece(KindOf(b, s), ColorOf(b, s))
                              /\ KindOf(b, s) \in Kinds /\ ColorOf(b, s) \in Colors
         /\ IsEmpty(b, s) => KindOf(b, s) = "None"
         /\ IsEmpty(b, s) <=> KindOf(b, s) \notin Kinds
<1>1. b.squares[s] \in Pieces \cup {Empty}
  BY DEF Boards
<1> QED BY <1>1 DEF IsEmpty, KindOf, ColorOf, Pieces, Piece, Empty, Kinds

LEMMA AttackerSeen ==
  ASSUME NEW b \in Boards, NEW k \in Squares, NEW s \in Squares, NEW by \in Colors,
         Own(b, s, by), KindOf(b, s) # "Knight"
  PROVE  Attacks(b, s, k) <=>
           \/ KindOf(b, s) = "Pawn" /\ s \in Neighbours(k, PawnSteps(Opponent(by)))
           \/ KindOf(b, s) = "King" /\ s \in Neighbours(k, Lines \cup Diagonals)
           \/ KindOf(b, s) \in {"Bishop", "Queen"} /\ s \in InSight(b, k, Diagonals)
           \/ KindOf(b, s) \in {"Rook", "Queen"} /\ s \in InSight(b, k, Lines)
<1>1. KindOf(b, s) \in Kinds /\ ColorOf(b, s) = by
  BY OwnKinds DEF Own
<1>2. /\ RankOf(s) \in Int /\ RankOf(k) \in Int
      /\ Files(s, k) = Files(k, s) /\ Ranks(s, k) = Ranks(k, s)
  BY Coordinates, Apart DEF Lane
<1>3. /\ Opponent(by) \in Colors
      /\ Forward(Opponent(by)) = 0 - Forward(by)
      /\ Forward(by) \in Int
  BY DEF Opponent, Forward, Colors
<1>4. CASE KindOf(b, s) = "Pawn"
  <2>1. s \in Neighbours(k, PawnSteps(Opponent(by))) <=>
          Files(k, s) = 1 /\ RankOf(s) - RankOf(k) = Forward(Opponent(by))
    BY <1>3, PawnNeighbours
  <2>2. Attacks(b, s, k) <=> Files(s, k) = 1 /\ RankOf(k) - RankOf(s) = Forward(by)
    BY <1>1, <1>4 DEF Attacks
  <2> QED BY <1>2, <1>3, <1>4, <2>1, <2>2
<1>5. CASE KindOf(b, s) = "King"
  <2>1. Attacks(b, s, k) <=> s # k /\ Files(s, k) <= 1 /\ Ranks(s, k) <= 1
    BY <1>5 DEF Attacks
  <2> QED BY <1>2, <1>5, <2>1, KingNeighbours
<1>6. CASE KindOf(b, s) = "Rook"
  <2>1. Attacks(b, s, k) <=> Straight(s, k) /\ Unobstructed(b, s, k)
    BY <1>6 DEF Attacks
  <2> QED BY <1>6, <2>1, LinesInSight, Symmetry
<1>7. CASE KindOf(b, s) = "Bishop"
  <2>1. Attacks(b, s, k) <=> Diagonal(s, k) /\ Unobstructed(b, s, k)
    BY <1>7 DEF Attacks
  <2> QED BY <1>7, <2>1, DiagonalsInSight, Symmetry
<1>8. CASE KindOf(b, s) = "Queen"
  <2>1. Attacks(b, s, k) <=> (Straight(s, k) \/ Diagonal(s, k)) /\ Unobstructed(b, s, k)
    BY <1>8 DEF Attacks
  <2> QED BY <1>8, <2>1, LinesInSight, DiagonalsInSight, Symmetry
<1> QED BY <1>1, <1>4, <1>5, <1>6, <1>7, <1>8 DEF Kinds

LEMMA NeighboursAreSquares ==
  ASSUME NEW b, NEW s \in Squares
  PROVE  /\ \A color \in Colors : Neighbours(s, PawnSteps(color)) \subseteq Squares
         /\ Neighbours(s, KnightJumps) \subseteq Squares
         /\ Neighbours(s, Lines \cup Diagonals) \subseteq Squares
         /\ InSight(b, s, Lines) \subseteq Squares
         /\ InSight(b, s, Diagonals) \subseteq Squares
<1>1. \A color \in Colors : Neighbours(s, PawnSteps(color)) \subseteq Squares
  BY Offsets, NeighboursReach
<1>2. Neighbours(s, KnightJumps) \subseteq Squares
  BY Offsets, NeighboursReach
<1> QED BY <1>1, <1>2, KingNeighbours, LinesInSight, DiagonalsInSight

(* isSquareAttacked finds an attacker exactly if there is one.             *)
LEMMA AttackedAsInChess ==
  ASSUME NEW b \in Boards, NEW k \in Squares, NEW by \in Colors, NoKnights(b, by)
  PROVE  IsSquareAttacked(b, k, by) <=> \E s \in Squares : Own(b, s, by) /\ Attacks(b, s, k)
<1>1. Opponent(by) \in Colors
  BY DEF Opponent, Colors
<1>2. \A s \in Squares : Own(b, s, by) <=> ~IsEmpty(b, s) /\ ColorOf(b, s) = by
  BY DEF Own
<1>3. IsSquareAttacked(b, k, by) <=>
        \E s \in Squares : Own(b, s, by) /\
          \/ KindOf(b, s) = "Pawn" /\ s \in Neighbours(k, PawnSteps(Opponent(by)))
          \/ KindOf(b, s) = "Knight" /\ s \in Neighbours(k, KnightJumps)
          \/ KindOf(b, s) = "King" /\ s \in Neighbours(k, Lines \cup Diagonals)
          \/ KindOf(b, s) \in {"Bishop", "Queen"} /\ s \in InSight(b, k, Diagonals)
          \/ KindOf(b, s) \in {"Rook", "Queen"} /\ s \in InSight(b, k, Lines)
  BY <1>1, <1>2, NeighboursAreSquares DEF IsSquareAttacked
<1> QED BY <1>3, AttackerSeen DEF NoKnights

-----------------------------------------------------------------------------
(* Moves: those generated are those of chess, but for the knight's jumps   *)
(* that the table lacks.                                                   *)
LEMMA Ahead ==
  ASSUME NEW s \in Squares, NEW n \in Int, NEW color \in Colors, NEW t \in Squares
  PROVE  t = At(FileOf(s), RankOf(s) + n * Forward(color)) <=>
           Files(s, t) = 0 /\ RankOf(t) - RankOf(s) = n * Forward(color)
<1> DEFINE step == n * Forward(color)
<1>1. step \in Int
  BY DEF Forward
<1> HIDE DEF step
<1>2. FileOf(s) \in Lane /\ RankOf(s) \in Lane /\ FileOf(t) \in Lane /\ RankOf(t) \in Lane
  BY Coordinates
<1>3. ASSUME t = At(FileOf(s), RankOf(s) + step)
      PROVE  FileOf(t) = FileOf(s) /\ RankOf(t) = RankOf(s) + step
  <2>1. RankOf(s) + step \in Lane
    BY <1>1, <1>2, <1>3, OffBoard DEF Lane
  <2> QED BY <1>2, <1>3, <2>1, AtCoordinates
<1>4. ASSUME FileOf(t) = FileOf(s), RankOf(t) = RankOf(s) + step
      PROVE  t = At(FileOf(s), RankOf(s) + step)
  BY <1>4, Coordinates
<1>5. Files(s, t) = 0 <=> FileOf(t) = FileOf(s)
  BY Apart
<1>6. RankOf(t) - RankOf(s) = step <=> RankOf(t) = RankOf(s) + step
  BY <1>1, <1>2 DEF Lane
<1>7. t = At(FileOf(s), RankOf(s) + step) <=> Files(s, t) = 0 /\ RankOf(t) - RankOf(s) = step
  BY <1>3, <1>4, <1>5, <1>6
<1> QED BY <1>7 DEF step

LEMMA PushesAsInChess ==
  ASSUME NEW b \in Boards, NEW s \in Squares, NEW color \in Colors, NEW t, Own(b, s, color)
  PROVE  t \in PawnPushes(b, s, color) <=>
           /\ t \in Squares /\ IsEmpty(b, t)
           /\ \/ Advances(b, s, t, 1)
              \/ /\ Advances(b, s, t, 2)
                 /\ RankOf(s) = PawnRank(color)
                 /\ Unobstructed(b, s, t)
<1> DEFINE ahead(n) == At(FileOf(s), RankOf(s) + n * Forward(color))
           free(n)  == ahead(n) \in Squares /\ IsEmpty(b, ahead(n))
           step     == <<0, Forward(color)>>
<1>1. t \in PawnPushes(b, s, color) <=>
        \/ free(1) /\ t = ahead(1)
        \/ free(1) /\ RankOf(s) = PawnRank(color) /\ free(2) /\ t = ahead(2)
  BY DEF PawnPushes
<1>2. t \in Squares => \A n \in 1..2 : t = ahead(n) <=> Advances(b, s, t, n)
  BY Ahead DEF Advances, Own
<1>3. step \in Lines /\ Forward(color) \in {1, -1}
  BY DEF Forward, Lines
<1>4. FileOf(s) \in Lane /\ RankOf(s) \in Lane
  BY Coordinates
<1>5. ASSUME t \in Squares, Advances(b, s, t, 2)
      PROVE  Unobstructed(b, s, t) <=> free(1)
  <2>1. FileOf(t) \in Lane /\ RankOf(t) \in Lane
    BY <1>5, Coordinates
  <2>2. FileOf(t) = FileOf(s) /\ RankOf(t) - RankOf(s) = 2 * Forward(color)
    BY <1>5, Apart DEF Advances, Own
  <2>3. Reaches(s, step, 2, t)
    BY <1>3, <1>4, <2>1, <2>2 DEF Reaches, Lane
  <2>4. 2 \in 1..(Side - 1) /\ 1..(2 - 1) = {1}
    OBVIOUS
  <2>5. Unobstructed(b, s, t) <=> IsEmpty(b, Shift(s, step, 1))
    BY <1>3, <1>5, <2>3, <2>4, ClearOnRay
  <2>6. Shift(s, step, 1) = ahead(1)
    BY <1>3, <1>4 DEF Shift, File, Rank, Lane
  <2>7. ahead(1) \in Squares
    <3>1. RankOf(s) + 1 * Forward(color) \in Lane
      BY <1>3, <1>4, <2>1, <2>2 DEF Lane
    <3> QED BY <1>4, <3>1, AtCoordinates
  <2> QED BY <2>5, <2>6, <2>7
<1> HIDE DEF ahead, step
<1> QED BY <1>1, <1>2, <1>5

LEMMA PawnTargetsAsInChess ==
  ASSUME NEW b \in Boards, NEW s \in Squares, NEW color \in Colors, NEW t,
         Own(b, s, color), KindOf(b, s) = "Pawn"
  PROVE  t \in PawnTargets(b, s, color) <=> t \in Squares /\ CanMove(b, s, t)
<1>1. ColorOf(b, s) = color
  BY DEF Own
<1>2. t \in Neighbours(s, PawnSteps(color)) <=> t \in Squares /\ Attacks(b, s, t)
  BY <1>1, PawnNeighbours DEF Attacks
<1>3. t \in Squares =>
        (Own(b, t, Opponent(color)) <=> ~IsEmpty(b, t) /\ ~Own(b, t, color))
  BY OwnKinds DEF Own, Opponent, Colors
<1> QED BY <1>1, <1>2, <1>3, PushesAsInChess DEF PawnTargets, CanMove

LEMMA KnightNeighbours ==
  ASSUME NEW s \in Squares, NEW t \in Neighbours(s, KnightJumps)
  PROVE  t \in Squares /\ {Files(s, t), Ranks(s, t)} = {1, 2}
<1>1. PICK d \in KnightJumps : t \in Squares /\ Reaches(s, d, 1, t)
  BY Offsets, NeighboursReach
<1>2. /\ FileOf(s) \in Int /\ RankOf(s) \in Int /\ FileOf(t) \in Int /\ RankOf(t) \in Int
  BY <1>1, Coordinates DEF Lane
<1>3. \/ Files(s, t) = 1 /\ Ranks(s, t) = 2
      \/ Files(s, t) = 2 /\ Ranks(s, t) = 1
  BY <1>1, <1>2 DEF KnightJumps, Reaches, Files, Ranks, Distance
<1> QED BY <1>1, <1>3

LEMMA PieceTargetsAsInChess ==
  ASSUME NEW b \in Boards, NEW s \in Squares, NEW t, ~IsEmpty(b, s), KindOf(b, s) # "Pawn"
  PROVE  /\ t \in PieceTargets(b, s) => t \in Squares /\ CanMove(b, s, t)
         /\ KindOf(b, s) # "Knight" /\ t \in Squares /\ CanMove(b, s, t)
              => t \in PieceTargets(b, s)
<1>1. KindOf(b, s) \in Kinds
  BY OwnKinds
<1>2. CanMove(b, s, t) <=> Attacks(b, s, t) /\ ~Own(b, t, ColorOf(b, s))
  BY DEF CanMove
<1>3. CASE KindOf(b, s) = "Knight"
  BY <1>2, <1>3, KnightNeighbours DEF PieceTargets, Attacks
<1>4. CASE KindOf(b, s) = "King"
  BY <1>2, <1>4, KingNeighbours DEF PieceTargets, Attacks
<1>5. CASE KindOf(b, s) = "Bishop"
  BY <1>2, <1>5, DiagonalsInSight DEF PieceTargets, Attacks
<1>6. CASE KindOf(b, s) = "Rook"
  BY <1>2, <1>6, LinesInSight DEF PieceTargets, Attacks
<1>7. CASE KindOf(b, s) = "Queen"
  <2>1. Attacks(b, s, t) <=> (Straight(s, t) \/ Diagonal(s, t)) /\ Unobstructed(b, s, t)
    BY <1>7 DEF Attacks
  <2>2. t \in PieceTargets(b, s) <=>
          t \in InSight(b, s, Lines \cup Diagonals) /\ ~Own(b, t, ColorOf(b, s))
    BY <1>7 DEF PieceTargets
  <2> QED BY <1>2, <2>1, <2>2, QueenInSight, LinesInSight, DiagonalsInSight
<1> QED BY <1>1, <1>3, <1>4, <1>5, <1>6, <1>7 DEF Kinds

LEMMA PseudoLegalAsInChess ==
  ASSUME NEW b \in Boards, NEW s, NEW t
  PROVE  /\ \A p : IsPseudoLegal(b, Move(s, t, p)) =>
               /\ s \in Squares /\ t \in Squares /\ Own(b, s, b.active) /\ CanMove(b, s, t)
               /\ p \in Promotions
               /\ IsPseudoLegal(b, Move(s, t, "Queen"))
         /\ s \in Squares /\ t \in Squares /\ Own(b, s, b.active) /\ CanMove(b, s, t)
              /\ KindOf(b, s) # "Knight"
              => IsPseudoLegal(b, Move(s, t, "Queen"))
<1>1. b.active \in Colors
  BY DEF Boards
<1>2. CASE s \in Squares /\ Own(b, s, b.active) /\ KindOf(b, s) = "Pawn"
  <2>1. \A p : Move(s, t, p) \in MovesFrom(b, s) <=>
          /\ t \in PawnTargets(b, s, b.active)
          /\ p \in IF RankOf(t) = LastRank(b.active) THEN Promotions ELSE {"Queen"}
    <3> DEFINE pieces(to) == IF RankOf(to) = LastRank(b.active) THEN Promotions ELSE {"Queen"}
               moves(to)  == {Move(s, to, q) : q \in pieces(to)}
    <3>1. MovesFrom(b, s) = UNION {moves(to) : to \in PawnTargets(b, s, b.active)}
      BY <1>2, Zenon DEF MovesFrom
    <3>2. \A to, p, q : Move(s, t, p) = Move(s, to, q) <=> t = to /\ p = q
      BY DEF Move
    <3>3. \A to, p : Move(s, t, p) \in moves(to) <=> t = to /\ p \in pieces(to)
      BY <3>2
    <3> HIDE DEF moves, pieces
    <3>4. \A p : Move(s, t, p) \in MovesFrom(b, s) <=>
            t \in PawnTargets(b, s, b.active) /\ p \in pieces(t)
      BY <3>1, <3>3
    <3> QED BY <3>4 DEF pieces
  <2>2. t \in PawnTargets(b, s, b.active) <=> t \in Squares /\ CanMove(b, s, t)
    BY <1>1, <1>2, PawnTargetsAsInChess
  <2> QED BY <1>2, <2>1, <2>2 DEF IsPseudoLegal, Move, Promotions
<1>3. CASE s \in Squares /\ Own(b, s, b.active) /\ KindOf(b, s) # "Pawn"
  <2>1. \A p : Move(s, t, p) \in MovesFrom(b, s) <=> t \in PieceTargets(b, s) /\ p = "Queen"
    BY <1>3 DEF MovesFrom, Move
  <2> QED BY <1>3, <2>1, PieceTargetsAsInChess DEF IsPseudoLegal, Move, Promotions, Own
<1>4. CASE ~(s \in Squares /\ Own(b, s, b.active))
  BY <1>4 DEF IsPseudoLegal, MovesFrom, Move
<1> QED BY <1>2, <1>3, <1>4

-----------------------------------------------------------------------------
(* Checks: the code's answer for a king is that of chess; only a knight    *)
(* may be missed.                                                          *)
LEMMA AttackersInChess ==
  ASSUME NEW b \in Boards, NEW k \in Squares, NEW by \in Colors, IsSquareAttacked(b, k, by)
  PROVE  \E s \in Squares : Own(b, s, by) /\ Attacks(b, s, k)
<1>1. Opponent(by) \in Colors
  BY DEF Opponent, Colors
<1>2. PICK s \in Squares : Own(b, s, by) /\
          \/ KindOf(b, s) = "Pawn" /\ s \in Neighbours(k, PawnSteps(Opponent(by)))
          \/ KindOf(b, s) = "Knight" /\ s \in Neighbours(k, KnightJumps)
          \/ KindOf(b, s) = "King" /\ s \in Neighbours(k, Lines \cup Diagonals)
          \/ KindOf(b, s) \in {"Bishop", "Queen"} /\ s \in InSight(b, k, Diagonals)
          \/ KindOf(b, s) \in {"Rook", "Queen"} /\ s \in InSight(b, k, Lines)
  BY <1>1, NeighboursAreSquares DEF IsSquareAttacked, Own
<1>3. CASE KindOf(b, s) = "Knight"
  <2>1. {Files(k, s), Ranks(k, s)} = {1, 2}
    BY <1>2, <1>3, KnightNeighbours
  <2>2. Files(k, s) = Files(s, k) /\ Ranks(k, s) = Ranks(s, k)
    BY Apart
  <2> QED BY <1>2, <1>3, <2>1, <2>2 DEF Attacks
<1>4. CASE KindOf(b, s) # "Knight"
  BY <1>2, <1>4, AttackerSeen
<1> QED BY <1>3, <1>4

LEMMA CheckAsInChess ==
  ASSUME NEW b \in Boards, NEW color \in Colors, NEW k \in Squares,
         Found(b, "King", color) = {k}
  PROVE  /\ IsInCheck(b, color) => InCheck(b, color)
         /\ NoKnights(b, Opponent(color)) => (IsInCheck(b, color) <=> InCheck(b, color))
<1>1. Opponent(color) \in Colors
  BY DEF Opponent, Colors
<1>2. (CHOOSE q \in {k} : \A s \in {k} : q <= s) = k
  BY DEF Squares
<1>3. IsInCheck(b, color) <=> IsSquareAttacked(b, k, Opponent(color))
  BY <1>2 DEF IsInCheck
<1>4. InCheck(b, color) <=> \E s \in Squares : Own(b, s, Opponent(color)) /\ Attacks(b, s, k)
  BY DEF InCheck
<1> QED BY <1>1, <1>3, <1>4, AttackersInChess, AttackedAsInChess

(* Boards that are alike for the king of a colour: the same squares are    *)
(* taken, by the same pieces where they are the opponent's.                *)
Alike(b, c, color) ==
  /\ \A q \in Squares : /\ IsEmpty(b, q) <=> IsEmpty(c, q)
                        /\ Own(b, q, Opponent(color)) <=> Own(c, q, Opponent(color))
                        /\ Own(b, q, Opponent(color)) => b.squares[q] = c.squares[q]
  /\ Found(b, "King", color) = Found(c, "King", color)

LEMMA AlikeInCheck ==
  ASSUME NEW b, NEW c, NEW color, Alike(b, c, color)
  PROVE  InCheck(b, color) <=> InCheck(c, color)
<1>1. ASSUME NEW s \in Squares, NEW k \in Squares, Own(b, s, Opponent(color))
      PROVE  Attacks(b, s, k) <=> Attacks(c, s, k)
  <2>1. KindOf(b, s) = KindOf(c, s) /\ ColorOf(b, s) = ColorOf(c, s)
    BY <1>1 DEF Alike, KindOf, ColorOf
  <2>2. Unobstructed(b, s, k) <=> Unobstructed(c, s, k)
    BY DEF Alike, Unobstructed
  <2> QED BY <2>1, <2>2 DEF Attacks
<1>2. \A k \in Found(b, "King", color) : k \in Squares
  BY DEF Found
<1>3. Found(b, "King", color) = Found(c, "King", color)
  BY DEF Alike
<1>4. \A s \in Squares : Own(b, s, Opponent(color)) <=> Own(c, s, Opponent(color))
  BY DEF Alike
<1> QED BY <1>1, <1>2, <1>3, <1>4 DEF InCheck

-----------------------------------------------------------------------------
(* A move, put down as chess does or as a trial does.                      *)
Put(b, s, t, piece) == [b.squares EXCEPT ![s] = Empty, ![t] = piece]

LEMMA PutBoard ==
  ASSUME NEW b \in Boards, NEW s \in Squares, NEW t \in Squares, NEW piece \in Pieces
  PROVE  /\ Put(b, s, t, piece) \in [Squares -> Pieces \cup {Empty}]
         /\ \A q \in Squares : Put(b, s, t, piece)[q] =
              IF q = t THEN piece ELSE IF q = s THEN Empty ELSE b.squares[q]
<1>1. b.squares \in [Squares -> Pieces \cup {Empty}]
  BY DEF Boards
<1> QED BY <1>1 DEF Put

\* What a move of a colour puts down: what it takes up, a king only for a king.
Lands(b, s, piece) ==
  /\ piece \in Pieces
  /\ piece.color = ColorOf(b, s)
  /\ piece.kind = "King" <=> KindOf(b, s) = "King"

LEMMA PutPieces ==
  ASSUME NEW b \in Boards, NEW s \in Squares, NEW t \in Squares, NEW piece, NEW c \in Boards,
         NEW color \in Colors, Own(b, s, color), ~Own(b, t, color),
         Lands(b, s, piece), c.squares = Put(b, s, t, piece)
  PROVE  /\ \A q \in Squares :
              /\ IsEmpty(c, q) <=> q # t /\ (q = s \/ IsEmpty(b, q))
              /\ Own(c, q, color) <=> q = t \/ (q # s /\ Own(b, q, color))
              /\ Own(c, q, Opponent(color)) <=> q # t /\ Own(b, q, Opponent(color))
              /\ q \notin {s, t} => c.squares[q] = b.squares[q]
         /\ Found(c, "King", Opponent(color)) = Found(b, "King", Opponent(color)) \ {t}
         /\ Found(c, "King", color) = IF KindOf(b, s) = "King"
                                      THEN (Found(b, "King", color) \ {s}) \cup {t}
                                      ELSE Found(b, "King", color)
<1>1. \A q \in Squares :
        c.squares[q] = IF q = t THEN piece ELSE IF q = s THEN Empty ELSE b.squares[q]
  BY PutBoard DEF Lands
<1>2. /\ piece \in Pieces /\ piece.color = color /\ piece # Empty
      /\ piece.kind = "King" <=> KindOf(b, s) = "King"
  BY DEF Lands, Own, Pieces, Empty, Kinds, Piece
<1>3. Opponent(color) # color
  BY DEF Opponent
<1>4. \A q \in Squares :
        /\ IsEmpty(c, q) <=> q # t /\ (q = s \/ IsEmpty(b, q))
        /\ Own(c, q, color) <=> q = t \/ (q # s /\ Own(b, q, color))
        /\ Own(c, q, Opponent(color)) <=> q # t /\ Own(b, q, Opponent(color))
        /\ q \notin {s, t} => c.squares[q] = b.squares[q]
  <2> SUFFICES ASSUME NEW q \in Squares
               PROVE  /\ IsEmpty(c, q) <=> q # t /\ (q = s \/ IsEmpty(b, q))
                      /\ Own(c, q, color) <=> q = t \/ (q # s /\ Own(b, q, color))
                      /\ Own(c, q, Opponent(color)) <=> q # t /\ Own(b, q, Opponent(color))
                      /\ q \notin {s, t} => c.squares[q] = b.squares[q]
    OBVIOUS
  <2>1. CASE q = t
    BY <1>1, <1>2, <1>3, <2>1 DEF IsEmpty, Own, ColorOf
  <2>2. CASE q # t /\ q = s
    <3>1. c.squares[q] = Empty /\ ~IsEmpty(b, s) /\ ColorOf(b, s) = color
      BY <1>1, <2>2 DEF Own
    <3> QED BY <1>3, <2>2, <3>1 DEF IsEmpty, Own
  <2>3. CASE q \notin {s, t}
    BY <1>1, <2>3 DEF IsEmpty, Own, ColorOf
  <2> QED BY <2>1, <2>2, <2>3
<1>5. /\ \A q \in Squares, d \in Colors :
           b.squares[q] = Piece("King", d) <=> Own(b, q, d) /\ KindOf(b, q) = "King"
      /\ \A q \in Squares, d \in Colors :
           c.squares[q] = Piece("King", d) <=> Own(c, q, d) /\ KindOf(c, q) = "King"
  BY OwnKinds DEF Own, Piece, IsEmpty, Empty, KindOf, ColorOf
<1>6. Opponent(color) \in Colors
  BY DEF Opponent, Colors
<1>7. s # t /\ \A q \in Squares : Own(b, q, Opponent(color)) => q # s
  BY <1>3 DEF Own
<1>8. /\ \A q \in Squares : KindOf(c, q) = IF q = t THEN piece.kind
                                  ELSE IF q = s THEN "None" ELSE KindOf(b, q)
  BY <1>1 DEF KindOf, Empty, Piece
<1>9. \A q \in Squares : q \in Found(c, "King", Opponent(color)) <=>
                          q \in Found(b, "King", Opponent(color)) /\ q # t
  BY <1>4, <1>5, <1>6, <1>7, <1>8 DEF Found
<1>10. \A q \in Squares : q \in Found(c, "King", color) <=>
         \/ q = t /\ KindOf(b, s) = "King"
         \/ q # s /\ q \in Found(b, "King", color)
  <2> SUFFICES ASSUME NEW q \in Squares
               PROVE  q \in Found(c, "King", color) <=>
                        \/ q = t /\ KindOf(b, s) = "King"
                        \/ q # s /\ q \in Found(b, "King", color)
    OBVIOUS
  <2>1. q \in Found(c, "King", color) <=> Own(c, q, color) /\ KindOf(c, q) = "King"
    BY <1>5 DEF Found
  <2>2. q \in Found(b, "King", color) <=> Own(b, q, color) /\ KindOf(b, q) = "King"
    BY <1>5 DEF Found
  <2>3. CASE q = t
    BY <1>2, <1>4, <1>7, <1>8, <2>1, <2>2, <2>3
  <2>4. CASE q # t
    BY <1>4, <1>8, <2>1, <2>2, <2>4
  <2> QED BY <2>3, <2>4
<1>11. Found(c, "King", color) = IF KindOf(b, s) = "King"
                                 THEN (Found(b, "King", color) \ {s}) \cup {t}
                                 ELSE Found(b, "King", color)
  <2>1. KindOf(b, s) # "King" => s \notin Found(b, "King", color)
    BY <1>5 DEF Found
  <2>2. Found(b, "King", color) \subseteq Squares /\ Found(c, "King", color) \subseteq Squares
    BY DEF Found
  <2> QED BY <1>10, <2>1, <2>2
<1>12. Found(c, "King", Opponent(color)) = Found(b, "King", Opponent(color)) \ {t}
  <2>1. /\ Found(b, "King", Opponent(color)) \subseteq Squares
        /\ Found(c, "King", Opponent(color)) \subseteq Squares
    BY DEF Found
  <2> QED BY <1>9, <2>1
<1> QED BY <1>4, <1>11, <1>12

LEMMA CanMoveAway ==
  ASSUME NEW b \in Boards, NEW s \in Squares, NEW t \in Squares, NEW color \in Colors,
         Own(b, s, color), CanMove(b, s, t)
  PROVE  s # t /\ ~Own(b, t, color)
  BY DEF CanMove, Own

LEMMA TriedLands ==
  ASSUME NEW b \in Boards, NEW s \in Squares, NEW t \in Squares, NEW p \in Promotions,
         Own(b, s, b.active)
  PROVE  /\ Tried(b, Move(s, t, p)) \in Boards
         /\ \E piece : Lands(b, s, piece) /\
              Tried(b, Move(s, t, p)).squares = Put(b, s, t, piece)
<1> DEFINE down == IF b.squares[s].kind = "Pawn" THEN Piece(p, b.squares[s].color)
                   ELSE b.squares[s]
<1>1. /\ b.squares[s] \in Pieces
      /\ b.squares \in [Squares -> Pieces \cup {Empty}]
      /\ b.active \in Colors
  BY DEF Own, IsEmpty, Boards
<1>2. Lands(b, s, down)
  BY <1>1 DEF Lands, Pieces, Piece, Promotions, Kinds, ColorOf, KindOf
<1>3. Tried(b, Move(s, t, p)) = [b EXCEPT !.squares = Put(b, s, t, down)]
  BY DEF Tried, Move, Put
<1>4. b = [squares |-> b.squares, active |-> b.active]
  BY DEF Boards
<1> HIDE DEF down
<1>5. /\ Tried(b, Move(s, t, p)).squares = Put(b, s, t, down)
      /\ Tried(b, Move(s, t, p)) = [squares |-> Put(b, s, t, down), active |-> b.active]
  BY <1>3, <1>4
<1>6. Tried(b, Move(s, t, p)) \in Boards
  BY <1>1, <1>2, <1>5, PutBoard DEF Lands, Boards
<1> QED BY <1>2, <1>5, <1>6

LEMMA MovedLands ==
  ASSUME NEW b \in Boards, NEW s \in Squares, NEW t \in Squares, Own(b, s, b.active)
  PROVE  /\ Moved(b, s, t) \in Boards
         /\ Moved(b, s, t).active = Opponent(b.active)
         /\ \E piece : /\ Lands(b, s, piece)
                       /\ Moved(b, s, t).squares = Put(b, s, t, piece)
                       /\ \/ piece = b.squares[s]
                          \/ piece.kind = "Queen" /\ KindOf(b, s) = "Pawn"
                       /\ piece.kind = "Pawn" => RankOf(t) # LastRank(b.active)
<1> DEFINE lands == IF b.squares[s].kind = "Pawn" /\ RankOf(t) = LastRank(b.squares[s].color)
                    THEN Piece("Queen", b.squares[s].color) ELSE b.squares[s]
<1>1. b.squares[s] \in Pieces /\ b.squares[s].color = b.active /\ Opponent(b.active) \in Colors
  BY DEF Own, ColorOf, IsEmpty, Boards, Opponent, Colors
<1>2. Lands(b, s, lands)
  BY <1>1 DEF Lands, Pieces, Piece, Kinds, ColorOf, KindOf
<1>3. /\ \/ lands = b.squares[s]
         \/ lands.kind = "Queen" /\ KindOf(b, s) = "Pawn"
      /\ lands.kind = "Pawn" => RankOf(t) # LastRank(b.active)
  <2>1. CASE b.squares[s].kind = "Pawn" /\ RankOf(t) = LastRank(b.squares[s].color)
    BY <2>1 DEF Piece, KindOf
  <2>2. CASE ~(b.squares[s].kind = "Pawn" /\ RankOf(t) = LastRank(b.squares[s].color))
    <3>1. lands = b.squares[s]
      BY <2>2
    <3> HIDE DEF lands
    <3> QED BY <1>1, <2>2, <3>1
  <2> QED BY <2>1, <2>2
<1>4. Moved(b, s, t) = [squares |-> Put(b, s, t, lands), active |-> Opponent(b.active)]
  BY DEF Moved, Put
<1> HIDE DEF lands
<1>5. Moved(b, s, t) \in Boards
  BY <1>1, <1>2, <1>4, PutBoard DEF Lands, Boards
<1> QED BY <1>2, <1>3, <1>4, <1>5

LEMMA TrialInCheck ==
  ASSUME NEW b \in Boards, NEW s \in Squares, NEW t \in Squares, NEW p \in Promotions,
         NEW k \in Squares, Found(b, "King", b.active) = {k},
         Own(b, s, b.active), CanMove(b, s, t)
  PROVE  /\ IsInCheck(Tried(b, Move(s, t, p)), b.active) => InCheck(Moved(b, s, t), b.active)
         /\ NoKnights(b, Opponent(b.active)) =>
              (IsInCheck(Tried(b, Move(s, t, p)), b.active) <=> InCheck(Moved(b, s, t), b.active))
<1> DEFINE color == b.active
           tried == Tried(b, Move(s, t, p))
           moved == Moved(b, s, t)
<1>1. color \in Colors /\ tried \in Boards /\ moved \in Boards
  BY TriedLands, MovedLands DEF Boards
<1>2. ~Own(b, t, color) /\ s # t
  BY <1>1, CanMoveAway
<1>3. PICK down : Lands(b, s, down) /\ tried.squares = Put(b, s, t, down)
  BY TriedLands
<1>4. PICK lands : Lands(b, s, lands) /\ moved.squares = Put(b, s, t, lands)
  BY MovedLands
<1> HIDE DEF color, tried, moved
<1>5. Own(b, s, color) /\ Found(b, "King", color) = {k}
  BY DEF color
<1>6. /\ \A q \in Squares :
           /\ IsEmpty(tried, q) <=> q # t /\ (q = s \/ IsEmpty(b, q))
           /\ Own(tried, q, Opponent(color)) <=> q # t /\ Own(b, q, Opponent(color))
           /\ q \notin {s, t} => tried.squares[q] = b.squares[q]
      /\ Found(tried, "King", color) = IF KindOf(b, s) = "King"
                                       THEN (Found(b, "King", color) \ {s}) \cup {t}
                                       ELSE Found(b, "King", color)
  BY <1>1, <1>2, <1>3, <1>5, PutPieces
<1>7. /\ \A q \in Squares :
           /\ IsEmpty(moved, q) <=> q # t /\ (q = s \/ IsEmpty(b, q))
           /\ Own(moved, q, Opponent(color)) <=> q # t /\ Own(b, q, Opponent(color))
           /\ q \notin {s, t} => moved.squares[q] = b.squares[q]
      /\ Found(moved, "King", color) = IF KindOf(b, s) = "King"
                                       THEN (Found(b, "King", color) \ {s}) \cup {t}
                                       ELSE Found(b, "King", color)
  BY <1>1, <1>2, <1>4, <1>5, PutPieces
<1>8. ~Own(b, s, Opponent(color))
  BY <1>1, <1>5 DEF Own, Opponent, Colors
<1>9. Alike(tried, moved, color)
  BY <1>6, <1>7, <1>8 DEF Alike
<1>10. \E h \in Squares : Found(tried, "King", color) = {h}
  <2>1. KindOf(b, s) = "King" => s = k
    <3>1. KindOf(b, s) = "King" => s \in Found(b, "King", color)
      BY <1>5, OwnKinds DEF Found, Own
    <3> QED BY <1>5, <3>1
  <2> QED BY <1>5, <1>6, <2>1
<1>11. NoKnights(b, Opponent(color)) => NoKnights(tried, Opponent(color))
  BY <1>6, <1>8 DEF NoKnights, KindOf
<1>12. InCheck(tried, color) <=> InCheck(moved, color)
  BY <1>9, AlikeInCheck
<1>13. /\ IsInCheck(tried, color) => InCheck(moved, color)
       /\ NoKnights(b, Opponent(color)) => (IsInCheck(tried, color) <=> InCheck(moved, color))
  BY <1>1, <1>10, <1>11, <1>12, CheckAsInChess
<1> QED BY <1>13 DEF color, tried, moved

LEMMA LegalAsInChess ==
  ASSUME NEW b \in Boards, NEW k \in Squares, Found(b, "King", b.active) = {k}, NEW s, NEW t
  PROVE  /\ NoKnights(b, Opponent(b.active)) =>
              \A p : IsLegal(b, Move(s, t, p)) => <<s, t>> \in LegalMoves(b)
         /\ NoKnights(b, b.active) /\ <<s, t>> \in LegalMoves(b) =>
              IsLegal(b, Move(s, t, "Queen"))
<1>1. <<s, t>> \in LegalMoves(b) <=>
        /\ s \in Squares /\ t \in Squares /\ Own(b, s, b.active) /\ CanMove(b, s, t)
        /\ ~InCheck(Moved(b, s, t), b.active)
  BY DEF LegalMoves
<1>2. ASSUME NoKnights(b, Opponent(b.active)), NEW p, IsLegal(b, Move(s, t, p))
      PROVE  <<s, t>> \in LegalMoves(b)
  <2>1. /\ s \in Squares /\ t \in Squares /\ Own(b, s, b.active) /\ CanMove(b, s, t)
        /\ p \in Promotions
    BY <1>2, PseudoLegalAsInChess DEF IsLegal
  <2>2. ~IsInCheck(Tried(b, Move(s, t, p)), b.active)
    BY <1>2 DEF IsLegal
  <2> QED BY <1>1, <1>2, <2>1, <2>2, TrialInCheck
<1>3. ASSUME NoKnights(b, b.active), <<s, t>> \in LegalMoves(b)
      PROVE  IsLegal(b, Move(s, t, "Queen"))
  <2>1. IsPseudoLegal(b, Move(s, t, "Queen"))
    BY <1>1, <1>3, PseudoLegalAsInChess DEF NoKnights
  <2>2. ~IsInCheck(Tried(b, Move(s, t, "Queen")), b.active)
    BY <1>1, <1>3, TrialInCheck DEF Promotions
  <2> QED BY <2>1, <2>2 DEF IsLegal
<1> QED BY <1>2, <1>3

LEMMA GeneratedMoves ==
  ASSUME NEW b, NEW m
  PROVE  /\ m \in GenerateMoves(b) =>
              /\ m = Move(m.from, m.to, m.promotion)
              /\ m \in MovesFrom(b, m.from) /\ m.from \in Squares
         /\ IsPseudoLegal(b, m) => m \in GenerateMoves(b)
<1>1. ASSUME NEW s, m \in MovesFrom(b, s)
      PROVE  \E t, p : m = Move(s, t, p)
  <2> DEFINE pieces(to) == IF RankOf(to) = LastRank(b.active) THEN Promotions ELSE {"Queen"}
             moves(to)  == {Move(s, to, q) : q \in pieces(to)}
  <2>1. CASE Own(b, s, b.active) /\ KindOf(b, s) = "Pawn"
    <3>1. MovesFrom(b, s) = UNION {moves(to) : to \in PawnTargets(b, s, b.active)}
      BY <2>1, Zenon DEF MovesFrom
    <3> HIDE DEF pieces
    <3> QED BY <1>1, <3>1
  <2>2. CASE Own(b, s, b.active) /\ KindOf(b, s) # "Pawn"
    <3>1. MovesFrom(b, s) = {Move(s, to, "Queen") : to \in PieceTargets(b, s)}
      BY <2>2 DEF MovesFrom
    <3> QED BY <1>1, <3>1
  <2>3. CASE ~Own(b, s, b.active)
    BY <1>1, <2>3 DEF MovesFrom
  <2> QED BY <2>1, <2>2, <2>3
<1>2. \A s, t, p : /\ Move(s, t, p).from = s
                   /\ Move(s, t, p).to = t
                   /\ Move(s, t, p).promotion = p
  BY DEF Move
<1>3. ASSUME m \in GenerateMoves(b)
      PROVE  /\ m = Move(m.from, m.to, m.promotion)
             /\ m \in MovesFrom(b, m.from) /\ m.from \in Squares
  <2>1. PICK s \in Squares : m \in MovesFrom(b, s)
    BY <1>3 DEF GenerateMoves
  <2>2. PICK t, p : m = Move(s, t, p)
    BY <1>1, <2>1
  <2> QED BY <1>2, <2>1, <2>2
<1>4. IsPseudoLegal(b, m) => m \in GenerateMoves(b)
  BY DEF IsPseudoLegal, GenerateMoves
<1> QED BY <1>3, <1>4

Accepted(b) == {<<m.from, m.to>> : m \in {n \in GenerateMoves(b) : IsLegal(b, n)}}

(* On a board with one king of the colour to move, of whatever size, what  *)
(* generateMoves and isLegal accept is allowed by chess if the opponent    *)
(* has no knight, and everything that chess allows is accepted if the side *)
(* to move has none.                                                       *)
THEOREM MovesAreChess ==
  ASSUME NEW b \in Boards, NEW k \in Squares, Found(b, "King", b.active) = {k}
  PROVE  /\ NoKnights(b, Opponent(b.active)) => Accepted(b) \subseteq LegalMoves(b)
         /\ NoKnights(b, b.active) => LegalMoves(b) \subseteq Accepted(b)
<1>1. ASSUME NoKnights(b, Opponent(b.active)), NEW move \in Accepted(b)
      PROVE  move \in LegalMoves(b)
  <2>1. PICK m \in GenerateMoves(b) : IsLegal(b, m) /\ move = <<m.from, m.to>>
    BY DEF Accepted
  <2>2. m = Move(m.from, m.to, m.promotion)
    BY GeneratedMoves
  <2> QED BY <1>1, <2>1, <2>2, LegalAsInChess
<1>2. ASSUME NoKnights(b, b.active), NEW move \in LegalMoves(b)
      PROVE  move \in Accepted(b)
  <2>1. move = <<move[1], move[2]>>
    BY DEF LegalMoves
  <2> DEFINE m == Move(move[1], move[2], "Queen")
  <2>2. IsLegal(b, m) /\ m.from = move[1] /\ m.to = move[2]
    BY <1>2, <2>1, LegalAsInChess DEF Move
  <2>3. m \in GenerateMoves(b)
    BY <2>2, GeneratedMoves DEF IsLegal
  <2> QED BY <2>1, <2>2, <2>3 DEF Accepted
<1> QED BY <1>1, <1>2

(* Rules::hasLegalMoves, and with it checkGameEnd, finds a move whenever   *)
(* chess has one, if the colour has no knight, and only then, if its       *)
(* opponent has none.                                                      *)
THEOREM StuckAsInChess ==
  ASSUME NEW b \in Boards, NEW k \in Squares, Found(b, "King", b.active) = {k}
  PROVE  /\ NoKnights(b, b.active) /\ LegalMoves(b) # {} => CheckGameEnd(b) = 0
         /\ NoKnights(b, Opponent(b.active)) /\ LegalMoves(b) = {} => CheckGameEnd(b) # 0
<1>1. [b EXCEPT !.active = b.active] = b
  BY DEF Boards
<1>2. HasLegalMoves(b, b.active) <=> Accepted(b) # {}
  <2>1. HasLegalMoves(b, b.active) <=> \E m \in GenerateMoves(b) : IsLegal(b, m)
    BY <1>1, Zenon DEF HasLegalMoves
  <2>2. Accepted(b) # {} <=> \E m \in GenerateMoves(b) : IsLegal(b, m)
    BY DEF Accepted
  <2> QED BY <2>1, <2>2
<1>3. CheckGameEnd(b) = 0 <=> Accepted(b) # {}
  BY <1>2 DEF CheckGameEnd
<1> QED BY <1>3, MovesAreChess
=============================================================================
