------------------------- MODULE FileWatches_proofs -------------------------
(***************************************************************************)
(* Proofs that the globs of a project cover the locations it has looked up *)
(* in vain, and that server, client and projects agree on what is watched, *)
(* so that a project hears of every file that it misses, but for those the *)
(* server does not tell it of: for any number of projects, updated at      *)
(* once, of locations, edits and refusals, until two projects have got the *)
(* same number.                                                            *)
(***************************************************************************)
EXTENDS FileWatches, TLAPS, SequenceTheorems, WellFoundedInduction

(***************************************************************************)
(* The globs.                                                              *)
(***************************************************************************)

\* Two files of one directory.
SameDirectory(l, k) ==
    /\ IsFileName(l) /\ IsFileName(k)
    /\ Len(l) = Len(k)
    /\ \A i \in 1 .. Len(l) - 1 : l[i] = k[i]

\* The first components of a location.
LEMMA PrefixProperties ==
    ASSUME NEW s \in Seq(STRING), NEW n \in 0 .. Len(s)
    PROVE  /\ SubSeq(s, 1, n) \in Seq(STRING) /\ Len(SubSeq(s, 1, n)) = n
           /\ \A i \in 1 .. n : SubSeq(s, 1, n)[i] = s[i]
<1>1. Len(s) \in Nat /\ n \in Nat
  BY LenProperties
<1>2. \A i \in 1 .. Len(s) : s[i] \in STRING
  BY ElementOfSeq
<1>3. /\ SubSeq(s, 1, n) \in Seq(STRING)
      /\ Len(SubSeq(s, 1, n)) = IF 1 <= n THEN n - 1 + 1 ELSE 0
      /\ \A i \in 1 .. n - 1 + 1 : SubSeq(s, 1, n)[i] = s[1 + i - 1]
  <2>1. 1 \in 1 .. Len(s) + 1 /\ n \in 1 - 1 .. Len(s)
    BY <1>1
  <2> QED BY <2>1, SubSeqProperties
<1>4. n - 1 + 1 = n /\ (1 <= n \/ n = 0)
  BY <1>1
<1>5. \A i \in 1 .. n : 1 + i - 1 = i
  BY <1>1
<1> QED BY <1>3, <1>4, <1>5

\* Files with the same front are in one directory.
LEMMA FrontsAgree ==
    ASSUME NEW l, NEW k, IsFileName(l), IsFileName(k), Front(l) = Front(k)
    PROVE  SameDirectory(l, k)
<1>1. l \in Seq(STRING) /\ k \in Seq(STRING) /\ l # <<>> /\ k # <<>>
  BY DEF IsFileName
<1>2. Len(l) \in Nat \ {0} /\ Len(k) \in Nat \ {0}
  BY <1>1, EmptySeq, LenProperties
<1>3. /\ Len(Front(l)) = Len(l) - 1 /\ \A i \in 1 .. Len(l) - 1 : Front(l)[i] = l[i]
      /\ Len(Front(k)) = Len(k) - 1 /\ \A i \in 1 .. Len(k) - 1 : Front(k)[i] = k[i]
  <2>1. /\ Len(l) - 1 \in 0 .. Len(l) /\ Len(k) - 1 \in 0 .. Len(k)
        /\ Front(l) = SubSeq(l, 1, Len(l) - 1) /\ Front(k) = SubSeq(k, 1, Len(k) - 1)
    BY <1>2 DEF Front
  <2> QED BY <1>1, <2>1, PrefixProperties
<1>4. Len(l) = Len(k)
  BY <1>2, <1>3
<1> QED BY <1>3, <1>4 DEF SameDirectory

\* How near files are to the root depends on their directory.
LEMMA RootsAgree ==
    ASSUME NEW l, NEW k, SameDirectory(l, k)
    PROVE  /\ Len(l) \in Nat \ {0}
           /\ perceivedOsRootLengthForWatching(l) \in 1 .. 4
           /\ \/ perceivedOsRootLengthForWatching(l) = perceivedOsRootLengthForWatching(k)
              \/ /\ Len(l) <= perceivedOsRootLengthForWatching(l) + 1
                 /\ Len(k) <= perceivedOsRootLengthForWatching(k) + 1
<1>1. Len(l) \in Nat \ {0} /\ Len(k) = Len(l)
  BY EmptySeq, LenProperties DEF SameDirectory, IsFileName
<1>2. OsRootLength(l) \in {1, 2} /\ OsRootLength(k) \in {1, 2}
  BY DEF OsRootLength
<1>3. /\ perceivedOsRootLengthForWatching(l) \in {OsRootLength(l), OsRootLength(l) + 1, OsRootLength(l) + 2}
      /\ perceivedOsRootLengthForWatching(k) \in {OsRootLength(k), OsRootLength(k) + 1, OsRootLength(k) + 2}
  BY DEF perceivedOsRootLengthForWatching
<1>4. /\ perceivedOsRootLengthForWatching(l) \in 1 .. 4 /\ perceivedOsRootLengthForWatching(k) \in 1 .. 4
      /\ perceivedOsRootLengthForWatching(l) >= OsRootLength(l)
      /\ perceivedOsRootLengthForWatching(k) >= OsRootLength(k)
  BY <1>2, <1>3
<1>5. CASE Len(l) <= 2
  BY <1>1, <1>4, <1>5
<1>6. CASE Len(l) > 2
  <2>1. 1 \in 1 .. Len(l) - 1 /\ 2 \in 1 .. Len(l) - 1
    BY <1>1, <1>6
  <2>2. l[1] = k[1] /\ l[2] = k[2]
    BY <2>1 DEF SameDirectory
  <2>3. OsRootLength(l) = OsRootLength(k) /\ isDosStyle(l) = isDosStyle(k)
    BY <1>1, <2>2 DEF OsRootLength, isDosStyle
  <2>4. CASE Len(l) <= OsRootLength(l) + 1
    BY <1>1, <1>2, <1>4, <2>3, <2>4
  <2>5. CASE Len(l) > OsRootLength(l) + 1
    <3>1. OsRootLength(l) + 1 \in 1 .. Len(l) - 1
      BY <1>1, <1>2, <2>5
    <3>2. l[OsRootLength(l) + 1] = k[OsRootLength(l) + 1]
      BY <3>1 DEF SameDirectory
    <3> QED BY <1>1, <1>4, <2>3, <3>2 DEF perceivedOsRootLengthForWatching
  <2> QED BY <1>1, <1>2, <2>4, <2>5
<1> QED BY <1>1, <1>5, <1>6

\* Whether and where a path passes through node_modules depends on the directory.
LEMMA ModulesAgree ==
    ASSUME NEW l, NEW k, SameDirectory(l, k)
    PROVE  /\ Indices(l, "node_modules") = Indices(k, "node_modules")
           /\ Indices(l, "node_modules") \subseteq 1 .. Len(l) - 1
<1>1. Len(l) \in Nat \ {0} /\ Len(k) = Len(l) /\ l \in Seq(STRING) /\ k \in Seq(STRING)
  BY RootsAgree DEF SameDirectory, IsFileName
<1>2. DOMAIN l = 1 .. Len(l) /\ DOMAIN k = 1 .. Len(l)
  BY <1>1, LenProperties
<1>3. l[Len(l)] # "node_modules" /\ k[Len(l)] # "node_modules"
  BY <1>1 DEF SameDirectory, IsFileName, Last
<1>4. \A i \in 1 .. Len(l) : i = Len(l) \/ i \in 1 .. Len(l) - 1
  BY <1>1
<1>5. \A i : /\ i \in Indices(l, "node_modules") => i \in 1 .. Len(l) - 1
             /\ i \in Indices(k, "node_modules") => i \in 1 .. Len(l) - 1
  BY <1>2, <1>3, <1>4 DEF Indices
<1>6. \A i \in 1 .. Len(l) - 1 : i \in Indices(l, "node_modules") <=> i \in Indices(k, "node_modules")
  <2>1. 1 .. Len(l) - 1 \subseteq 1 .. Len(l)
    BY <1>1
  <2> QED BY <1>2, <2>1 DEF Indices, SameDirectory
<1> QED BY <1>5, <1>6

\* So does whether it is too near to the root to be watched.
LEMMA NearnessAgrees ==
    ASSUME NEW l, NEW k, SameDirectory(l, k)
    PROVE  /\ NearRoot(l) = NearRoot(k)
           /\ ~NearRoot(l) => /\ perceivedOsRootLengthForWatching(l) = perceivedOsRootLengthForWatching(k)
                              /\ Len(l) > perceivedOsRootLengthForWatching(l) + 1
<1>1. Len(k) = Len(l)
  BY DEF SameDirectory
<1>2. CASE perceivedOsRootLengthForWatching(l) = perceivedOsRootLengthForWatching(k)
  BY <1>1, <1>2, RootsAgree, ModulesAgree DEF NearRoot
<1>3. CASE /\ Len(l) <= perceivedOsRootLengthForWatching(l) + 1
           /\ Len(k) <= perceivedOsRootLengthForWatching(k) + 1
  BY <1>3 DEF NearRoot
<1> QED BY <1>2, <1>3, RootsAgree

\* A directory is above all files of a directory or above none, if it is not one of them.
LEMMA PrefixesAgree ==
    ASSUME NEW l, NEW k, SameDirectory(l, k), NEW d \in Seq(STRING), d # l, IsPrefix(d, l)
    PROVE  Len(d) < Len(l) /\ IsPrefix(d, k)
<1>1. /\ l \in Seq(STRING) /\ k \in Seq(STRING) /\ Len(k) = Len(l)
      /\ Len(l) \in Nat /\ Len(d) \in Nat
  BY LenProperties DEF SameDirectory, IsFileName
<1>2. Len(d) <= Len(l) /\ SubSeq(d, 1, Len(d)) = SubSeq(l, 1, Len(d))
  BY DEF IsPrefix
<1>3. Len(d) # Len(l)
  BY <1>1, <1>2, SubSeqFull
<1>4. Len(d) \in 0 .. Len(l) /\ Len(d) < Len(l) /\ Len(d) \in 0 .. Len(k)
  BY <1>1, <1>2, <1>3
<1>5. SubSeq(l, 1, Len(d)) = SubSeq(k, 1, Len(d))
  <2>1. /\ SubSeq(l, 1, Len(d)) \in Seq(STRING) /\ Len(SubSeq(l, 1, Len(d))) = Len(d)
        /\ \A i \in 1 .. Len(d) : SubSeq(l, 1, Len(d))[i] = l[i]
    BY <1>1, <1>4, PrefixProperties
  <2>2. /\ SubSeq(k, 1, Len(d)) \in Seq(STRING) /\ Len(SubSeq(k, 1, Len(d))) = Len(d)
        /\ \A i \in 1 .. Len(d) : SubSeq(k, 1, Len(d))[i] = k[i]
    BY <1>1, <1>4, PrefixProperties
  <2>3. \A i \in 1 .. Len(d) : l[i] = k[i]
    BY <1>1, <1>4 DEF SameDirectory
  <2>4. \A i \in 1 .. Len(d) : SubSeq(l, 1, Len(d))[i] = SubSeq(k, 1, Len(d))[i]
    BY <2>1, <2>2, <2>3
  <2> QED BY <2>1, <2>2, <2>4, SeqEqual
<1> QED BY <1>1, <1>2, <1>4, <1>5 DEF IsPrefix

\* A part of the directory of a file is above the file.
LEMMA PrefixIsAbove ==
    ASSUME NEW l \in Seq(STRING), NEW n \in 0 .. Len(l) - 1
    PROVE  /\ Len(SubSeq(l, 1, n)) = n
           /\ IsPrefix(SubSeq(l, 1, n), l) /\ Len(l) > n
<1>1. Len(l) \in Nat /\ n \in Nat /\ n <= Len(l) - 1
  BY LenProperties
<1>2. n \in 0 .. Len(l) /\ n < Len(l)
  BY <1>1
<1>3. SubSeq(l, 1, n) \in Seq(STRING) /\ Len(SubSeq(l, 1, n)) = n
  BY <1>2, PrefixProperties
<1>4. SubSeq(SubSeq(l, 1, n), 1, n) = SubSeq(l, 1, n)
  BY <1>3, SubSeqFull
<1> QED BY <1>1, <1>2, <1>3, <1>4 DEF IsPrefix

\* The greater of two numbers.
LEMMA MaxOfTwo ==
    ASSUME NEW a \in Nat, NEW b \in Nat
    PROVE  Max({a, b}) = IF a >= b THEN a ELSE b
<1> DEFINE m == IF a >= b THEN a ELSE b
<1>1. m \in {a, b} /\ \A y \in {a, b} : m >= y
  OBVIOUS
<1>2. \A x \in {a, b} : (\A y \in {a, b} : x >= y) => x = m
  OBVIOUS
<1> HIDE DEF m
<1>3. Max({a, b}) = m
  BY <1>1, <1>2 DEF Max
<1> QED BY <1>3 DEF m

\* A set of numbers that is not empty has its minimum.
LEMMA MinIsMember ==
    ASSUME NEW S \in SUBSET Nat, S # {}
    PROVE  Min(S) \in S
<1>1. \E x \in S : \A y \in S : x <= y
  <2>1. \E x \in S : \A y \in S : <<y, x>> \notin OpToRel(<, Nat)
    BY NatLessThanWellFounded, WFMin, Zenon
  <2>2. ASSUME NEW x \in S, NEW y \in S, <<y, x>> \notin OpToRel(<, Nat)
        PROVE  x <= y
    <3>1. ~(y < x)
      BY <2>2, Zenon DEF OpToRel
    <3> QED BY <3>1
  <2> QED BY <2>1, <2>2
<1> QED BY <1>1 DEF Min

\* "we can avoid duplicate work by only taking one file per dir, since their outputs
\* will always be the same" (watch.go): the files of a directory that were not found have
\* the same directory watched for them.
THEOREM OneFilePerDirectory ==
    ASSUME NEW l, NEW k, SameDirectory(l, k), NEW d \in Seq(STRING), d # l, d # k
    PROVE  getDirectoryToWatchFailedLookupLocation(l, d) = getDirectoryToWatchFailedLookupLocation(k, d)
<1>1. SameDirectory(k, l)
  BY DEF SameDirectory
<1>2. IsPrefix(d, l) = IsPrefix(d, k)
  BY <1>1, PrefixesAgree DEF IsPrefix
<1>3. Len(l) = Len(k) /\ l \in Seq(STRING) /\ k \in Seq(STRING) /\ Len(l) \in Nat \ {0}
  BY RootsAgree DEF SameDirectory, IsFileName
<1>4. ASSUME NEW n \in 0 .. Len(l) - 1
      PROVE  SubSeq(l, 1, n) = SubSeq(k, 1, n)
  <2>1. n \in 0 .. Len(l) /\ n \in 0 .. Len(k)
    BY <1>3
  <2>2. /\ SubSeq(l, 1, n) \in Seq(STRING) /\ Len(SubSeq(l, 1, n)) = n
        /\ \A i \in 1 .. n : SubSeq(l, 1, n)[i] = l[i]
        /\ SubSeq(k, 1, n) \in Seq(STRING) /\ Len(SubSeq(k, 1, n)) = n
        /\ \A i \in 1 .. n : SubSeq(k, 1, n)[i] = k[i]
    BY <1>3, <2>1, PrefixProperties
  <2>3. \A i \in 1 .. n : l[i] = k[i]
    BY <1>3 DEF SameDirectory
  <2>4. \A i \in 1 .. Len(SubSeq(l, 1, n)) : SubSeq(l, 1, n)[i] = SubSeq(k, 1, n)[i]
    BY <2>2, <2>3
  <2> QED BY <2>2, <2>4, SeqEqual
<1>5. CASE NearRoot(l)
  BY <1>5, NearnessAgrees DEF getDirectoryToWatchFailedLookupLocation
<1>6. CASE ~NearRoot(l)
  <2>1. /\ ~NearRoot(k)
        /\ perceivedOsRootLengthForWatching(l) = perceivedOsRootLengthForWatching(k)
        /\ Len(l) > perceivedOsRootLengthForWatching(l) + 1
        /\ perceivedOsRootLengthForWatching(l) \in Nat
    BY <1>6, NearnessAgrees, RootsAgree
  <2>2. InRootDirectory(l, d) = InRootDirectory(k, d)
    <3>1. CASE Len(l) > Len(d) + 1
      <4>1. Len(d) \in Nat
        BY LenProperties
      <4>2. Max({Len(d), perceivedOsRootLengthForWatching(l)}) + 1 \in 0 .. Len(l) - 1
        BY <1>3, <2>1, <3>1, <4>1, MaxOfTwo
      <4> QED BY <1>3, <1>4, <2>1, <3>1, <4>2 DEF InRootDirectory
    <3>2. CASE ~(Len(l) > Len(d) + 1)
      BY <1>3, <3>2 DEF InRootDirectory
    <3> QED BY <3>1, <3>2
  <2>3. getDirectoryToWatchFromFailedLookupLocationDirectory(l)
            = getDirectoryToWatchFromFailedLookupLocationDirectory(k)
    <3>1. /\ Indices(l, "node_modules") = Indices(k, "node_modules")
          /\ Indices(l, "node_modules") \subseteq 1 .. Len(l) - 1
      BY ModulesAgree
    <3>2. CASE Indices(l, "node_modules") = {}
      <4>1. Len(l) - 1 \in 0 .. Len(l) - 1
        BY <1>3
      <4> QED BY <1>3, <1>4, <3>1, <3>2, <4>1 DEF getDirectoryToWatchFromFailedLookupLocationDirectory
    <3>3. CASE Indices(l, "node_modules") # {}
      <4>1. Min(Indices(l, "node_modules")) \in 0 .. Len(l) - 1
        BY <1>3, <3>1, <3>3, MinIsMember
      <4> QED BY <1>4, <3>1, <3>3, <4>1 DEF getDirectoryToWatchFromFailedLookupLocationDirectory
    <3> QED BY <3>2, <3>3
  <2> QED BY <1>2, <1>6, <2>1, <2>2, <2>3 DEF getDirectoryToWatchFailedLookupLocation
<1> QED BY <1>5, <1>6

\* The directory that is watched for a file has it: in itself, or below if that is
\* watched too.
LEMMA DirectoryHasTheFile ==
    ASSUME NEW l, IsFileName(l), NEW d \in Seq(STRING), d # l, ~NearRoot(l)
    PROVE  LET w == getDirectoryToWatchFailedLookupLocation(l, d)
           IN  /\ w # NoWatch
               /\ w.recursive \in BOOLEAN
               /\ IsPrefix(w.dir, l) /\ Len(l) > Len(w.dir)
               /\ w.recursive \/ Len(l) = Len(w.dir) + 1
<1>1. SameDirectory(l, l)
  BY DEF SameDirectory
<1>2. /\ l \in Seq(STRING) /\ Len(l) \in Nat \ {0}
      /\ perceivedOsRootLengthForWatching(l) \in 1 .. 4
      /\ Len(l) > perceivedOsRootLengthForWatching(l) + 1
  BY <1>1, NearnessAgrees, RootsAgree DEF IsFileName
<1>3. ASSUME NEW n \in 1 .. Len(l) - 1, NEW w,
             \/ w = [dir |-> SubSeq(l, 1, n), recursive |-> TRUE]
             \/ w = [dir |-> SubSeq(l, 1, n), recursive |-> FALSE] /\ n = Len(l) - 1
      PROVE  /\ w # NoWatch /\ w.recursive \in BOOLEAN
             /\ IsPrefix(w.dir, l) /\ Len(l) > Len(w.dir)
             /\ w.recursive \/ Len(l) = Len(w.dir) + 1
  <2>1. n \in 0 .. Len(l) - 1 /\ n # 0
    BY <1>2
  <2>2. Len(SubSeq(l, 1, n)) = n /\ IsPrefix(SubSeq(l, 1, n), l) /\ Len(l) > n
    BY <1>2, <2>1, PrefixIsAbove
  <2>3. SubSeq(l, 1, n) # <<>>
    BY <2>1, <2>2
  <2>4. w.dir = SubSeq(l, 1, n) /\ w.recursive \in BOOLEAN
    <3>1. ASSUME NEW r \in BOOLEAN, w = [dir |-> SubSeq(l, 1, n), recursive |-> r]
          PROVE  w.dir = SubSeq(l, 1, n) /\ w.recursive \in BOOLEAN
      BY <3>1
    <3> QED BY <1>3, <3>1
  <2>5. w.recursive = TRUE \/ n = Len(l) - 1
    BY <1>3
  <2>6. w # NoWatch
    BY <2>3, <2>4 DEF NoWatch
  <2>7. n = Len(l) - 1 => Len(l) = Len(w.dir) + 1
    BY <1>2, <2>2, <2>4
  <2> QED BY <2>2, <2>4, <2>5, <2>6, <2>7
<1>4. CASE canWatchDirectoryOrFile(d) /\ IsPrefix(d, l)
  <2>1. getDirectoryToWatchFailedLookupLocation(l, d) = InRootDirectory(l, d)
    BY <1>4 DEF getDirectoryToWatchFailedLookupLocation
  <2>2. Len(d) < Len(l) /\ Len(d) \in Nat /\ Len(d) >= 2
    BY <1>1, <1>4, PrefixesAgree, LenProperties DEF canWatchDirectoryOrFile
  <2>3. CASE Len(l) > Len(d) + 1
    <3>1. Max({Len(d), perceivedOsRootLengthForWatching(l)}) + 1 \in 1 .. Len(l) - 1
      BY <1>2, <2>2, <2>3, MaxOfTwo
    <3>2. InRootDirectory(l, d)
              = [dir |-> SubSeq(l, 1, Max({Len(d), perceivedOsRootLengthForWatching(l)}) + 1),
                 recursive |-> TRUE]
      BY <2>3 DEF InRootDirectory
    <3> QED BY <2>1, <3>1, <3>2, <1>3
  <2>4. CASE ~(Len(l) > Len(d) + 1)
    <3>1. InRootDirectory(l, d) = [dir |-> d, recursive |-> FALSE] /\ Len(l) = Len(d) + 1
      BY <1>2, <2>2, <2>4 DEF InRootDirectory
    <3>2. d # <<>>
      BY <2>2
    <3> QED BY <1>4, <2>1, <2>2, <3>1, <3>2 DEF NoWatch
  <2> QED BY <2>3, <2>4
<1>5. CASE ~(canWatchDirectoryOrFile(d) /\ IsPrefix(d, l))
  <2>1. getDirectoryToWatchFailedLookupLocation(l, d)
            = getDirectoryToWatchFromFailedLookupLocationDirectory(l)
    BY <1>5 DEF getDirectoryToWatchFailedLookupLocation
  <2>2. Indices(l, "node_modules") \subseteq 1 .. Len(l) - 1
    BY <1>1, ModulesAgree
  <2>3. CASE Indices(l, "node_modules") = {}
    <3>1. getDirectoryToWatchFromFailedLookupLocationDirectory(l)
              = [dir |-> SubSeq(l, 1, Len(l) - 1), recursive |-> FALSE]
      BY <2>3 DEF getDirectoryToWatchFromFailedLookupLocationDirectory
    <3>2. Len(l) - 1 \in 1 .. Len(l) - 1 /\ Len(l) = Len(l) - 1 + 1
      BY <1>2
    <3> QED BY <2>1, <3>1, <3>2, <1>3
  <2>4. CASE Indices(l, "node_modules") # {}
    <3>1. Min(Indices(l, "node_modules")) \in 1 .. Len(l) - 1
      BY <1>2, <2>2, <2>4, MinIsMember
    <3>2. getDirectoryToWatchFromFailedLookupLocationDirectory(l)
              = [dir |-> SubSeq(l, 1, Min(Indices(l, "node_modules"))), recursive |-> TRUE]
      BY <2>4 DEF getDirectoryToWatchFromFailedLookupLocationDirectory
    <3> QED BY <2>1, <3>1, <3>2, <1>3
  <2> QED BY <2>3, <2>4
<1> QED BY <1>4, <1>5

\* The globs cover every file that was not found, but for those too near to the root.
THEOREM GlobsCover ==
    ASSUME NEW ls, \A l \in ls : IsFileName(l), NEW d \in Seq(STRING), d \notin ls,
           NEW l \in ls, ~NearRoot(l)
    PROVE  Watched(l, resolutionLookupGlobs(ls, d))
<1> DEFINE Rep(x) == CHOOSE k \in ls : Front(k) = x
           watches == {getDirectoryToWatchFailedLookupLocation(Rep(x), d) :
                           x \in {Front(k) : k \in ls}} \ {NoWatch}
           k0 == Rep(Front(l))
           w == getDirectoryToWatchFailedLookupLocation(l, d)
           g == [dir |-> w.dir, recursive |-> [dir |-> w.dir, recursive |-> TRUE] \in watches]
<1>1. k0 \in ls /\ Front(k0) = Front(l)
  OBVIOUS
<1>2. getDirectoryToWatchFailedLookupLocation(k0, d) = w
  <2>1. SameDirectory(k0, l)
    BY <1>1, FrontsAgree
  <2>2. d # k0 /\ d # l
    BY <1>1
  <2> HIDE DEF k0, w
  <2>3. getDirectoryToWatchFailedLookupLocation(k0, d) = getDirectoryToWatchFailedLookupLocation(l, d)
    BY <2>1, <2>2, OneFilePerDirectory
  <2> QED BY <2>3 DEF w
<1>3. /\ w # NoWatch /\ w.recursive \in BOOLEAN
      /\ IsPrefix(w.dir, l) /\ Len(l) > Len(w.dir)
      /\ w.recursive \/ Len(l) = Len(w.dir) + 1
  BY DirectoryHasTheFile
<1>4. w \in watches
  <2>1. w \in {getDirectoryToWatchFailedLookupLocation(Rep(x), d) : x \in {Front(k) : k \in ls}}
    BY <1>2
  <2> HIDE DEF w
  <2> QED BY <1>3, <2>1
<1>5. \E r \in BOOLEAN : w = [dir |-> w.dir, recursive |-> r] /\ r = w.recursive
  BY DEF getDirectoryToWatchFailedLookupLocation, InRootDirectory, NoWatch,
         getDirectoryToWatchFromFailedLookupLocationDirectory
<1>6. resolutionLookupGlobs(ls, d)
          = {[dir |-> x, recursive |-> [dir |-> x, recursive |-> TRUE] \in watches] :
                 x \in {v.dir : v \in watches}}
  BY DEF resolutionLookupGlobs
<1> HIDE DEF w, watches
<1>7. g \in resolutionLookupGlobs(ls, d)
  BY <1>4, <1>6
<1>8. w.recursive => g.recursive
  <2>1. w.recursive => w = [dir |-> w.dir, recursive |-> TRUE]
    BY <1>5
  <2> QED BY <1>4, <2>1
<1>9. Matches(g, l)
  BY <1>3, <1>8 DEF Matches
<1> QED BY <1>7, <1>9 DEF Watched

(***************************************************************************)
(* The strengthening.                                                      *)
(***************************************************************************)

Wire == {"count", "number", "send", "await"}

CallRecord == [asks : {"nothing", "watch", "unwatch"}, handle : Int, seq : Nat]

TypeInv ==
    /\ root \in Roots
    /\ lookups \in [Project -> Lookups] /\ dirty \in [Project -> Marks]
    /\ failed \in [Project -> SUBSET Location] /\ data \in [Project -> SUBSET Location]
    /\ globs = [p \in Project |-> globs[p]]
    /\ watcherID \in [Project -> Int]
    /\ stage \in [Project -> Stages]
    /\ call \in [Project -> CallRecord]
    /\ nextWatcher \in Nat /\ clientSeq \in Nat
    /\ delivered \in [Project -> {"none", "done", "error"}]
    /\ late \in [Project -> SUBSET Location] /\ bypassed \in [Project -> SUBSET Location]
    /\ containingProjects \in [Location -> SUBSET Project]
    /\ todo \subseteq Project /\ marking \subseteq Project /\ events \subseteq Location

\* What a project asks for: the handle it has is to go, or a new one to come.
Asking(p) ==
    \/ call[p].asks = "watch" /\ call[p].handle = nextWatcher /\ watcherID[p] = None
    \/ call[p].asks = "unwatch" /\ call[p].handle = watcherID[p] /\ watcherID[p] # None

AskInv ==
    \A p \in Project :
        /\ stage[p] \in Wire => Asking(p)
        /\ call[p].asks = "watch" => stage[p] \in Wire

\* Every id is of one request, which one project waits for, whether it is on its way to the
\* client or its response is on its way back.
Waits(p, i) == At(p, "await") /\ delivered[p] = "none" /\ call[p].seq = i

RequestInv ==
    /\ \A r \in requests : \E p \in Project :
           Waits(p, r.id) /\ r.asks = call[p].asks /\ r.handle = call[p].handle /\ r.globs = globs[p]
    /\ \A r, s \in requests : r.id = s.id => r = s
    /\ \A r \in requests, s \in responses : r.id # s.id

ResponseInv ==
    /\ \A p \in Project : ~At(p, "await") => delivered[p] = "none"
    /\ \A r \in responses : r.result \in {"done", "error"} /\ \E p \in Project : Waits(p, r.id)
    /\ \A r, s \in responses : r.id = s.id => r = s

PendingInv ==
    /\ \A i \in DOMAIN pendingServerRequests :
           pendingServerRequests[i] \in Project /\ Waits(pendingServerRequests[i], i)
    /\ \A p \in Project : At(p, "await") /\ delivered[p] = "none" =>
           call[p].seq \in DOMAIN pendingServerRequests

NumberInv ==
    /\ \A p, q \in Project : At(p, "send") /\ At(q, "send") => p = q
    /\ \A p \in Project : At(p, "await") =>
           /\ call[p].seq <= clientSeq
           /\ \A q \in Project : At(q, "send") => call[p].seq # clientSeq
           /\ \A q \in Project : At(q, "await") /\ call[p].seq = call[q].seq => p = q

\* The client has done what the project waits for.
Did(p) ==
    /\ At(p, "await")
    /\ \/ delivered[p] = "done"
       \/ delivered[p] = "none" /\ \E r \in responses : r.id = call[p].seq /\ r.result = "done"

\* The handle of a project as the server and the client know it.
ServerHandle(p) == IF At(p, "unwatched") THEN None ELSE watcherID[p]

ClientHandle(p) ==
    IF ~Did(p) THEN ServerHandle(p) ELSE IF call[p].asks = "watch" THEN call[p].handle ELSE None

HandleInv ==
    /\ \A p \in Project : watcherID[p] = None \/ watcherID[p] \in 0 .. nextWatcher - 1
    /\ \A p, q \in Project : watcherID[p] = watcherID[q] /\ watcherID[p] # None => p = q
    /\ watchers = {ServerHandle(p) : p \in Project} \ {None}
    /\ {g.handle : g \in registrations} = {ClientHandle(p) : p \in Project} \ {None}
    /\ \A g, h \in registrations : g.handle = h.handle => g = h

\* The globs cover what was looked up, and the client has them.
Registered(h, gs) == \E g \in registrations : g.handle = h /\ g.globs = gs

GlobInv ==
    /\ \A p \in Project : \A l \in data[p] : NearRoot(l) \/ Watched(l, globs[p])
    /\ \A p \in Project : ~At(p, "built") => data[p] = failed[p]
    /\ \A p \in Project :
           (At(p, "idle") \/ At(p, "built")) /\ p \notin refused /\ globs[p] # {} =>
               Registered(watcherID[p], globs[p])
    /\ \A p \in Project : Did(p) /\ call[p].asks = "watch" => Registered(call[p].handle, globs[p])

\* A project that contains a file does not miss it.
InfoInv ==
    \A l \in Location : \A p \in containingProjects[l] : l \in exists /\ l \notin failed[p]

\* Of a file that was not found and now exists the project is told or will be.
Noticed(p, l) ==
    \/ l \in late[p] \cup bypassed[p]
    \/ /\ At(p, "idle")
       /\ \/ NearRoot(l) \/ dirty[p] = "all" \/ p \in refused \cup marking \/ l \in events
          \/ p \in todo /\ event.at = l /\ ~event.known

NoticeInv == \A p \in Project : \A l \in failed[p] \cap exists : Noticed(p, l)

SInv ==
    /\ TypeInv /\ ~MixUps
    /\ AskInv /\ RequestInv /\ ResponseInv /\ PendingInv /\ NumberInv
    /\ HandleInv /\ GlobInv /\ InfoInv /\ NoticeInv

\* All this holds until two projects have got the same number.
IInv == mixed \in BOOLEAN /\ (~mixed => SInv)

\* What is looked up are file names, and none is a current directory.
LEMMA LocationsAreFiles ==
    ASSUME NEW l \in Location
    PROVE  IsFileName(l) /\ l \notin Roots
BY LookupsAssumption DEF LookupsAssumption, Location

\* The invariant holds before anything is loaded or watched.
LEMMA InitInv == Init => IInv
<1> SUFFICES ASSUME Init PROVE mixed \in BOOLEAN /\ SInv
  BY DEF IInv
<1>1. /\ root \in Roots /\ todo = {} /\ marking = {} /\ events = {} /\ lookups \in [Project -> Lookups]
      /\ dirty = [p \in Project |-> "all"] /\ containingProjects = [l \in Location |-> {}]
      /\ failed = [p \in Project |-> {}] /\ data = [p \in Project |-> {}]
      /\ globs = [p \in Project |-> {}] /\ watcherID = [p \in Project |-> None]
      /\ stage = [p \in Project |-> "idle"] /\ call = [p \in Project |-> NoCall]
      /\ nextWatcher = 0 /\ watchers = {} /\ clientSeq = 0 /\ DOMAIN pendingServerRequests = {}
      /\ delivered = [p \in Project |-> "none"] /\ late = [p \in Project |-> {}]
      /\ bypassed = [p \in Project |-> {}]
      /\ requests = {} /\ responses = {} /\ registrations = {} /\ mixed = FALSE
  BY DEF Init
<1>2. TypeInv
  <2>1. NoCall \in CallRecord
    BY DEF NoCall, None, CallRecord
  <2>2. call \in [Project -> CallRecord]
    BY <1>1, <2>1
  <2>3. globs = [p \in Project |-> globs[p]]
    BY <1>1
  <2> QED BY <1>1, <2>2, <2>3 DEF TypeInv, Stages, Marks, None
<1>3. ~MixUps /\ AskInv
  <2>1. \A p \in Project : call[p].asks = "nothing" /\ stage[p] = "idle"
    BY <1>1 DEF NoCall
  <2> QED BY <2>1 DEF MixUps, At, AskInv, Wire
<1>4. RequestInv /\ ResponseInv /\ PendingInv /\ NumberInv
  BY <1>1 DEF RequestInv, ResponseInv, PendingInv, NumberInv, At
<1>5. HandleInv
  <2>1. \A p \in Project : watcherID[p] = None /\ ClientHandle(p) = None /\ ServerHandle(p) = None
    BY <1>1 DEF ClientHandle, ServerHandle, Did, At
  <2>2. {ServerHandle(p) : p \in Project} \ {None} = {} /\ {ClientHandle(p) : p \in Project} \ {None} = {}
    BY <2>1
  <2> QED BY <1>1, <2>1, <2>2 DEF HandleInv
<1>6. GlobInv /\ InfoInv /\ NoticeInv
  BY <1>1 DEF GlobInv, InfoInv, NoticeInv, Did, At
<1> QED BY <1>1, <1>2, <1>3, <1>4, <1>5, <1>6 DEF SInv

(***************************************************************************)
(* What a step leaves alone.                                               *)
(***************************************************************************)

\* One project at most asks for a handle.
LEMMA OneAsks ==
    ASSUME SInv, NEW p \in Project, NEW q \in Project, call[p].asks = "watch", call[q].asks = "watch"
    PROVE  p = q
<1>1. Asking(p) /\ Asking(q)
  BY DEF SInv, AskInv
<1>2. call[p].handle = call[q].handle
  BY <1>1 DEF Asking
<1> QED BY <1>2 DEF SInv, MixUps

\* A project has the number that it has counted to.
LEMMA NumbersAreTheirs ==
    ASSUME SInv, NEW p \in Project
    PROVE  /\ At(p, "number") => clientSeq = call[p].seq
           /\ At(p, "send") => clientSeq = call[p].seq + 1
BY DEF SInv, MixUps

\* A step of a project that waits for nothing leaves the wire alone.
OffTheWire(p) ==
    /\ ~At(p, "await") /\ ~At(p, "await")'
    /\ UNCHANGED <<requests, responses, delivered, pendingServerRequests>>
    /\ \A q \in Project : q # p => UNCHANGED <<stage[q], call[q], globs[q], watcherID[q]>>

LEMMA LocalStep ==
    ASSUME SInv, NEW p \in Project, OffTheWire(p)
    PROVE  /\ RequestInv' /\ ResponseInv' /\ PendingInv'
           /\ \A q \in Project : Did(q)' <=> Did(q)
           /\ ~Did(p) /\ ~Did(p)'
           /\ ClientHandle(p) = ServerHandle(p) /\ ClientHandle(p)' = ServerHandle(p)'
           /\ \A q \in Project : q # p => UNCHANGED <<ServerHandle(q), ClientHandle(q)>>
<1>1. \A q \in Project : \A i : Waits(q, i)' <=> Waits(q, i)
  BY DEF OffTheWire, Waits, At
<1>2. \A q \in Project : At(q, "await")' <=> At(q, "await")
  BY DEF OffTheWire, At
<1>3. \A q \in Project : At(q, "await") => UNCHANGED <<call[q], globs[q]>>
  BY DEF OffTheWire, At
<1>4. RequestInv'
  <2>1. UNCHANGED <<requests, responses>>
    BY DEF OffTheWire
  <2>2. \A q \in Project : \A i : Waits(q, i) => UNCHANGED <<call[q], globs[q]>>
    BY <1>3 DEF Waits
  <2> QED BY <1>1, <2>1, <2>2 DEF SInv, RequestInv
<1>5. ResponseInv' /\ PendingInv'
  <2>1. UNCHANGED <<responses, delivered, pendingServerRequests>>
    BY DEF OffTheWire
  <2> QED BY <1>1, <1>2, <1>3, <2>1 DEF SInv, ResponseInv, PendingInv
<1>6. \A q \in Project : Did(q)' <=> Did(q)
  <2>1. UNCHANGED <<responses, delivered>>
    BY DEF OffTheWire
  <2> QED BY <1>2, <1>3, <2>1 DEF Did
<1>7. ~Did(p) /\ ~Did(p)'
  BY DEF OffTheWire, Did
<1>8. ClientHandle(p) = ServerHandle(p) /\ ClientHandle(p)' = ServerHandle(p)'
  BY <1>7 DEF ClientHandle
<1>9. \A q \in Project : q # p => UNCHANGED <<ServerHandle(q), ClientHandle(q)>>
  <2>1. \A q \in Project : q # p => UNCHANGED <<stage[q], call[q], watcherID[q]>>
    BY DEF OffTheWire
  <2> QED BY <1>6, <2>1 DEF ClientHandle, ServerHandle, At
<1> QED BY <1>4, <1>5, <1>6, <1>7, <1>8, <1>9

\* The steps of an update, of the server and of the client leave files alone; one that
\* was created during the update that ends is late.
LEMMA NoticeFrame ==
    ASSUME SInv, UNCHANGED <<late, bypassed, failed, exists, events, todo, marking, event>>,
           \A q \in Project : /\ dirty[q] = "all" => dirty'[q] = "all"
                              /\ At(q, "idle") => At(q, "idle")' /\ (q \in refused => q \in refused')
    PROVE  NoticeInv'
BY DEF SInv, NoticeInv, Noticed

\* No file is loaded but by an update.
LEMMA InfoFrame ==
    ASSUME SInv, UNCHANGED <<containingProjects, failed, exists>>
    PROVE  InfoInv'
BY DEF SInv, InfoInv

\* What server and client know does not depend on how far an update is, before it asks.
LEMMA HandleFrame ==
    ASSUME SInv, UNCHANGED <<watcherID, nextWatcher, watchers, registrations>>,
           \A q \in Project : UNCHANGED <<ServerHandle(q), ClientHandle(q)>>
    PROVE  HandleInv'
<1>1. /\ {ServerHandle(q)' : q \in Project} = {ServerHandle(q) : q \in Project}
      /\ {ClientHandle(q)' : q \in Project} = {ClientHandle(q) : q \in Project}
  OBVIOUS
<1> QED BY <1>1 DEF SInv, HandleInv

\* A project counts, sends and waits in this order.
LEMMA NumberFrame ==
    ASSUME SInv, UNCHANGED clientSeq,
           \A q \in Project : /\ At(q, "send")' => At(q, "send")
                              /\ At(q, "await")' => At(q, "await") /\ call'[q].seq = call[q].seq
    PROVE  NumberInv'
BY DEF SInv, NumberInv

\* The other projects ask for what they have asked for.
LEMMA AskFrame ==
    ASSUME SInv, NEW p \in Project, UNCHANGED nextWatcher,
           \A q \in Project : q # p => UNCHANGED <<stage[q], call[q], watcherID[q]>>,
           stage'[p] \in Wire => Asking(p)', call'[p].asks = "watch" => stage'[p] \in Wire
    PROVE  AskInv'
BY DEF SInv, AskInv, Asking

(***************************************************************************)
(* The arguments of a request that a project is about to make.             *)
(***************************************************************************)

Ended(p) == [call EXCEPT ![p] = NoCall]
CallOf(p, a, h) == [call EXCEPT ![p].asks = a, ![p].handle = h]
Numbered(p, n) == [call EXCEPT ![p].seq = n]

\* The call of one project changes as a whole.
LEMMA CallSet ==
    ASSUME call \in [Project -> CallRecord], NEW p \in Project, NEW c \in CallRecord
    PROVE  /\ [call EXCEPT ![p] = c] \in [Project -> CallRecord]
           /\ [call EXCEPT ![p] = c][p] = c
           /\ \A q \in Project : q # p => [call EXCEPT ![p] = c][q] = call[q]
<1> HIDE DEF CallRecord
<1> QED OBVIOUS

\* An update ends ...
LEMMA CallEnds ==
    ASSUME call \in [Project -> CallRecord], NEW p \in Project
    PROVE  /\ Ended(p) \in [Project -> CallRecord]
           /\ Ended(p)[p].asks = "nothing"
           /\ \A q \in Project : q # p => Ended(p)[q] = call[q]
<1>1. NoCall \in CallRecord /\ NoCall.asks = "nothing"
  BY DEF NoCall, None, CallRecord
<1> QED BY <1>1, CallSet DEF Ended

\* ... or asks for something ...
LEMMA CallAsks ==
    ASSUME call \in [Project -> CallRecord], NEW p \in Project,
           NEW a \in {"nothing", "watch", "unwatch"}, NEW h \in Int
    PROVE  /\ CallOf(p, a, h) \in [Project -> CallRecord]
           /\ CallOf(p, a, h)[p].asks = a /\ CallOf(p, a, h)[p].handle = h
           /\ \A q \in Project : q # p => CallOf(p, a, h)[q] = call[q]
<1> DEFINE c == [call[p] EXCEPT !.asks = a, !.handle = h]
<1>1. call[p] \in CallRecord
  OBVIOUS
<1>2. c \in CallRecord /\ c.asks = a /\ c.handle = h
  BY <1>1 DEF CallRecord
<1>3. CallOf(p, a, h) = [call EXCEPT ![p] = c]
  BY DEF CallOf
<1> HIDE DEF c
<1> QED BY <1>2, <1>3, CallSet

\* ... or gets a number.
LEMMA CallNumbered ==
    ASSUME call \in [Project -> CallRecord], NEW p \in Project, NEW n \in Nat
    PROVE  /\ Numbered(p, n) \in [Project -> CallRecord]
           /\ Numbered(p, n)[p].seq = n
           /\ Numbered(p, n)[p].asks = call[p].asks /\ Numbered(p, n)[p].handle = call[p].handle
           /\ \A q \in Project : q # p => Numbered(p, n)[q] = call[q]
<1> DEFINE c == [call[p] EXCEPT !.seq = n]
<1>1. call[p] \in CallRecord
  OBVIOUS
<1>2. c \in CallRecord /\ c.seq = n /\ c.asks = call[p].asks /\ c.handle = call[p].handle
  BY <1>1 DEF CallRecord
<1>3. Numbered(p, n) = [call EXCEPT ![p] = c]
  BY DEF Numbered
<1> HIDE DEF c
<1> QED BY <1>2, <1>3, CallSet

(***************************************************************************)
(* The steps of a project.                                                 *)
(***************************************************************************)

\* What is dirty of a project has grown.
Dirtier(p) ==
    /\ dirty' \in [Project -> Marks]
    /\ \A q \in Project : /\ dirty[q] = "all" => dirty'[q] = "all"
                          /\ q # p => dirty'[q] = dirty[q]

LEMMA MarksKeep ==
    ASSUME SInv, NEW p \in Project, MarkFileAsDirty(p) \/ markAsDirty(p)
    PROVE  Dirtier(p)
<1>1. dirty \in [Project -> Marks]
  BY DEF SInv, TypeInv
<1>2. CASE MarkFileAsDirty(p)
  <2>1. PICK mark \in Marks : /\ dirty' = [dirty EXCEPT ![p] = mark]
                              /\ dirty[p] = "all" => mark = "all"
    <3>1. PICK m \in IF dirty[p] = "no" THEN {"file"} ELSE {dirty[p], "all"} :
              dirty' = [dirty EXCEPT ![p] = m]
      BY <1>2 DEF MarkFileAsDirty
    <3>2. m \in Marks /\ (dirty[p] = "all" => m = "all")
      BY <1>1, <3>1 DEF Marks
    <3> QED BY <3>1, <3>2
  <2> QED BY <1>1, <2>1 DEF Dirtier
<1>3. CASE markAsDirty(p)
  <2>1. dirty' = [dirty EXCEPT ![p] = "all"]
    BY <1>3 DEF markAsDirty
  <2> QED BY <1>1, <2>1 DEF Dirtier, Marks
<1> QED BY <1>2, <1>3

\* What a step that only marks projects, or looks up other files, leaves alone.
OnlyMarks ==
    /\ UNCHANGED <<root, failed, data, globs, watcherID, stage, call, nextWatcher, watchers,
                   clientSeq, pendingServerRequests, delivered, requests, responses,
                   registrations, refused, containingProjects, exists>>
    /\ lookups' \in [Project -> Lookups] /\ dirty' \in [Project -> Marks]
    /\ late' \in [Project -> SUBSET Location] /\ bypassed' \in [Project -> SUBSET Location]
    /\ todo' \subseteq Project /\ marking' \subseteq Project /\ events' \subseteq Location

LEMMA OnlyMarksKeeps ==
    ASSUME SInv, OnlyMarks, NoticeInv'
    PROVE  SInv'
<1>1. TypeInv'
  BY DEF SInv, TypeInv, OnlyMarks
<1>2. ~MixUps' /\ AskInv' /\ NumberInv'
  BY DEF SInv, OnlyMarks, MixUps, AskInv, Asking, NumberInv, At
<1>3. RequestInv' /\ ResponseInv' /\ PendingInv'
  BY DEF SInv, OnlyMarks, RequestInv, ResponseInv, PendingInv, Waits, At
<1>4. \A q \in Project : (Did(q)' <=> Did(q)) /\ UNCHANGED <<ServerHandle(q), ClientHandle(q)>>
  BY DEF OnlyMarks, Did, ServerHandle, ClientHandle, At
<1>5. HandleInv'
  BY <1>4, HandleFrame DEF OnlyMarks
<1>6. GlobInv'
  BY <1>4 DEF OnlyMarks, SInv, GlobInv, Watched, Registered, At
<1>7. InfoInv'
  BY InfoFrame DEF OnlyMarks
<1> QED BY <1>1, <1>2, <1>3, <1>5, <1>6, <1>7 DEF SInv

\* An edit that makes a project look up other files, or marks a file of it.
LEMMA EditKeeps ==
    ASSUME SInv, NEW p \in Project, Edit(p)
    PROVE  SInv'
<1>1. /\ UNCHANGED <<root, failed, data, globs, watcherID, stage, call, nextWatcher, watchers,
                     clientSeq, pendingServerRequests, delivered, requests, responses,
                     registrations, exists, events, event, todo, marking, late, bypassed, refused,
                     containingProjects>>
      /\ \E ls \in Lookups : lookups' = [lookups EXCEPT ![p] = ls]
      /\ MarkFileAsDirty(p) \/ markAsDirty(p)
  BY DEF Edit, serverVars, clientVars, eventVars, infoVars, markAsDirty
<1>2. Dirtier(p)
  BY <1>1, MarksKeep
<1>3. lookups' \in [Project -> Lookups]
  BY <1>1 DEF SInv, TypeInv
<1>4. OnlyMarks
  BY <1>1, <1>2, <1>3 DEF OnlyMarks, Dirtier, SInv, TypeInv
<1>5. NoticeInv'
  BY <1>1, <1>2, NoticeFrame DEF Dirtier, At
<1> QED BY <1>4, <1>5, OnlyMarksKeeps

\* The update for one file takes over what was looked up.
LEMMA UpdateProgramKeeps ==
    ASSUME SInv, NEW p \in Project, UpdateProgram(p)
    PROVE  SInv'
<1>1. /\ UNCHANGED <<root, lookups, failed, data, globs, watcherID, stage, call, nextWatcher,
                     watchers, clientSeq, pendingServerRequests, delivered, requests, responses,
                     registrations, exists, events, event, todo, marking, late, bypassed, refused,
                     containingProjects>>
      /\ dirty[p] = "file" /\ dirty' = [dirty EXCEPT ![p] = "no"]
  BY DEF UpdateProgram, serverVars, clientVars, eventVars, infoVars
<1>2. dirty' \in [Project -> Marks] /\ \A q \in Project : dirty[q] = "all" => dirty'[q] = "all"
  BY <1>1 DEF SInv, TypeInv, Marks
<1>3. OnlyMarks
  BY <1>1, <1>2 DEF OnlyMarks, SInv, TypeInv
<1>4. NoticeInv'
  BY <1>1, <1>2, NoticeFrame DEF At
<1> QED BY <1>3, <1>4, OnlyMarksKeeps

\* An update finds every file that exists by then.
LEMMA UpdateGraphKeeps ==
    ASSUME SInv, NEW p \in Project, updateGraph(p), ~MixUps'
    PROVE  SInv'
<1>1. /\ stage[p] = "idle" /\ stage' = [stage EXCEPT ![p] = "built"]
      /\ dirty' = [dirty EXCEPT ![p] = "no"]
      /\ failed' = [failed EXCEPT ![p] = lookups[p] \ exists]
      /\ late' = [late EXCEPT ![p] = {}] /\ bypassed' = [bypassed EXCEPT ![p] = {}]
      /\ containingProjects' =
             [l \in Location |-> IF l \in lookups[p] \cap exists THEN containingProjects[l] \cup {p}
                                                                ELSE containingProjects[l]]
      /\ UNCHANGED <<root, lookups, data, globs, watcherID, call, nextWatcher, watchers,
                     clientSeq, pendingServerRequests, delivered, requests, responses,
                     registrations, exists, events, event, todo, marking, refused>>
  BY DEF updateGraph, serverVars, clientVars, Go, At
<1>2. TypeInv'
  <2>1. lookups[p] \ exists \subseteq Location
    BY DEF SInv, TypeInv, Location
  <2>2. stage' \in [Project -> Stages] /\ dirty' \in [Project -> Marks]
        /\ failed' \in [Project -> SUBSET Location] /\ late' \in [Project -> SUBSET Location]
        /\ bypassed' \in [Project -> SUBSET Location]
    BY <1>1, <2>1 DEF SInv, TypeInv, Stages, Marks
  <2>3. containingProjects' \in [Location -> SUBSET Project]
    BY <1>1 DEF SInv, TypeInv
  <2> QED BY <1>1, <2>2, <2>3 DEF SInv, TypeInv
<1>3. /\ stage'[p] = "built" /\ failed'[p] = lookups[p] \ exists
      /\ \A q \in Project : q # p => /\ UNCHANGED <<stage[q], failed[q], late[q], bypassed[q], dirty[q]>>
  BY <1>1 DEF SInv, TypeInv
<1>4. OffTheWire(p)
  BY <1>1, <1>3 DEF OffTheWire, At
<1>5. RequestInv' /\ ResponseInv' /\ PendingInv'
  BY <1>4, LocalStep
<1>6. NumberInv'
  BY <1>1, <1>3, NumberFrame DEF At
<1>7. AskInv'
  <2>1. stage'[p] \notin Wire /\ stage[p] \notin Wire
    BY <1>1, <1>3 DEF Wire
  <2>2. call'[p].asks # "watch"
    BY <1>1, <2>1 DEF SInv, AskInv
  <2> QED BY <1>1, <1>3, <2>1, <2>2, AskFrame
<1>8. \A q \in Project : UNCHANGED <<ServerHandle(q), ClientHandle(q)>>
  <2>1. UNCHANGED ServerHandle(p)
    BY <1>1, <1>3 DEF ServerHandle, At
  <2> QED BY <1>4, <2>1, LocalStep
<1>9. HandleInv'
  BY <1>1, <1>8, HandleFrame
<1>10. GlobInv'
  <2>1. \A q \in Project : Did(q)' <=> Did(q)
    BY <1>4, LocalStep
  <2>2. \A q \in Project : ~At(q, "built")' => q # p /\ ~At(q, "built")
    BY <1>3 DEF At
  <2>3. \A q \in Project : At(q, "idle")' \/ At(q, "built")' => At(q, "idle") \/ At(q, "built")
    BY <1>1, <1>3 DEF At
  <2> QED BY <1>1, <1>3, <2>1, <2>2, <2>3 DEF SInv, GlobInv, Watched, Registered
<1>11. InfoInv'
  <2> SUFFICES ASSUME NEW l \in Location, NEW q \in Project, q \in containingProjects'[l]
               PROVE  l \in exists /\ l \notin failed'[q]
    BY <1>1, <1>2 DEF InfoInv, TypeInv
  <2>1. q \in containingProjects[l] \/ (q = p /\ l \in exists)
    BY <1>1
  <2>2. q \in containingProjects[l] => l \in exists /\ l \notin failed[q]
    BY DEF SInv, InfoInv
  <2> QED BY <1>3, <2>1, <2>2
<1>12. NoticeInv'
  <2> SUFFICES ASSUME NEW q \in Project, NEW l \in failed'[q], l \in exists
               PROVE  Noticed(q, l)'
    BY <1>1 DEF NoticeInv
  <2>1. q # p
    BY <1>3
  <2>2. Noticed(q, l)
    BY <1>3, <2>1 DEF SInv, NoticeInv
  <2> QED BY <1>1, <1>3, <2>1, <2>2 DEF Noticed, At
<1> QED BY <1>2, <1>5, <1>6, <1>7, <1>9, <1>10, <1>11, <1>12 DEF SInv

\* The new globs are kept before the client has been asked for them; whoever looks at
\* them meanwhile finds the project busy.
LEMMA UpdateWorkerKeeps ==
    ASSUME SInv, NEW p \in Project, updateWorker(p), ~MixUps'
    PROVE  SInv'
<1> DEFINE new == resolutionLookupGlobs(failed[p], root)
<1>1. /\ stage[p] = "built"
      /\ data' = [data EXCEPT ![p] = failed[p]]
      /\ UNCHANGED <<root, lookups, dirty, failed, watcherID, nextWatcher, watchers,
                     clientSeq, pendingServerRequests, delivered, requests, responses,
                     registrations, exists, events, event, todo, marking, late, bypassed,
                     containingProjects>>
  BY DEF updateWorker, serverVars, clientVars, eventVars, infoVars, At
<1>2. watcherID[p] # None => watcherID[p] \in watchers
  BY <1>1 DEF SInv, HandleInv, ServerHandle, At
<1>3. \A l \in failed[p] : NearRoot(l) \/ Watched(l, new)
  <2>1. root \in Seq(STRING) /\ \A l \in failed[p] : IsFileName(l) /\ l # root
    BY LookupsAssumption, LocationsAreFiles DEF SInv, TypeInv, LookupsAssumption
  <2> HIDE DEF new
  <2> QED BY <2>1, GlobsCover DEF new
<1> HIDE DEF new
<1>4. \E s \in {"idle", "unwatched", "count"} :
          /\ stage' = [stage EXCEPT ![p] = s]
          /\ s = "idle" => UNCHANGED <<globs, refused>> /\ globs[p] = new
                           /\ call' = Ended(p)
          /\ s # "idle" => UNCHANGED refused /\ globs' = [globs EXCEPT ![p] = new]
          /\ s = "unwatched" => UNCHANGED call /\ watcherID[p] = None
          /\ s = "count" => /\ watcherID[p] # None
                            /\ call' = CallOf(p, "unwatch", watcherID[p])
  <2>1. CASE globs[p] = new
    BY <2>1 DEF updateWorker, SameGlobs, End, Go, new, Ended
  <2>2. CASE globs[p] # new
    <3>1. /\ globs' = [globs EXCEPT ![p] = new]
          /\ \/ /\ watcherID[p] = None
                /\ Go(p, "unwatched") /\ UNCHANGED <<call, refused>>
             \/ /\ watcherID[p] \in watchers
                /\ Ask(p, "unwatch", watcherID[p]) /\ UNCHANGED refused
             \/ watcherID[p] \notin watchers \cup {None}
      BY <2>2 DEF updateWorker, SameGlobs, new
    <3>2. None \notin watchers
      BY DEF SInv, HandleInv
    <3> QED BY <1>2, <3>1, <3>2 DEF Go, Ask, CallOf
  <2> QED BY <2>1, <2>2
<1>5. call \in [Project -> CallRecord] /\ watcherID[p] \in Int
  BY DEF SInv, TypeInv
<1>6. /\ stage'[p] \in {"idle", "unwatched", "count"} /\ globs'[p] = new
      /\ stage'[p] = "unwatched" => watcherID[p] = None
      /\ data'[p] = failed[p] /\ refused' = refused
      /\ \A q \in Project : q # p => UNCHANGED <<stage[q], globs[q], data[q]>>
  BY <1>1, <1>4 DEF SInv, TypeInv
<1>7. /\ \A q \in Project : q # p => UNCHANGED call[q]
      /\ stage'[p] = "count" => call'[p].asks = "unwatch" /\ call'[p].handle = watcherID[p] /\ watcherID[p] # None
      /\ stage'[p] = "idle" => call'[p].asks = "nothing"
      /\ stage'[p] = "unwatched" => UNCHANGED call
  <2>1. stage \in [Project -> Stages]
    BY DEF SInv, TypeInv
  <2> QED BY <1>4, <1>5, <2>1, CallEnds, CallAsks
<1>8. TypeInv'
  <2>1. stage' \in [Project -> Stages] /\ data' \in [Project -> SUBSET Location]
    BY <1>1, <1>4 DEF SInv, TypeInv, Stages
  <2>2. globs' = [q \in Project |-> globs'[q]]
    BY <1>4 DEF SInv, TypeInv
  <2>3. call' \in [Project -> CallRecord]
    <3>1. \/ call' = call \/ call' = Ended(p)
          \/ call' = CallOf(p, "unwatch", watcherID[p])
      BY <1>4
    <3> QED BY <1>5, <3>1, CallEnds, CallAsks
  <2> QED BY <1>1, <2>1, <2>2, <2>3 DEF SInv, TypeInv
<1>9. OffTheWire(p)
  BY <1>1, <1>6, <1>7 DEF OffTheWire, At
<1>10. RequestInv' /\ ResponseInv' /\ PendingInv'
  BY <1>9, LocalStep
<1>11. NumberInv'
  <2>1. \A q \in Project : At(q, "send")' \/ At(q, "await")' => q # p
    BY <1>6 DEF At
  <2> QED BY <1>1, <1>6, <1>7, <2>1, NumberFrame DEF At
<1>12. AskInv'
  <2>1. stage'[p] \in Wire => Asking(p)'
    BY <1>1, <1>6, <1>7 DEF Asking, Wire
  <2>2. call'[p].asks = "watch" => stage'[p] \in Wire
    <3>1. call[p].asks # "watch"
      BY <1>1 DEF SInv, AskInv, Wire
    <3> QED BY <1>6, <1>7, <3>1 DEF Wire
  <2> QED BY <1>1, <1>6, <1>7, <2>1, <2>2, AskFrame
<1>13. \A q \in Project : UNCHANGED <<ServerHandle(q), ClientHandle(q)>>
  <2>1. UNCHANGED ServerHandle(p)
    BY <1>1, <1>6 DEF ServerHandle, At
  <2> QED BY <1>9, <2>1, LocalStep
<1>14. HandleInv'
  BY <1>1, <1>13, HandleFrame
<1>15. GlobInv'
  <2>1. \A q \in Project : \A l \in data'[q] : NearRoot(l) \/ Watched(l, globs'[q])
    BY <1>3, <1>6 DEF SInv, GlobInv
  <2>2. \A q \in Project : ~At(q, "built")' => data'[q] = failed'[q]
    BY <1>1, <1>6 DEF SInv, GlobInv, At
  <2>3. ASSUME NEW q \in Project, At(q, "idle")' \/ At(q, "built")', q \notin refused', globs'[q] # {}
        PROVE  Registered(watcherID[q], globs'[q])
    <3>1. (At(q, "idle") \/ At(q, "built")) /\ globs'[q] = globs[q] /\ q \notin refused
      <4>1. CASE q = p
        <5>1. stage'[p] = "idle"
          BY <1>6, <2>3, <4>1 DEF At
        <5> QED BY <1>1, <1>4, <2>3, <4>1, <5>1 DEF SInv, TypeInv, At
      <4>2. CASE q # p
        BY <1>6, <2>3, <4>2 DEF At
      <4> QED BY <4>1, <4>2
    <3> QED BY <2>3, <3>1 DEF SInv, GlobInv
  <2>4. \A q \in Project : Did(q)' => Did(q) /\ q # p
    BY <1>9, LocalStep
  <2> QED BY <1>1, <1>6, <1>7, <2>1, <2>2, <2>3, <2>4 DEF SInv, GlobInv, Watched, Registered
<1>16. InfoInv'
  BY <1>1, InfoFrame
<1>17. NoticeInv'
  <2>1. \A q \in Project : At(q, "idle") => At(q, "idle")'
    BY <1>1, <1>6 DEF At
  <2> QED BY <1>1, <1>6, <2>1, NoticeFrame
<1> QED BY <1>8, <1>10, <1>11, <1>12, <1>14, <1>15, <1>16, <1>17 DEF SInv

\* Without a handle the project asks for a new one, if there is anything to watch.
LEMMA RegisterKeeps ==
    ASSUME SInv, NEW p \in Project, Register(p), ~MixUps'
    PROVE  SInv'
<1>1. /\ stage[p] = "unwatched"
      /\ watcherID' = [watcherID EXCEPT ![p] = None]
      /\ UNCHANGED <<root, lookups, dirty, failed, data, globs, nextWatcher, watchers,
                     clientSeq, pendingServerRequests, delivered, requests, responses,
                     registrations, exists, events, event, todo, marking, late, bypassed,
                     containingProjects>>
  BY DEF Register, serverVars, clientVars, eventVars, infoVars, At
<1>2. \/ /\ globs[p] = {} /\ stage' = [stage EXCEPT ![p] = "idle"]
         /\ call' = Ended(p) /\ refused' = refused \ {p}
      \/ /\ stage' = [stage EXCEPT ![p] = "count"] /\ refused' = refused
         /\ call' = CallOf(p, "watch", nextWatcher)
  BY DEF Register, Succeed, End, Go, Ask, Ended, CallOf
<1>3. call \in [Project -> CallRecord] /\ nextWatcher \in Int
  BY DEF SInv, TypeInv
<1>4. /\ stage'[p] \in {"idle", "count"} /\ (stage'[p] = "idle" => globs[p] = {})
      /\ watcherID'[p] = None
      /\ \A q \in Project : q # p => UNCHANGED <<stage[q], watcherID[q]>> /\ (q \in refused' <=> q \in refused)
  BY <1>1, <1>2 DEF SInv, TypeInv
<1>5. /\ \A q \in Project : q # p => UNCHANGED call[q]
      /\ stage'[p] = "count" => call'[p].asks = "watch" /\ call'[p].handle = nextWatcher
      /\ stage'[p] = "idle" => call'[p].asks = "nothing"
  <2>1. stage \in [Project -> Stages]
    BY DEF SInv, TypeInv
  <2> QED BY <1>2, <1>3, <2>1, CallEnds, CallAsks
<1>6. TypeInv'
  <2>1. stage' \in [Project -> Stages] /\ watcherID' \in [Project -> Int]
    BY <1>1, <1>2 DEF SInv, TypeInv, Stages, None
  <2>2. call' \in [Project -> CallRecord]
    BY <1>2, <1>3, CallEnds, CallAsks
  <2> QED BY <1>1, <2>1, <2>2 DEF SInv, TypeInv
<1>7. OffTheWire(p)
  BY <1>1, <1>4, <1>5 DEF OffTheWire, At
<1>8. RequestInv' /\ ResponseInv' /\ PendingInv'
  BY <1>7, LocalStep
<1>9. NumberInv'
  <2>1. \A q \in Project : At(q, "send")' \/ At(q, "await")' => q # p
    BY <1>4 DEF At
  <2> QED BY <1>1, <1>4, <1>5, <2>1, NumberFrame DEF At
<1>10. AskInv'
  <2>1. stage'[p] \in Wire => Asking(p)'
    BY <1>1, <1>4, <1>5 DEF Asking, Wire
  <2>2. call'[p].asks = "watch" => stage'[p] \in Wire
    BY <1>4, <1>5 DEF Wire
  <2> QED BY <1>1, <1>4, <1>5, <2>1, <2>2, AskFrame
<1>11. \A q \in Project : UNCHANGED <<ServerHandle(q), ClientHandle(q)>>
  <2>1. UNCHANGED ServerHandle(p)
    BY <1>1, <1>4 DEF ServerHandle, At
  <2> QED BY <1>7, <2>1, LocalStep
<1>12. HandleInv'
  <2>1. /\ {ServerHandle(q)' : q \in Project} = {ServerHandle(q) : q \in Project}
        /\ {ClientHandle(q)' : q \in Project} = {ClientHandle(q) : q \in Project}
    BY <1>11
  <2>2. /\ \A q \in Project : watcherID'[q] = None \/ watcherID'[q] \in 0 .. nextWatcher - 1
        /\ \A q, r \in Project : watcherID'[q] = watcherID'[r] /\ watcherID'[q] # None => q = r
    BY <1>4 DEF SInv, HandleInv
  <2> QED BY <1>1, <2>1, <2>2 DEF SInv, HandleInv
<1>13. GlobInv'
  <2>1. \A q \in Project : (At(q, "idle") \/ At(q, "built"))' /\ q \notin refused' /\ globs[q] # {} =>
            (At(q, "idle") \/ At(q, "built")) /\ q \notin refused /\ watcherID'[q] = watcherID[q]
    BY <1>4 DEF At
  <2>2. \A q \in Project : Did(q)' => Did(q) /\ q # p
    BY <1>7, LocalStep
  <2>3. \A q \in Project : ~At(q, "built")
                           \/ (At(q, "built") /\ At(q, "built")')
    BY <1>1, <1>4 DEF At
  <2> QED BY <1>1, <1>5, <2>1, <2>2, <2>3 DEF SInv, GlobInv, Watched, Registered
<1>14. InfoInv'
  BY <1>1, InfoFrame
<1>15. NoticeInv'
  <2>1. \A q \in Project : At(q, "idle") => At(q, "idle")' /\ (q \in refused => q \in refused')
    BY <1>1, <1>4 DEF At
  <2> QED BY <1>1, <2>1, NoticeFrame
<1> QED BY <1>6, <1>8, <1>9, <1>10, <1>12, <1>13, <1>14, <1>15 DEF SInv

(***************************************************************************)
(* The steps of the server.                                                *)
(***************************************************************************)

\* A project has a number that no other has, unless they mix up.
LEMMA SeqKeeps ==
    ASSUME SInv, NEW p \in Project, LoadSeq(p) \/ StoreSeq(p), ~MixUps'
    PROVE  SInv'
<1>1. /\ UNCHANGED <<root, lookups, dirty, failed, data, globs, watcherID, nextWatcher, watchers,
                     pendingServerRequests, delivered, requests, responses,
                     registrations, exists, events, event, todo, marking, late, bypassed, refused,
                     containingProjects>>
      /\ \/ /\ stage[p] = "count" /\ stage' = [stage EXCEPT ![p] = "number"]
            /\ call' = Numbered(p, clientSeq) /\ clientSeq' = clientSeq
         \/ /\ stage[p] = "number" /\ stage' = [stage EXCEPT ![p] = "send"]
            /\ call' = call /\ clientSeq' = call[p].seq + 1
  BY DEF LoadSeq, StoreSeq, Go, At, projectVars, serverVars, clientVars, eventVars, infoVars, Numbered
<1>2. call \in [Project -> CallRecord] /\ clientSeq \in Nat /\ call[p].seq \in Nat
      /\ stage \in [Project -> Stages]
  BY DEF SInv, TypeInv, CallRecord
<1>3. /\ \A q \in Project : q # p => UNCHANGED <<stage[q], call[q]>>
      /\ call'[p].asks = call[p].asks /\ call'[p].handle = call[p].handle
      /\ stage'[p] \in {"number", "send"} /\ stage[p] \in {"count", "number"}
  BY <1>1, <1>2, CallNumbered
<1>4. TypeInv'
  <2>1. stage' \in [Project -> Stages] /\ clientSeq' \in Nat
    BY <1>1, <1>2 DEF Stages
  <2>2. call' \in [Project -> CallRecord]
    BY <1>1, <1>2, CallNumbered
  <2> QED BY <1>1, <2>1, <2>2 DEF SInv, TypeInv
<1>5. OffTheWire(p)
  BY <1>1, <1>3 DEF OffTheWire, At
<1>6. RequestInv' /\ ResponseInv' /\ PendingInv'
  BY <1>5, LocalStep
<1>7. AskInv'
  <2>1. stage[p] \in Wire /\ stage'[p] \in Wire
    BY <1>3 DEF Wire
  <2>2. Asking(p)
    BY <2>1 DEF SInv, AskInv
  <2>3. Asking(p)'
    BY <1>1, <1>3, <2>2 DEF Asking
  <2> QED BY <1>1, <1>3, <2>1, <2>3, AskFrame
<1>8. NumberInv'
  <2>1. CASE clientSeq' = clientSeq /\ stage'[p] = "number"
    <3>1. \A q \in Project : At(q, "send")' \/ At(q, "await")' => q # p
      BY <2>1 DEF At
    <3> QED BY <1>3, <2>1, <3>1, NumberFrame DEF At
  <2>2. CASE stage[p] = "number" /\ stage'[p] = "send" /\ clientSeq' = call[p].seq + 1
    <3>1. clientSeq' = clientSeq + 1
      BY <2>2, NumbersAreTheirs DEF At
    <3>2. \A q \in Project : At(q, "send")' => q = p
      <4> SUFFICES ASSUME NEW q \in Project, At(q, "send")', q # p PROVE FALSE
        OBVIOUS
      <4>1. At(q, "send") /\ call'[q].seq = call[q].seq /\ call[q].seq \in Nat
        BY <1>2, <1>3 DEF At, CallRecord
      <4>2. clientSeq = call[q].seq + 1
        BY <4>1, NumbersAreTheirs
      <4>3. clientSeq' = call'[q].seq + 1
        BY DEF MixUps
      <4> QED BY <1>2, <3>1, <4>1, <4>2, <4>3
    <3>3. \A q \in Project : At(q, "await")' => At(q, "await") /\ call'[q].seq = call[q].seq /\ call[q].seq \in Nat
      BY <1>2, <1>3, <2>2 DEF At, CallRecord
    <3>4. \A q \in Project : At(q, "await")' => call'[q].seq <= clientSeq
      BY <3>3 DEF SInv, NumberInv
    <3>5. \A q \in Project : At(q, "await")' => call'[q].seq <= clientSeq' /\ call'[q].seq # clientSeq'
      BY <1>2, <3>1, <3>3, <3>4
    <3>6. \A q, u \in Project : At(q, "await")' /\ At(u, "await")' /\ call'[q].seq = call'[u].seq => q = u
      BY <3>3 DEF SInv, NumberInv
    <3> QED BY <3>2, <3>5, <3>6 DEF NumberInv
  <2> QED BY <1>1, <1>2, <2>1, <2>2
<1>9. \A q \in Project : UNCHANGED <<ServerHandle(q), ClientHandle(q)>>
  <2>1. UNCHANGED ServerHandle(p)
    BY <1>1, <1>3 DEF ServerHandle, At
  <2> QED BY <1>5, <2>1, LocalStep
<1>10. HandleInv'
  BY <1>1, <1>9, HandleFrame
<1>11. GlobInv'
  <2>1. \A q \in Project : (At(q, "idle") \/ At(q, "built"))' <=> At(q, "idle") \/ At(q, "built")
    BY <1>3 DEF At
  <2>2. \A q \in Project : At(q, "built")' <=> At(q, "built")
    BY <1>3 DEF At
  <2>3. \A q \in Project : Did(q)' => Did(q) /\ q # p
    BY <1>5, LocalStep
  <2> QED BY <1>1, <1>3, <2>1, <2>2, <2>3 DEF SInv, GlobInv, Watched, Registered
<1>12. InfoInv'
  BY <1>1, InfoFrame
<1>13. NoticeInv'
  <2>1. \A q \in Project : At(q, "idle") => At(q, "idle")'
    BY <1>1, <1>3 DEF At
  <2> QED BY <1>1, <2>1, NoticeFrame
<1> QED BY <1>4, <1>6, <1>7, <1>8, <1>10, <1>11, <1>12, <1>13 DEF SInv

\* The request to the client is sent, with an id that nobody waits for.
LEMMA SendKeeps ==
    ASSUME SInv, NEW p \in Project, sendRequest(p), ~MixUps'
    PROVE  SInv'
<1> DEFINE r == [id |-> clientSeq, asks |-> call[p].asks, handle |-> call[p].handle,
                 globs |-> globs[p]]
<1>1. /\ stage[p] = "send" /\ stage' = [stage EXCEPT ![p] = "await"]
      /\ call' = Numbered(p, clientSeq)
      /\ pendingServerRequests' = [i \in DOMAIN pendingServerRequests \cup {clientSeq} |->
                                      IF i = clientSeq THEN p ELSE pendingServerRequests[i]]
      /\ requests' = requests \cup {r}
      /\ UNCHANGED <<root, lookups, dirty, failed, data, globs, watcherID, nextWatcher, watchers,
                     clientSeq, delivered, responses,
                     registrations, exists, events, event, todo, marking, late, bypassed, refused,
                     containingProjects>>
  BY DEF sendRequest, Go, At, projectVars, eventVars, infoVars, Numbered
<1>2. call \in [Project -> CallRecord] /\ clientSeq \in Nat /\ stage \in [Project -> Stages]
  BY DEF SInv, TypeInv
<1>3. /\ \A q \in Project : q # p => UNCHANGED <<stage[q], call[q]>>
      /\ call'[p].asks = call[p].asks /\ call'[p].handle = call[p].handle
      /\ call'[p].seq = clientSeq /\ stage'[p] = "await"
      /\ r.id = clientSeq /\ r.asks = call[p].asks /\ r.handle = call[p].handle /\ r.globs = globs[p]
  BY <1>1, <1>2, CallNumbered
<1> HIDE DEF r
<1>4. TypeInv'
  <2>1. stage' \in [Project -> Stages]
    BY <1>1, <1>2 DEF Stages
  <2>2. call' \in [Project -> CallRecord]
    BY <1>1, <1>2, CallNumbered
  <2> QED BY <1>1, <2>1, <2>2 DEF SInv, TypeInv
<1>5. AskInv'
  <2>1. stage[p] \in Wire /\ stage'[p] \in Wire
    BY <1>1, <1>3 DEF Wire
  <2>2. Asking(p)
    BY <2>1 DEF SInv, AskInv
  <2>3. Asking(p)'
    BY <1>1, <1>3, <2>2 DEF Asking
  <2> QED BY <1>1, <1>3, <2>1, <2>3, AskFrame
<1>6. \A q \in Project : At(q, "await") => call[q].seq # clientSeq /\ q # p
  BY <1>1 DEF SInv, NumberInv, At
<1>7. delivered[p] = "none"
  BY <1>1 DEF SInv, ResponseInv, At
<1>8. /\ Waits(p, clientSeq)'
      /\ \A q \in Project : \A i : Waits(q, i) => Waits(q, i)' /\ q # p /\ i # clientSeq
  BY <1>1, <1>3, <1>6, <1>7 DEF Waits, At
<1>9. \A s \in requests \cup responses : s.id # clientSeq
  BY <1>8 DEF SInv, RequestInv, ResponseInv
<1>10. RequestInv'
  <2>1. \A s \in requests' : \E q \in Project :
            Waits(q, s.id)' /\ s.asks = call'[q].asks /\ s.handle = call'[q].handle /\ s.globs = globs'[q]
    <3>1. ASSUME NEW s \in requests
          PROVE  \E q \in Project :
              Waits(q, s.id)' /\ s.asks = call'[q].asks /\ s.handle = call'[q].handle /\ s.globs = globs'[q]
      <4>1. PICK q \in Project :
                Waits(q, s.id) /\ s.asks = call[q].asks /\ s.handle = call[q].handle /\ s.globs = globs[q]
        BY DEF SInv, RequestInv
      <4> QED BY <1>1, <1>3, <1>8, <4>1
    <3> QED BY <1>1, <1>3, <1>8, <3>1
  <2>2. \A s, t \in requests' : s.id = t.id => s = t
    BY <1>1, <1>3, <1>9 DEF SInv, RequestInv
  <2>3. \A s \in requests', t \in responses' : s.id # t.id
    BY <1>1, <1>3, <1>9 DEF SInv, RequestInv
  <2> QED BY <2>1, <2>2, <2>3 DEF RequestInv
<1>11. ResponseInv'
  <2>1. \A q \in Project : ~At(q, "await")' => ~At(q, "await")
    BY <1>1, <1>3 DEF At
  <2> QED BY <1>1, <1>8, <2>1 DEF SInv, ResponseInv
<1>12. PendingInv'
  <2> DEFINE pending == DOMAIN pendingServerRequests
  <2>0. /\ DOMAIN pendingServerRequests' = pending \cup {clientSeq}
        /\ pendingServerRequests'[clientSeq] = p
        /\ \A i \in pending : i # clientSeq => pendingServerRequests'[i] = pendingServerRequests[i]
    BY <1>1
  <2>1. ASSUME NEW i \in DOMAIN pendingServerRequests'
        PROVE  pendingServerRequests'[i] \in Project /\ Waits(pendingServerRequests[i], i)'
    <3>1. CASE i = clientSeq
      <4>1. clientSeq' = clientSeq
        BY <1>1
      <4> QED BY <1>8, <2>0, <3>1, <4>1 DEF Waits
    <3>2. CASE i # clientSeq
      <4>1. pendingServerRequests[i] \in Project /\ Waits(pendingServerRequests[i], i)
        BY <2>0, <3>2 DEF SInv, PendingInv
      <4> QED BY <1>8, <2>0, <3>2, <4>1
    <3> QED BY <3>1, <3>2
  <2>2. ASSUME NEW q \in Project, At(q, "await")', delivered'[q] = "none"
        PROVE  call'[q].seq \in DOMAIN pendingServerRequests'
    <3>1. q # p => At(q, "await") /\ call'[q].seq = call[q].seq
      BY <1>3, <2>2 DEF At
    <3>2. q # p => call[q].seq \in pending
      BY <1>1, <2>2, <3>1 DEF SInv, PendingInv
    <3> QED BY <1>3, <2>0, <3>1, <3>2
  <2> QED BY <2>1, <2>2 DEF PendingInv
<1>13. NumberInv'
  <2>1. \A q \in Project : ~At(q, "send")'
    BY <1>1, <1>3 DEF SInv, NumberInv, At
  <2>2. \A q \in Project : At(q, "await")' /\ q # p => At(q, "await") /\ call'[q].seq = call[q].seq
    BY <1>3 DEF At
  <2>3. \A q \in Project : At(q, "await")' => call'[q].seq <= clientSeq'
    BY <1>1, <1>2, <1>3, <2>2 DEF SInv, NumberInv
  <2>4. \A q, u \in Project : At(q, "await")' /\ At(u, "await")' /\ call'[q].seq = call'[u].seq => q = u
    BY <1>3, <1>6, <2>2 DEF SInv, NumberInv
  <2> QED BY <2>1, <2>3, <2>4 DEF NumberInv
<1>14. \A q \in Project : (Did(q)' <=> Did(q)) /\ (Did(q) => q # p)
  <2>1. ~Did(p)
    BY <1>6 DEF Did
  <2>2. ~Did(p)'
    BY <1>1, <1>3, <1>7, <1>9 DEF Did
  <2>3. \A q \in Project : q # p => (Did(q)' <=> Did(q))
    BY <1>1, <1>3 DEF Did, At
  <2> QED BY <2>1, <2>2, <2>3
<1>15. \A q \in Project : UNCHANGED <<ServerHandle(q), ClientHandle(q)>>
  <2>1. \A q \in Project : UNCHANGED ServerHandle(q)
    BY <1>1, <1>3 DEF ServerHandle, At
  <2> QED BY <1>3, <1>14, <2>1 DEF ClientHandle
<1>16. HandleInv'
  BY <1>1, <1>15, HandleFrame
<1>17. GlobInv'
  <2>1. \A q \in Project : (At(q, "idle") \/ At(q, "built"))' <=> At(q, "idle") \/ At(q, "built")
    BY <1>1, <1>3 DEF At
  <2>2. \A q \in Project : At(q, "built")' <=> At(q, "built")
    BY <1>1, <1>3 DEF At
  <2> QED BY <1>1, <1>3, <1>14, <2>1, <2>2 DEF SInv, GlobInv, Watched, Registered
<1>18. InfoInv'
  BY <1>1, InfoFrame
<1>19. NoticeInv'
  <2>1. \A q \in Project : At(q, "idle") => At(q, "idle")'
    BY <1>1, <1>3 DEF At
  <2> QED BY <1>1, <2>1, NoticeFrame
<1> QED BY <1>4, <1>5, <1>10, <1>11, <1>12, <1>13, <1>16, <1>17, <1>18, <1>19 DEF SInv

\* A response reaches the project that waits for it.
LEMMA ReadKeeps ==
    ASSUME SInv, NEW r \in responses, readLoop(r), ~MixUps'
    PROVE  SInv'
<1>1. PICK p \in Project : Waits(p, r.id) /\ r.result \in {"done", "error"}
  BY DEF SInv, ResponseInv
<1>2. r.id \in DOMAIN pendingServerRequests /\ pendingServerRequests[r.id] = p
  <2>1. r.id \in DOMAIN pendingServerRequests
    BY <1>1 DEF SInv, PendingInv, Waits
  <2>2. pendingServerRequests[r.id] \in Project /\ Waits(pendingServerRequests[r.id], r.id)
    BY <2>1 DEF SInv, PendingInv
  <2> QED BY <1>1, <2>1, <2>2 DEF SInv, NumberInv, Waits
<1>3. /\ responses' = responses \ {r}
      /\ delivered' = [delivered EXCEPT ![p] = r.result]
      /\ pendingServerRequests' =
             [i \in DOMAIN pendingServerRequests \ {r.id} |-> pendingServerRequests[i]]
      /\ UNCHANGED <<root, lookups, dirty, failed, data, globs, watcherID, stage, call, nextWatcher,
                     watchers, clientSeq, requests, registrations, exists, events, event, todo,
                     marking, late, bypassed, refused, containingProjects>>
  BY <1>2 DEF readLoop, projectVars, eventVars, infoVars
<1>4. delivered'[p] = r.result /\ \A q \in Project : q # p => delivered'[q] = delivered[q]
  BY <1>3 DEF SInv, TypeInv
<1>5. TypeInv'
  <2>1. delivered' \in [Project -> {"none", "done", "error"}]
    BY <1>1, <1>3 DEF SInv, TypeInv
  <2> QED BY <1>3, <2>1 DEF SInv, TypeInv
<1>6. AskInv' /\ NumberInv'
  BY <1>3 DEF SInv, AskInv, Asking, NumberInv, At
<1>7. \A q \in Project : \A i : Waits(q, i)' <=> Waits(q, i) /\ q # p
  BY <1>1, <1>3, <1>4 DEF Waits, At
<1>8. \A i : Waits(p, i) => i = r.id
  BY <1>1 DEF Waits
<1>9. RequestInv'
  <2>1. \A s \in requests : ~Waits(p, s.id)
    BY <1>8 DEF SInv, RequestInv
  <2>2. \A s \in requests' : \E q \in Project :
            Waits(q, s.id)' /\ s.asks = call'[q].asks /\ s.handle = call'[q].handle /\ s.globs = globs'[q]
    BY <1>3, <1>7, <2>1 DEF SInv, RequestInv
  <2> QED BY <1>3, <2>2 DEF SInv, RequestInv
<1>10. ResponseInv'
  <2>1. \A s \in responses' : ~Waits(p, s.id)
    BY <1>3, <1>8 DEF SInv, ResponseInv
  <2>2. \A s \in responses' : s.result \in {"done", "error"} /\ \E q \in Project : Waits(q, s.id)'
    BY <1>3, <1>7, <2>1 DEF SInv, ResponseInv
  <2>3. \A q \in Project : ~At(q, "await")' => delivered'[q] = "none"
    BY <1>1, <1>3, <1>4 DEF SInv, ResponseInv, Waits, At
  <2> QED BY <1>3, <2>2, <2>3 DEF SInv, ResponseInv
<1>11. PendingInv'
  <2> DEFINE pending == DOMAIN pendingServerRequests
  <2>0. /\ DOMAIN pendingServerRequests' = pending \ {r.id}
        /\ \A i \in pending \ {r.id} : pendingServerRequests'[i] = pendingServerRequests[i]
    BY <1>3
  <2>1. ASSUME NEW i \in DOMAIN pendingServerRequests'
        PROVE  pendingServerRequests'[i] \in Project /\ Waits(pendingServerRequests[i], i)'
    <3>1. pendingServerRequests[i] \in Project /\ Waits(pendingServerRequests[i], i)
      BY <2>0 DEF SInv, PendingInv
    <3>2. pendingServerRequests[i] # p
      BY <1>8, <2>0, <3>1
    <3> QED BY <1>7, <2>0, <3>1, <3>2
  <2>2. ASSUME NEW q \in Project, At(q, "await")', delivered'[q] = "none"
        PROVE  call'[q].seq \in DOMAIN pendingServerRequests'
    <3>1. q # p /\ At(q, "await") /\ delivered[q] = "none"
      BY <1>1, <1>3, <1>4, <2>2 DEF At
    <3>2. call[q].seq # r.id
      BY <1>1, <3>1 DEF SInv, NumberInv, Waits
    <3>3. call[q].seq \in pending
      BY <3>1 DEF SInv, PendingInv
    <3> QED BY <1>3, <2>0, <3>2, <3>3
  <2> QED BY <2>1, <2>2 DEF PendingInv
<1>12. \A q \in Project : Did(q)' <=> Did(q)
  <2>1. Did(p)' <=> r.result = "done"
    BY <1>1, <1>3, <1>4 DEF Did, Waits, At
  <2>2. Did(p) <=> r.result = "done"
    BY <1>1 DEF Did, Waits, SInv, ResponseInv
  <2>3. \A q \in Project : q # p /\ At(q, "await") => call[q].seq # r.id
    BY <1>1 DEF SInv, NumberInv, Waits
  <2>4. \A q \in Project : q # p => (Did(q)' <=> Did(q))
    BY <1>3, <1>4, <2>3 DEF Did, At
  <2> QED BY <2>1, <2>2, <2>4
<1>13. \A q \in Project : UNCHANGED <<ServerHandle(q), ClientHandle(q)>>
  BY <1>3, <1>12 DEF ServerHandle, ClientHandle, At
<1>14. HandleInv'
  BY <1>3, <1>13, HandleFrame
<1>15. GlobInv'
  BY <1>3, <1>12 DEF SInv, GlobInv, Watched, Registered, At
<1>16. InfoInv'
  BY <1>3, InfoFrame
<1>17. NoticeInv'
  BY <1>3, NoticeFrame DEF At
<1> QED BY <1>5, <1>6, <1>9, <1>10, <1>11, <1>14, <1>15, <1>16, <1>17 DEF SInv

\* What happens to the wire, and to the other projects, when a project receives its response.
ReceiveStep(p) ==
    /\ At(p, "await") /\ delivered[p] # "none"
    /\ delivered' = [delivered EXCEPT ![p] = "none"]
    /\ stage' \in [Project -> Stages] /\ stage'[p] \in {"idle", "unwatched"}
    /\ UNCHANGED <<requests, responses, pendingServerRequests, clientSeq>>
    /\ \A q \in Project : q # p => UNCHANGED <<stage[q], call[q], globs[q], watcherID[q]>>

LEMMA Received ==
    ASSUME SInv, NEW p \in Project, ReceiveStep(p)
    PROVE  /\ RequestInv' /\ ResponseInv' /\ PendingInv' /\ NumberInv'
           /\ delivered' \in [Project -> {"none", "done", "error"}]
           /\ Did(p) <=> delivered[p] = "done"
           /\ \A q \in Project : q # p => (Did(q)' <=> Did(q)) /\ UNCHANGED <<ServerHandle(q), ClientHandle(q)>>
           /\ ~Did(p)' /\ ClientHandle(p)' = ServerHandle(p)'
<1>1. delivered' \in [Project -> {"none", "done", "error"}]
      /\ delivered'[p] = "none" /\ \A q \in Project : q # p => delivered'[q] = delivered[q]
  BY DEF SInv, TypeInv, ReceiveStep
<1>2. ~At(p, "await")' /\ ~At(p, "send")' /\ \A q \in Project : q # p => UNCHANGED <<At(q, "await"), At(q, "send")>>
  BY DEF ReceiveStep, At
<1>3. \A q \in Project : \A i : (Waits(q, i)' <=> Waits(q, i)) /\ (Waits(q, i) => q # p)
  BY <1>1, <1>2 DEF ReceiveStep, Waits
<1>4. RequestInv'
  <2>1. UNCHANGED <<requests, responses>>
    BY DEF ReceiveStep
  <2>2. \A q \in Project : \A i : Waits(q, i) => UNCHANGED <<call[q], globs[q]>>
    BY <1>3 DEF ReceiveStep
  <2> QED BY <1>3, <2>1, <2>2 DEF SInv, RequestInv
<1>5. ResponseInv' /\ PendingInv'
  <2>1. UNCHANGED <<responses, pendingServerRequests>> /\ \A q \in Project : q # p => UNCHANGED call[q]
    BY DEF ReceiveStep
  <2> QED BY <1>1, <1>2, <1>3, <2>1 DEF SInv, ResponseInv, PendingInv
<1>6. NumberInv'
  <2>1. UNCHANGED clientSeq
    BY DEF ReceiveStep
  <2>2. \A q \in Project : /\ At(q, "send")' => At(q, "send")
                           /\ At(q, "await")' => At(q, "await") /\ call'[q].seq = call[q].seq
    BY <1>2 DEF ReceiveStep
  <2> QED BY <2>1, <2>2, NumberFrame
<1>7. /\ Did(p) <=> delivered[p] = "done"
      /\ ~Did(p)'
  BY <1>2 DEF Did, ReceiveStep
<1>8. \A q \in Project : q # p => (Did(q)' <=> Did(q)) /\ UNCHANGED <<ServerHandle(q), ClientHandle(q)>>
  <2>1. \A q \in Project : q # p => UNCHANGED <<stage[q], call[q], watcherID[q], delivered[q]>>
    BY <1>1 DEF ReceiveStep
  <2>2. UNCHANGED responses
    BY DEF ReceiveStep
  <2> QED BY <2>1, <2>2 DEF Did, ClientHandle, ServerHandle, At
<1>9. ClientHandle(p)' = ServerHandle(p)'
  BY <1>7 DEF ClientHandle
<1> QED BY <1>1, <1>4, <1>5, <1>6, <1>7, <1>8, <1>9

\* The client refuses: the update ends with what server and client had.
LEMMA RefuseKeeps ==
    ASSUME SInv, NEW p \in Project, Refuse(p), ~MixUps'
    PROVE  SInv'
<1>1. /\ At(p, "await") /\ delivered[p] = "error"
      /\ delivered' = [delivered EXCEPT ![p] = "none"]
      /\ stage' = [stage EXCEPT ![p] = "idle"] /\ call' = Ended(p)
      /\ refused' = refused \cup {p}
      /\ UNCHANGED <<root, lookups, dirty, failed, data, globs, watcherID, nextWatcher, watchers,
                     clientSeq, pendingServerRequests, requests, responses,
                     registrations, exists, events, event, todo, marking, late, bypassed,
                     containingProjects>>
  BY DEF Refuse, Receive, Fail, End, Go, projectVars, clientVars, eventVars, infoVars, Ended
<1>2. call \in [Project -> CallRecord] /\ stage \in [Project -> Stages]
  BY DEF SInv, TypeInv
<1>3. /\ \A q \in Project : q # p => UNCHANGED <<stage[q], call[q]>>
      /\ stage'[p] = "idle" /\ call'[p].asks = "nothing"
      /\ call' \in [Project -> CallRecord] /\ stage' \in [Project -> Stages]
  BY <1>1, <1>2, CallEnds DEF Stages
<1>4. ReceiveStep(p)
  BY <1>1, <1>3 DEF ReceiveStep
<1>5. /\ RequestInv' /\ ResponseInv' /\ PendingInv' /\ NumberInv'
      /\ delivered' \in [Project -> {"none", "done", "error"}] /\ ~Did(p) /\ ~Did(p)'
      /\ \A q \in Project : q # p => (Did(q)' <=> Did(q)) /\ UNCHANGED <<ServerHandle(q), ClientHandle(q)>>
      /\ ClientHandle(p)' = ServerHandle(p)'
  BY <1>1, <1>4, Received
<1>6. TypeInv'
  BY <1>1, <1>3, <1>5 DEF SInv, TypeInv
<1>7. AskInv'
  <2>1. stage'[p] \notin Wire
    BY <1>3 DEF Wire
  <2> QED BY <1>1, <1>3, <2>1, AskFrame
<1>8. \A q \in Project : UNCHANGED <<ServerHandle(q), ClientHandle(q)>>
  <2>1. UNCHANGED ServerHandle(p) /\ ClientHandle(p) = ServerHandle(p)
    BY <1>1, <1>3, <1>5 DEF ServerHandle, ClientHandle, At
  <2> QED BY <1>5, <2>1
<1>9. HandleInv'
  BY <1>1, <1>8, HandleFrame
<1>10. GlobInv'
  <2>1. \A q \in Project : (At(q, "idle") \/ At(q, "built"))' /\ q \notin refused' =>
            (At(q, "idle") \/ At(q, "built")) /\ q \notin refused
    BY <1>1, <1>3 DEF At
  <2>2. \A q \in Project : ~At(q, "built")' => ~At(q, "built")
    BY <1>1, <1>3 DEF At
  <2>3. \A q \in Project : Did(q)' => Did(q) /\ q # p
    BY <1>5
  <2> QED BY <1>1, <1>3, <2>1, <2>2, <2>3 DEF SInv, GlobInv, Watched, Registered
<1>11. InfoInv'
  BY <1>1, InfoFrame
<1>12. NoticeInv'
  <2>1. \A q \in Project : At(q, "idle") => At(q, "idle")' /\ (q \in refused => q \in refused')
    BY <1>1, <1>3 DEF At
  <2> QED BY <1>1, <2>1, NoticeFrame
<1> QED BY <1>5, <1>6, <1>7, <1>9, <1>10, <1>11, <1>12 DEF SInv

\* UnwatchFiles returns: neither server nor client have the handle.
LEMMA UnwatchKeeps ==
    ASSUME SInv, NEW p \in Project, Unwatch(p), ~MixUps'
    PROVE  SInv'
<1>1. /\ At(p, "await") /\ delivered[p] = "done" /\ call[p].asks = "unwatch"
      /\ delivered' = [delivered EXCEPT ![p] = "none"]
      /\ stage' = [stage EXCEPT ![p] = "unwatched"]
      /\ watchers' = watchers \ {call[p].handle}
      /\ UNCHANGED <<root, lookups, dirty, failed, data, globs, watcherID, call, nextWatcher,
                     clientSeq, pendingServerRequests, requests, responses,
                     registrations, exists, events, event, todo, marking, late, bypassed, refused,
                     containingProjects>>
  BY DEF Unwatch, Receive, Remaining, Go, projectVars, clientVars, eventVars, infoVars
<1>2. call[p].handle = watcherID[p] /\ watcherID[p] # None
  <2>1. stage[p] \in Wire
    BY <1>1 DEF At, Wire
  <2> QED BY <1>1, <2>1 DEF SInv, AskInv, Asking
<1>3. /\ \A q \in Project : q # p => UNCHANGED stage[q]
      /\ stage'[p] = "unwatched" /\ stage' \in [Project -> Stages]
  BY <1>1 DEF SInv, TypeInv, Stages
<1>4. ReceiveStep(p)
  BY <1>1, <1>3 DEF ReceiveStep
<1>5. /\ RequestInv' /\ ResponseInv' /\ PendingInv' /\ NumberInv'
      /\ delivered' \in [Project -> {"none", "done", "error"}] /\ Did(p) /\ ~Did(p)'
      /\ \A q \in Project : q # p => (Did(q)' <=> Did(q)) /\ UNCHANGED <<ServerHandle(q), ClientHandle(q)>>
      /\ ClientHandle(p)' = ServerHandle(p)'
  BY <1>1, <1>4, Received
<1>6. TypeInv'
  BY <1>1, <1>3, <1>5 DEF SInv, TypeInv
<1>7. AskInv'
  <2>1. stage'[p] \notin Wire /\ call'[p].asks # "watch"
    BY <1>1, <1>3 DEF Wire
  <2> QED BY <1>1, <1>3, <2>1, AskFrame
<1>8. /\ ServerHandle(p)' = None /\ ServerHandle(p) = watcherID[p]
      /\ ClientHandle(p)' = None /\ ClientHandle(p) = None
  BY <1>1, <1>3, <1>5 DEF ServerHandle, ClientHandle, At
<1>9. HandleInv'
  <2>1. {ClientHandle(q)' : q \in Project} = {ClientHandle(q) : q \in Project}
    BY <1>5, <1>8
  <2>2. \A q \in Project : q # p => ServerHandle(q) # watcherID[p]
    BY <1>2 DEF SInv, HandleInv, ServerHandle
  <2>3. watchers' = {ServerHandle(q)' : q \in Project} \ {None}
    BY <1>1, <1>2, <1>5, <1>8, <2>2 DEF SInv, HandleInv
  <2> QED BY <1>1, <2>1, <2>3 DEF SInv, HandleInv
<1>10. GlobInv'
  <2>1. \A q \in Project : (At(q, "idle") \/ At(q, "built"))' => At(q, "idle") \/ At(q, "built")
    BY <1>3 DEF At
  <2>2. \A q \in Project : ~At(q, "built")' => ~At(q, "built")
    BY <1>1, <1>3 DEF At
  <2>3. \A q \in Project : Did(q)' => Did(q) /\ q # p
    BY <1>5
  <2> QED BY <1>1, <2>1, <2>2, <2>3 DEF SInv, GlobInv, Watched, Registered
<1>11. InfoInv'
  BY <1>1, InfoFrame
<1>12. NoticeInv'
  <2>1. \A q \in Project : At(q, "idle") => At(q, "idle")'
    BY <1>1, <1>3 DEF At
  <2> QED BY <1>1, <2>1, NoticeFrame
<1> QED BY <1>5, <1>6, <1>7, <1>9, <1>10, <1>11, <1>12 DEF SInv

\* WatchFiles returns: server and client have the new handle, which the project keeps.
LEMMA WatchKeeps ==
    ASSUME SInv, NEW p \in Project, Watch(p), ~MixUps'
    PROVE  SInv'
<1>1. /\ At(p, "await") /\ delivered[p] = "done" /\ call[p].asks = "watch"
      /\ delivered' = [delivered EXCEPT ![p] = "none"]
      /\ stage' = [stage EXCEPT ![p] = "idle"] /\ call' = Ended(p)
      /\ watchers' = watchers \cup {call[p].handle}
      /\ nextWatcher' = nextWatcher + 1
      /\ watcherID' = [watcherID EXCEPT ![p] = call[p].handle]
      /\ refused' = refused \ {p}
      /\ UNCHANGED <<root, lookups, dirty, failed, data, globs,
                     clientSeq, pendingServerRequests, requests, responses,
                     registrations, exists, events, event, todo, marking, late, bypassed,
                     containingProjects>>
  BY DEF Watch, NextHandle, Receive, Succeed, End, Go, clientVars, eventVars, infoVars, Ended
<1>2. call[p].handle = nextWatcher /\ watcherID[p] = None /\ nextWatcher \in Nat
  <2>1. stage[p] \in Wire
    BY <1>1 DEF At, Wire
  <2> QED BY <1>1, <2>1 DEF SInv, AskInv, Asking, TypeInv
<1>3. call \in [Project -> CallRecord] /\ stage \in [Project -> Stages]
  BY DEF SInv, TypeInv
<1>4. /\ \A q \in Project : q # p => UNCHANGED <<stage[q], call[q], watcherID[q]>>
      /\ stage'[p] = "idle" /\ watcherID'[p] = nextWatcher /\ call'[p].asks = "nothing"
      /\ call' \in [Project -> CallRecord] /\ stage' \in [Project -> Stages]
      /\ watcherID' \in [Project -> Int]
  BY <1>1, <1>2, <1>3, CallEnds DEF Stages, SInv, TypeInv
<1>5. ReceiveStep(p)
  BY <1>1, <1>4 DEF ReceiveStep
<1>6. /\ RequestInv' /\ ResponseInv' /\ PendingInv' /\ NumberInv'
      /\ delivered' \in [Project -> {"none", "done", "error"}] /\ Did(p) /\ ~Did(p)'
      /\ \A q \in Project : q # p => (Did(q)' <=> Did(q)) /\ UNCHANGED <<ServerHandle(q), ClientHandle(q)>>
      /\ ClientHandle(p)' = ServerHandle(p)'
  BY <1>1, <1>5, Received
<1>7. TypeInv'
  BY <1>1, <1>2, <1>4, <1>6 DEF SInv, TypeInv
<1>8. AskInv'
  <2>1. \A q \in Project : q # p => call[q].asks # "watch"
    BY <1>1, OneAsks
  <2>2. stage'[p] \notin Wire
    BY <1>4 DEF Wire
  <2> QED BY <1>4, <2>1, <2>2 DEF SInv, AskInv, Asking
<1>9. /\ ServerHandle(p)' = nextWatcher /\ ServerHandle(p) = None
      /\ ClientHandle(p)' = nextWatcher /\ ClientHandle(p) = nextWatcher
  BY <1>1, <1>2, <1>4, <1>6 DEF ServerHandle, ClientHandle, At
<1>10. HandleInv'
  <2>1. {ClientHandle(q)' : q \in Project} = {ClientHandle(q) : q \in Project}
    BY <1>6, <1>9
  <2>2. nextWatcher # None
    BY <1>2 DEF None
  <2>3. watchers' = {ServerHandle(q)' : q \in Project} \ {None}
    BY <1>1, <1>2, <1>6, <1>9, <2>2 DEF SInv, HandleInv
  <2>4. \A q \in Project : q # p => watcherID'[q] = None \/ watcherID'[q] \in 0 .. nextWatcher - 1
    BY <1>4 DEF SInv, HandleInv
  <2>5. \A q \in Project : watcherID'[q] = None \/ watcherID'[q] \in 0 .. nextWatcher' - 1
    BY <1>1, <1>2, <1>4, <2>4
  <2>6. \A q, u \in Project : watcherID'[q] = watcherID'[u] /\ watcherID'[q] # None => q = u
    <3>1. \A q \in Project : q # p => watcherID'[q] # nextWatcher
      BY <1>2, <2>2, <2>4
    <3> QED BY <1>4, <3>1 DEF SInv, HandleInv
  <2> QED BY <1>1, <2>1, <2>3, <2>5, <2>6 DEF SInv, HandleInv
<1>11. GlobInv'
  <2>1. \A q \in Project : q # p => UNCHANGED <<At(q, "idle"), At(q, "built"), watcherID[q]>>
                                    /\ (q \in refused' <=> q \in refused)
    BY <1>1, <1>4 DEF At
  <2>2. \A q \in Project : Did(q)' => Did(q) /\ q # p
    BY <1>6
  <2>3. Registered(nextWatcher, globs[p])
    BY <1>1, <1>2, <1>6 DEF SInv, GlobInv
  <2>4. ~At(p, "built") /\ ~At(p, "built")'
    BY <1>1, <1>4 DEF At
  <2>5. \A q \in Project : ~At(q, "built")' => data'[q] = failed'[q]
    BY <1>1, <2>1, <2>4 DEF SInv, GlobInv
  <2>6. \A q \in Project : (At(q, "idle") \/ At(q, "built"))' /\ q \notin refused' /\ globs'[q] # {}
                             => Registered(watcherID'[q], globs'[q])
    BY <1>1, <1>4, <2>1, <2>3 DEF SInv, GlobInv
  <2>7. \A q \in Project : Did(q)' /\ call'[q].asks = "watch" => Registered(call'[q].handle, globs'[q])
    BY <1>1, <1>4, <2>2 DEF SInv, GlobInv
  <2> QED BY <1>1, <2>5, <2>6, <2>7 DEF SInv, GlobInv, Watched, Registered
<1>12. InfoInv'
  BY <1>1, InfoFrame
<1>13. NoticeInv'
  <2>1. \A q \in Project : At(q, "idle") => At(q, "idle")' /\ (q \in refused => q \in refused')
    BY <1>1, <1>4 DEF At
  <2> QED BY <1>1, <2>1, NoticeFrame
<1> QED BY <1>6, <1>7, <1>8, <1>10, <1>11, <1>12, <1>13 DEF SInv


(***************************************************************************)
(* The steps of the client and of the dispatch loop.                       *)
(***************************************************************************)

\* Who else asks, or has a handle, does not have the one that is asked for.
LEMMA HandlesDiffer ==
    ASSUME SInv, NEW p \in Project, stage[p] \in Wire, ~Did(p), NEW q \in Project
    PROVE  /\ call[p].asks = "watch" => ClientHandle(q) # nextWatcher /\ ServerHandle(q) # nextWatcher
           /\ call[p].asks = "unwatch" /\ q # p => ClientHandle(q) # watcherID[p]
           /\ Did(q) /\ call[q].asks = "watch" => call[q].handle = nextWatcher
           /\ nextWatcher # None /\ watcherID[q] # nextWatcher
<1>1. nextWatcher # None /\ \A u \in Project : watcherID[u] # nextWatcher
  BY DEF SInv, TypeInv, HandleInv, None
<1>2. Did(q) /\ call[q].asks = "watch" => call[q].handle = nextWatcher
  <2>1. Did(q) => stage[q] \in Wire
    BY DEF Did, At, Wire
  <2> QED BY <2>1 DEF SInv, AskInv, Asking
<1>3. ServerHandle(q) \in {None, watcherID[q]}
  BY DEF ServerHandle
<1>4. ClientHandle(q) \in {None, watcherID[q]} \/ (Did(q) /\ call[q].asks = "watch" /\ ClientHandle(q) = nextWatcher)
  BY <1>2, <1>3 DEF ClientHandle
<1>5. call[p].asks = "watch" => ClientHandle(q) # nextWatcher /\ ServerHandle(q) # nextWatcher
  <2>1. call[p].asks = "watch" /\ Did(q) => call[q].asks # "watch"
    BY OneAsks
  <2> QED BY <1>1, <1>3, <1>4, <2>1
<1>6. call[p].asks = "unwatch" /\ q # p => ClientHandle(q) # watcherID[p]
  <2>1. call[p].asks = "unwatch" => watcherID[p] # None
    BY DEF SInv, AskInv, Asking
  <2>2. q # p /\ watcherID[p] # None => watcherID[q] # watcherID[p]
    BY DEF SInv, HandleInv
  <2> QED BY <1>1, <1>4, <2>1, <2>2
<1> QED BY <1>1, <1>2, <1>5, <1>6

\* The client does what it is asked, or refuses; the project hears of it later.
LEMMA AnswerKeeps ==
    ASSUME SInv, NEW r \in requests, Answer(r), ~MixUps'
    PROVE  SInv'
<1>1. PICK p \in Project :
          Waits(p, r.id) /\ r.asks = call[p].asks /\ r.handle = call[p].handle /\ r.globs = globs[p]
  BY DEF SInv, RequestInv
<1>2. /\ At(p, "await") /\ stage[p] \in Wire /\ delivered[p] = "none" /\ call[p].seq = r.id
      /\ Asking(p)
  <2>1. At(p, "await") /\ stage[p] \in Wire /\ delivered[p] = "none" /\ call[p].seq = r.id
    BY <1>1 DEF Waits, At, Wire
  <2> QED BY <2>1 DEF SInv, AskInv
<1>3. PICK s \in {[id |-> r.id, result |-> "done"], [id |-> r.id, result |-> "error"]} :
          /\ responses' = responses \cup {s}
          /\ registrations' =
                 IF s.result = "error" THEN registrations
                 ELSE IF r.asks = "watch"
                 THEN registrations \cup {[handle |-> r.handle, globs |-> r.globs]}
                 ELSE {g \in registrations : g.handle # r.handle}
  <2>1. [id |-> r.id, result |-> "done"].result = "done" /\ [id |-> r.id, result |-> "error"].result = "error"
    OBVIOUS
  <2> QED BY <2>1 DEF Answer
<1>4. s.id = r.id /\ s.result \in {"done", "error"}
  BY <1>3
<1>5. /\ requests' = requests \ {r}
      /\ UNCHANGED <<root, lookups, dirty, failed, data, globs, watcherID, stage, call, nextWatcher,
                     watchers, clientSeq, pendingServerRequests, delivered, exists, events, event,
                     todo, marking, late, bypassed, refused, containingProjects>>
  BY DEF Answer, projectVars, serverVars, eventVars, infoVars
<1>6. TypeInv' /\ AskInv' /\ PendingInv' /\ NumberInv'
  BY <1>5 DEF SInv, TypeInv, AskInv, Asking, PendingInv, NumberInv, Waits, At
<1>7. \A q \in Project : \A i : Waits(q, i)' <=> Waits(q, i)
  BY <1>5 DEF Waits, At
<1>8. \A t \in responses : t.id # r.id
  BY DEF SInv, RequestInv
<1>9. RequestInv'
  <2>1. \A t \in requests' : t \in requests /\ t.id # s.id
    BY <1>4, <1>5 DEF SInv, RequestInv
  <2>2. \A t \in requests' : \E q \in Project :
            Waits(q, t.id)' /\ t.asks = call'[q].asks /\ t.handle = call'[q].handle /\ t.globs = globs'[q]
    BY <1>5, <1>7, <2>1 DEF SInv, RequestInv
  <2>3. \A t \in requests', u \in responses' : t.id # u.id
    BY <1>3, <2>1 DEF SInv, RequestInv
  <2> QED BY <2>1, <2>2, <2>3 DEF SInv, RequestInv
<1>10. ResponseInv'
  <2>1. \A t \in responses' : t.result \in {"done", "error"} /\ \E q \in Project : Waits(q, t.id)'
    BY <1>1, <1>3, <1>4, <1>7 DEF SInv, ResponseInv
  <2>2. \A t, u \in responses' : t.id = u.id => t = u
    BY <1>3, <1>4, <1>8 DEF SInv, ResponseInv
  <2>3. \A q \in Project : ~At(q, "await")' => delivered'[q] = "none"
    BY <1>5 DEF SInv, ResponseInv, At
  <2> QED BY <2>1, <2>2, <2>3 DEF ResponseInv
<1>11. /\ ~Did(p) /\ (Did(p)' <=> s.result = "done")
       /\ \A q \in Project : q # p => (Did(q)' <=> Did(q))
  <2>1. ~Did(p)
    BY <1>2, <1>8 DEF Did
  <2>2. Did(p)' <=> s.result = "done"
    BY <1>2, <1>3, <1>4, <1>5, <1>8 DEF Did, At
  <2>3. \A q \in Project : q # p /\ At(q, "await") => call[q].seq # r.id
    BY <1>2 DEF SInv, NumberInv
  <2>4. \A q \in Project : q # p => (Did(q)' <=> Did(q))
    BY <1>3, <1>4, <1>5, <2>3 DEF Did, At
  <2> QED BY <2>1, <2>2, <2>4
<1>12. /\ \A q \in Project : UNCHANGED ServerHandle(q)
       /\ \A q \in Project : q # p => UNCHANGED ClientHandle(q)
       /\ ServerHandle(p) = watcherID[p] /\ ClientHandle(p) = watcherID[p]
  BY <1>2, <1>5, <1>11 DEF ServerHandle, ClientHandle, At
<1>13. InfoInv'
  BY <1>5, InfoFrame
<1>14. NoticeInv'
  BY <1>5, NoticeFrame DEF At
<1>15. HandleInv' /\ GlobInv'
  <2>1. CASE s.result = "error"
    <3>1. registrations' = registrations
      BY <1>3, <2>1
    <3>2. \A q \in Project : Did(q)' <=> Did(q)
      BY <1>11, <2>1
    <3>3. UNCHANGED ClientHandle(p)
      BY <1>5, <1>12, <3>2 DEF ClientHandle
    <3>4. HandleInv'
      BY <1>5, <1>12, <3>1, <3>3, HandleFrame
    <3>5. GlobInv'
      BY <1>5, <3>1, <3>2 DEF SInv, GlobInv, Watched, Registered, At
    <3> QED BY <3>4, <3>5
  <2>2. CASE s.result = "done" /\ r.asks = "watch"
    <3> DEFINE new == [handle |-> r.handle, globs |-> r.globs]
    <3>1. call[p].asks = "watch" /\ call[p].handle = nextWatcher /\ watcherID[p] = None
      BY <1>1, <1>2, <2>2 DEF Asking
    <3>2. registrations' = registrations \cup {new} /\ new.handle = nextWatcher /\ new.globs = globs[p]
      BY <1>1, <1>3, <2>2, <3>1
    <3> HIDE DEF new
    <3>3. ClientHandle(p)' = nextWatcher /\ ClientHandle(p) = None
      <4>1. Did(p)' /\ call'[p].asks = "watch" /\ call'[p].handle = nextWatcher
        BY <1>5, <1>11, <2>2, <3>1
      <4> QED BY <1>12, <3>1, <4>1 DEF ClientHandle
    <3>4. nextWatcher # None /\ \A q \in Project : ClientHandle(q) # nextWatcher
      BY <1>2, <1>11, <3>1, HandlesDiffer
    <3>5. {ClientHandle(q)' : q \in Project} \ {None} = ({ClientHandle(q) : q \in Project} \ {None}) \cup {nextWatcher}
      BY <1>12, <3>3, <3>4
    <3>6. {g.handle : g \in registrations'} = {g.handle : g \in registrations} \cup {nextWatcher}
      BY <3>2
    <3>7. ASSUME NEW g \in registrations PROVE g.handle # nextWatcher
      <4>1. {h.handle : h \in registrations} = {ClientHandle(q) : q \in Project} \ {None}
        BY DEF SInv, HandleInv
      <4>2. g.handle \in {ClientHandle(q) : q \in Project}
        BY <4>1
      <4> QED BY <3>4, <4>2
    <3>8. {ServerHandle(q)' : q \in Project} = {ServerHandle(q) : q \in Project}
      BY <1>12
    <3>9. HandleInv'
      <4>1. \A g, h \in registrations' : g.handle = h.handle => g = h
        BY <3>2, <3>7 DEF SInv, HandleInv
      <4>2. {g.handle : g \in registrations'} = {ClientHandle(q)' : q \in Project} \ {None}
        BY <3>5, <3>6 DEF SInv, HandleInv
      <4> QED BY <1>5, <3>8, <4>1, <4>2 DEF SInv, HandleInv
    <3>10. GlobInv'
      <4>1. registrations \subseteq registrations' /\ Registered(nextWatcher, globs[p])'
        BY <1>5, <3>2 DEF Registered
      <4>2. \A q \in Project : Did(q)' /\ call'[q].asks = "watch" => Registered(call[q].handle, globs[q])'
        BY <1>5, <1>11, <3>1, <4>1 DEF SInv, GlobInv, Registered
      <4>3. \A q \in Project :
               (At(q, "idle") \/ At(q, "built"))' /\ q \notin refused' /\ globs'[q] # {} =>
                   Registered(watcherID[q], globs[q])'
        BY <1>5, <4>1 DEF SInv, GlobInv, Registered, At
      <4> QED BY <1>5, <4>2, <4>3 DEF SInv, GlobInv, Watched, At
    <3> QED BY <3>9, <3>10
  <2>3. CASE s.result = "done" /\ r.asks = "unwatch"
    <3>1. call[p].asks = "unwatch" /\ call[p].handle = watcherID[p] /\ watcherID[p] # None
      BY <1>1, <1>2, <2>3 DEF Asking
    <3>2. registrations' = {g \in registrations : g.handle # watcherID[p]}
      BY <1>1, <1>3, <2>3, <3>1
    <3>3. ClientHandle(p)' = None
      <4>1. Did(p)' /\ call'[p].asks = "unwatch"
        BY <1>5, <1>11, <2>3, <3>1
      <4> QED BY <4>1 DEF ClientHandle
    <3>4. \A q \in Project : /\ q # p => ClientHandle(q) # watcherID[p]
                             /\ Did(q) /\ call[q].asks = "watch" => call[q].handle = nextWatcher
      BY <1>2, <1>11, <3>1, HandlesDiffer
    <3>5. watcherID[p] # nextWatcher
      BY <1>2, <1>11, HandlesDiffer
    <3>6. {ClientHandle(q)' : q \in Project} \ {None}
              = ({ClientHandle(q) : q \in Project} \ {None}) \ {watcherID[p]}
      BY <1>12, <3>3, <3>4
    <3>7. {g.handle : g \in registrations'} = {g.handle : g \in registrations} \ {watcherID[p]}
      BY <3>2
    <3>8. {ServerHandle(q)' : q \in Project} = {ServerHandle(q) : q \in Project}
      BY <1>12
    <3>9. HandleInv'
      <4>1. {g.handle : g \in registrations'} = {ClientHandle(q)' : q \in Project} \ {None}
        BY <3>6, <3>7 DEF SInv, HandleInv
      <4> QED BY <1>5, <3>2, <3>8, <4>1 DEF SInv, HandleInv
    <3>10. GlobInv'
      <4>1. \A h, gs : h # watcherID[p] /\ Registered(h, gs) => Registered(h, gs)'
        BY <3>2 DEF Registered
      <4>2. \A q \in Project : Did(q)' /\ call'[q].asks = "watch" => Registered(call[q].handle, globs[q])'
        BY <1>5, <1>11, <3>1, <3>4, <3>5, <4>1 DEF SInv, GlobInv
      <4>3. ASSUME NEW q \in Project, At(q, "idle") \/ At(q, "built"), q \notin refused, globs[q] # {}
            PROVE  Registered(watcherID[q], globs[q])'
        <5>1. q # p /\ Registered(watcherID[q], globs[q])
          BY <1>2, <4>3 DEF SInv, GlobInv, At
        <5>2. watcherID[q] # watcherID[p]
          BY <3>1, <5>1 DEF SInv, HandleInv
        <5> QED BY <1>5, <4>1, <5>1, <5>2
      <4>4. \A q \in Project :
               (At(q, "idle") \/ At(q, "built"))' /\ q \notin refused' /\ globs'[q] # {} =>
                   Registered(watcherID[q], globs[q])'
        BY <1>5, <4>3 DEF At
      <4> QED BY <1>5, <4>2, <4>4 DEF SInv, GlobInv, Watched, At
    <3> QED BY <3>9, <3>10
  <2> QED BY <1>1, <1>2, <1>4, <2>1, <2>2, <2>3 DEF Asking
<1> QED BY <1>6, <1>9, <1>10, <1>13, <1>14, <1>15 DEF SInv

\* A file that an idle project misses is created: the client has the globs of the project,
\* which cover it, and tells.
LEMMA CreateKeeps ==
    ASSUME SInv, NEW k \in Location, Create(k)
    PROVE  SInv'
<1>1. /\ exists' = exists \cup {k} /\ events \subseteq events' /\ events' \subseteq events \cup {k}
      /\ (\E g \in registrations : Watched(k, g.globs)) => k \in events'
      /\ late' = [p \in Project |-> late[p] \cup {l \in {k} : ~At(p, "idle")}]
      /\ UNCHANGED <<root, lookups, dirty, failed, data, globs, watcherID, stage, call, nextWatcher,
                     watchers, clientSeq, pendingServerRequests, delivered, requests, responses,
                     registrations, event, todo, marking, bypassed, refused, containingProjects>>
  BY DEF Create, projectVars, serverVars, clientVars, infoVars
<1>2. TypeInv'
  <2>1. late' \in [Project -> SUBSET Location]
    BY <1>1 DEF SInv, TypeInv
  <2> QED BY <1>1, <2>1 DEF SInv, TypeInv
<1>3. ~MixUps' /\ AskInv' /\ NumberInv'
  BY <1>1 DEF SInv, MixUps, AskInv, Asking, NumberInv, At
<1>4. RequestInv' /\ ResponseInv' /\ PendingInv'
  BY <1>1 DEF SInv, RequestInv, ResponseInv, PendingInv, Waits, At
<1>5. \A q \in Project : (Did(q)' <=> Did(q)) /\ UNCHANGED <<ServerHandle(q), ClientHandle(q)>>
  BY <1>1 DEF Did, ServerHandle, ClientHandle, At
<1>6. HandleInv'
  BY <1>1, <1>5, HandleFrame
<1>7. GlobInv'
  BY <1>1, <1>5 DEF SInv, GlobInv, Watched, Registered, At
<1>8. InfoInv'
  BY <1>1 DEF SInv, InfoInv
<1>9. NoticeInv'
  <2> SUFFICES ASSUME NEW p \in Project, NEW l \in failed[p], l \in exists'
               PROVE  Noticed(p, l)'
    BY <1>1 DEF NoticeInv
  <2>1. late[p] \subseteq late'[p] /\ (~At(p, "idle") => k \in late'[p])
    BY <1>1
  <2>2. CASE l \in exists
    BY <1>1, <2>1, <2>2 DEF SInv, NoticeInv, Noticed, At
  <2>3. CASE l = k /\ At(p, "idle") /\ ~NearRoot(l) /\ p \notin refused
    <3>1. data[p] = failed[p]
      BY <2>3 DEF SInv, GlobInv, At
    <3>2. Watched(l, globs[p])
      BY <2>3, <3>1 DEF SInv, GlobInv
    <3>3. globs[p] # {}
      BY <3>2 DEF Watched
    <3>4. \E g \in registrations : g.globs = globs[p]
      BY <2>3, <3>3 DEF SInv, GlobInv, Registered
    <3>5. l \in events'
      BY <1>1, <2>3, <3>2, <3>4
    <3> QED BY <1>1, <2>3, <3>5 DEF Noticed, At
  <2>4. CASE l = k /\ ~At(p, "idle")
    BY <2>1, <2>4 DEF Noticed
  <2>5. CASE l = k /\ At(p, "idle") /\ (NearRoot(l) \/ p \in refused)
    BY <1>1, <2>5 DEF Noticed, At
  <2> QED BY <1>1, <2>2, <2>3, <2>4, <2>5
<1> QED BY <1>2, <1>3, <1>4, <1>6, <1>7, <1>8, <1>9 DEF SInv

\* What a step of the dispatch loop leaves alone.
OnlyDispatches ==
    UNCHANGED <<root, lookups, failed, data, globs, watcherID, stage, call, nextWatcher, watchers,
                clientSeq, pendingServerRequests, delivered, requests, responses, registrations,
                refused, containingProjects, exists, late>>

LEMMA DispatchOnlyMarks ==
    ASSUME SInv, OnlyDispatches, dirty' \in [Project -> Marks],
           bypassed' \in [Project -> SUBSET Location], todo' \subseteq Project, marking' \subseteq Project,
           events' \subseteq Location
    PROVE  OnlyMarks
BY DEF OnlyMarks, OnlyDispatches, SInv, TypeInv

\* A file is opened or closed: no project loses or finds one by it.
LEMMA OpenCloseKeeps ==
    ASSUME SInv, NEW l \in Location, OpenFile(l) \/ CloseFile(l)
    PROVE  SInv'
<1>1. OnlyDispatches /\ UNCHANGED <<dirty, bypassed, todo, marking, events, event>>
  BY DEF OpenFile, CloseFile, OnlyDispatches, projectVars, serverVars, clientVars, eventVars
<1>2. OnlyMarks
  BY <1>1, DispatchOnlyMarks DEF SInv, TypeInv
<1>3. NoticeInv'
  BY <1>1, NoticeFrame DEF OnlyDispatches, At
<1> QED BY <1>2, <1>3, OnlyMarksKeeps

\* The dispatch loop takes an event: a project that is not told has been passed over, or has
\* the file.
LEMMA EventKeeps ==
    ASSUME SInv, NEW k \in events, OnWatchedFilesChanged(k)
    PROVE  SInv'
<1>1. /\ event = NoEvent /\ events' = events \ {k}
      /\ todo' = Told(k)
      /\ event' = IF Told(k) = {} THEN NoEvent ELSE [at |-> k, known |-> k \in scriptInfos]
      /\ bypassed' = [p \in Project |-> bypassed[p] \cup {l \in {k} : p \notin Told(k)}]
      /\ OnlyDispatches /\ UNCHANGED <<dirty, marking>>
      /\ k \in Location /\ Told(k) \subseteq Project
  <2>1. k \in Location
    BY DEF SInv, TypeInv
  <2>2. Told(k) \subseteq Project
    BY <2>1 DEF Told, SInv, TypeInv
  <2> QED BY <2>1, <2>2 DEF OnWatchedFilesChanged, OnlyDispatches, projectVars, serverVars, clientVars, infoVars
<1>2. NoticeInv'
  <2> SUFFICES ASSUME NEW q \in Project, NEW l \in failed[q], l \in exists
               PROVE  Noticed(q, l)'
    BY <1>1 DEF NoticeInv, OnlyDispatches
  <2>1. Noticed(q, l)
    BY DEF SInv, NoticeInv
  <2>2. l \in Location /\ l # <<>>
    <3>1. l \in Location
      BY DEF SInv, TypeInv
    <3> QED BY <3>1, LocationsAreFiles DEF IsFileName
  <2>3. bypassed[q] \subseteq bypassed'[q] /\ (q \notin Told(k) => k \in bypassed'[q])
    BY <1>1
  <2>4. event.at # l
    BY <1>1, <2>2 DEF NoEvent
  <2>5. CASE l # k \/ q \notin Told(k)
    BY <1>1, <2>1, <2>3, <2>4, <2>5 DEF Noticed, At, OnlyDispatches
  <2>6. CASE l = k /\ q \in Told(k)
    <3>1. k \notin scriptInfos
      BY <2>2, <2>6 DEF Told, SInv, InfoInv
    <3>2. q \in todo' /\ event'.at = l /\ ~event'.known
      BY <1>1, <2>6, <3>1
    <3> QED BY <1>1, <2>1, <2>3, <3>2 DEF Noticed, At, OnlyDispatches
  <2> QED BY <2>5, <2>6
<1>3. OnlyMarks
  <2>1. bypassed' \in [Project -> SUBSET Location]
    BY <1>1 DEF SInv, TypeInv
  <2> QED BY <1>1, <2>1, DispatchOnlyMarks DEF SInv, TypeInv
<1> QED BY <1>2, <1>3, OnlyMarksKeeps

\* A project is told of the event: if it has looked for the file, then it is marked.
LEMMA TellKeeps ==
    ASSUME SInv, NEW p \in Project,
           \/ p \in todo /\ (delayReloadNonMixedContentFile(p) \/ onWatchEventForNilScriptInfo(p))
           \/ Mark(p)
    PROVE  SInv'
<1>1. /\ OnlyDispatches /\ UNCHANGED <<bypassed, events>>
      /\ todo \ {p} \subseteq todo' /\ todo' \subseteq todo /\ marking' \subseteq marking \cup {p}
      /\ todo' # {} => event' = event
  BY DEF delayReloadNonMixedContentFile, onWatchEventForNilScriptInfo, Mark, Handled,
         OnlyDispatches, projectVars, serverVars, clientVars, infoVars
<1>2. Dirtier(p)
  <2>1. MarkFileAsDirty(p) \/ markAsDirty(p) \/ UNCHANGED dirty
    BY DEF delayReloadNonMixedContentFile, onWatchEventForNilScriptInfo, Mark, projectVars
  <2> QED BY <2>1, MarksKeep DEF Dirtier, SInv, TypeInv
<1>3. \A q \in marking : q \in marking' \/ dirty'[q] = "all"
  <2>1. Mark(p) => dirty'[p] = "all" /\ marking' = marking \ {p}
    BY DEF Mark, markAsDirty, SInv, TypeInv
  <2>2. ~Mark(p) => marking \subseteq marking'
    BY DEF delayReloadNonMixedContentFile, onWatchEventForNilScriptInfo
  <2> QED BY <2>1, <2>2
<1>4. p \in todo \ todo' /\ ~event.known => p \in marking' \/ event.at \notin data[p]
  BY DEF delayReloadNonMixedContentFile, onWatchEventForNilScriptInfo, Mark
<1>5. NoticeInv'
  <2> SUFFICES ASSUME NEW q \in Project, NEW l \in failed[q], l \in exists
               PROVE  Noticed(q, l)'
    BY <1>1 DEF NoticeInv, OnlyDispatches
  <2>1. Noticed(q, l)
    BY DEF SInv, NoticeInv
  <2>2. CASE ~(q \in todo /\ event.at = l /\ ~event.known)
    BY <1>1, <1>2, <1>3, <2>1, <2>2 DEF Noticed, At, OnlyDispatches, Dirtier
  <2>3. CASE q \in todo' /\ event.at = l /\ ~event.known
    BY <1>1, <1>2, <1>3, <2>1, <2>3 DEF Noticed, At, OnlyDispatches, Dirtier
  <2>4. CASE q \in todo \ todo' /\ event.at = l /\ ~event.known
    <3>1. At(q, "idle") => data[q] = failed[q]
      BY DEF SInv, GlobInv, At
    <3>2. q = p
      BY <1>1, <2>4
    <3> QED BY <1>1, <1>4, <2>1, <2>4, <3>1, <3>2 DEF Noticed, At, OnlyDispatches
  <2> QED BY <2>2, <2>3, <2>4
<1>6. OnlyMarks
  BY <1>1, <1>2, DispatchOnlyMarks DEF Dirtier, SInv, TypeInv
<1> QED BY <1>5, <1>6, OnlyMarksKeeps

(***************************************************************************)
(* The theorems.                                                           *)
(***************************************************************************)

\* No step breaks the invariant before two projects get the same number.
LEMMA NextInv == IInv /\ [Next]_vars => IInv'
<1> SUFFICES ASSUME IInv, [Next]_vars PROVE IInv'
  OBVIOUS
<1>1. CASE UNCHANGED vars
  <2>1. /\ OnlyDispatches /\ UNCHANGED <<dirty, bypassed, todo, marking, events, event, mixed>>
    BY <1>1 DEF vars, OnlyDispatches, projectVars, serverVars, clientVars, eventVars, infoVars
  <2>2. ASSUME SInv PROVE SInv'
    <3>1. OnlyMarks
      BY <2>1, <2>2, DispatchOnlyMarks DEF SInv, TypeInv
    <3>2. NoticeInv'
      BY <2>1, <2>2, NoticeFrame DEF OnlyDispatches, At
    <3> QED BY <2>2, <3>1, <3>2, OnlyMarksKeeps
  <2> QED BY <2>1, <2>2 DEF IInv
<1>2. CASE Next
  <2>1. Step /\ mixed' \in BOOLEAN /\ (~mixed' => ~mixed /\ ~MixUps')
    BY <1>2 DEF Next, IInv
  <2> SUFFICES ASSUME ~mixed' PROVE SInv'
    BY <2>1 DEF IInv
  <2>2. SInv /\ ~MixUps'
    BY <2>1 DEF IInv
  <2>3. ASSUME NEW p \in Project, Edit(p) \/ updateGraph(p) \/ UpdateProgram(p) \/ Update(p)
        PROVE  SInv'
    BY <2>2, <2>3, EditKeeps, UpdateGraphKeeps, UpdateProgramKeeps, UpdateWorkerKeeps,
       RegisterKeeps, SeqKeeps, SendKeeps, RefuseKeeps, UnwatchKeeps, WatchKeeps DEF Update
  <2>4. CASE Read
    BY <2>2, <2>4, ReadKeeps DEF Read
  <2>5. CASE Client
    BY <2>2, <2>5, AnswerKeeps DEF Client
  <2>6. CASE Dispatch
    <3>1. CASE \E l \in Location : OpenFile(l) \/ CloseFile(l)
      BY <2>2, <3>1, OpenCloseKeeps
    <3>2. ASSUME NEW l \in events, OnWatchedFilesChanged(l)
          PROVE  SInv'
      BY <2>2, <3>2, EventKeeps
    <3>3. ASSUME NEW p \in Project, \/ p \in todo /\ (delayReloadNonMixedContentFile(p) \/ onWatchEventForNilScriptInfo(p))
                                    \/ Mark(p)
          PROVE  SInv'
      BY <2>2, <3>3, TellKeeps
    <3>4. todo \subseteq Project /\ marking \subseteq Project
      BY <2>2 DEF SInv, TypeInv
    <3> QED BY <2>6, <3>1, <3>2, <3>3, <3>4 DEF Dispatch
  <2>7. CASE \E l \in Location : Create(l)
    BY <2>2, <2>7, CreateKeeps
  <2> QED BY <2>1, <2>3, <2>4, <2>5, <2>6, <2>7 DEF Step
<1> QED BY <1>1, <1>2

\* Until two projects that are updated at once get the same number, server, client and
\* projects agree between updates on what is registered, whatever the client has refused: the
\* number read before the client is asked is still free when it has answered.
THEOREM HandlesAreKnown == Spec => []RegistrationsAreKnown
<1>1. ASSUME IInv PROVE RegistrationsAreKnown
  <2> SUFFICES ASSUME ~mixed, Settled
               PROVE  /\ watchers = {watcherID[p] : p \in Project} \ {None}
                      /\ {g.handle : g \in registrations} = {watcherID[p] : p \in Project} \ {None}
    BY DEF RegistrationsAreKnown
  <2>1. \A p \in Project : ServerHandle(p) = watcherID[p] /\ ClientHandle(p) = watcherID[p]
    BY DEF Settled, At, ServerHandle, ClientHandle, Did
  <2>2. /\ {ServerHandle(p) : p \in Project} = {watcherID[p] : p \in Project}
        /\ {ClientHandle(p) : p \in Project} = {watcherID[p] : p \in Project}
    BY <2>1
  <2> QED BY <1>1, <2>2 DEF IInv, SInv, HandleInv
<1>2. IInv /\ [Next]_vars => IInv'
  BY NextInv
<1> QED BY <1>1, <1>2, InitInv, PTL DEF Spec

\* Until two projects that are updated at once get the same number, one handle names one
\* registration, although projects are updated at once and the number is read long before it
\* is counted.
THEOREM OneHandleOneRegistration == Spec => []HandlesAreUnique
<1>1. IInv => HandlesAreUnique
  BY DEF IInv, SInv, HandleInv, HandlesAreUnique
<1>2. IInv /\ [Next]_vars => IInv'
  BY NextInv
<1> QED BY <1>1, <1>2, InitInv, PTL DEF Spec

\* Until two projects that are updated at once get the same number, no project is without a
\* file that it has looked up in vain and that exists by now, once the events are handled, but
\* for those whose events the server does not give it: the globs that updateWorker makes of
\* any set of file names cover all of them, and the client has them whenever the project is
\* idle.
THEOREM CreationsAreNoticed == Spec => []CreatedFilesAreNoticed
<1>1. IInv => CreatedFilesAreNoticed
  BY DEF IInv, SInv, NoticeInv, Noticed, CreatedFilesAreNoticed
<1>2. IInv /\ [Next]_vars => IInv'
  BY NextInv
<1> QED BY <1>1, <1>2, InitInv, PTL DEF Spec
=============================================================================
