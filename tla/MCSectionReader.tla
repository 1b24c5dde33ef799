--------------------------- MODULE MCSectionReader ---------------------------
(* SectionReader for files of at most MaxParts segments and elements, with *)
(* at most MaxElements in a section.  variant settles what the elements    *)
(* are like.                                                               *)
EXTENDS SectionReader, FiniteSets

CONSTANTS
  MaxParts,      (* bound on the segments and elements of a file, together *)
  MaxElements,   (* bound on the elements of a section                     *)
  SegmentTypes   (* types of segments a file may have                      *)

ASSUME BoundsAssumption == MaxParts \in Nat /\ MaxElements \in Nat
ASSUME SegmentsAssumption == SegmentTypes \subseteq 0..9

Held(t) == CASE t = 3 -> ToSet(CodeSections) [] t = 4 -> {"windows", "constants"} [] OTHER -> {}

(* How many elements the sections of each segment have.  Two segments of   *)
(* one type may have one more: a vector with an element grows then.        *)
Slots(segs) == UNION {{k} \X Held(segs[k]) : k \in DOMAIN segs}
Counts(segs) ==
  LET twice == Len(segs) = 2 /\ segs[1] = segs[2]
      parts == MaxParts - Len(segs) + IF twice THEN 1 ELSE 0
      places == [1..parts -> Slots(segs) \cup {<<>>}]
      counted(c) == [x \in Slots(segs) |-> Cardinality({j \in DOMAIN c : c[j] = x})]
  IN {f \in {counted(c) : c \in places} : \A x \in DOMAIN f : f[x] <= MaxElements}

(* The elements of later segments are like others of those before.         *)
Described(segs, f, variant, pad, cut) ==
  LET turn(i, kinds) == kinds[((variant + i) % Len(kinds)) + 1]
      contents(k) ==
        LET count(s) == IF <<k, s>> \in DOMAIN f THEN f[<<k, s>>] ELSE 0
            sizes(s, kinds) == [i \in 1..count(s) |-> turn(i + k, kinds)]
        IN [pad |-> pad, libraries |-> count("libraries"), globals |-> count("globals"),
            modules |-> sizes("modules", <<0, 1, 2>>), subs |-> sizes("subs", <<0, 1, 2>>),
            structs |-> sizes("structs", <<0, 1, 2>>), dlls |-> sizes("dlls", <<0, 1, 2>>),
            windows |-> sizes("windows", <<0, 1, 6, 7>>),
            constants |-> sizes("constants", <<0, 22, 26>>)]
  IN [segments |-> segs, cut |-> cut, contents |-> [k \in DOMAIN segs |-> contents(k)]]

(* Variants differ only in files with elements.                            *)
Variants(f) == IF \A x \in DOMAIN f : f[x] = 0 THEN {0} ELSE 0..3

MCInit ==
  /\ \E k \in 1..MaxParts : \E segs \in [1..k -> SegmentTypes] : \E f \in Counts(segs) :
     \E variant \in Variants(f), cut \in BOOLEAN :
       program = Described(segs, f, variant, variant % 2, cut)
  /\ Init

MCSpec == MCInit /\ [][Next]_vars /\ WF_vars(Parse)
=============================================================================
