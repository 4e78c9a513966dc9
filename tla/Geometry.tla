------------------------------ MODULE Geometry ------------------------------
(***************************************************************************)
(* The placement repairs of geometry_decomposition_node and the checks the *)
(* overlap and interface validators make afterwards                        *)
(* (agent_core/g4_modeling).  A model's components are a sequence of       *)
(* records in the order of the draft:                                      *)
(*   id, mother (an id or NoMother), world, box, half, pos, role, mat      *)
(* Only the z axis is kept: the repairs treat the axes alike except for    *)
(* the move behind a sibling, which is along z, and boxes are taken to     *)
(* overlap laterally.  half = 0 stands for a missing dimension.            *)
(***************************************************************************)
EXTENDS Integers, Sequences, FiniteSetsExt

CONSTANTS
    NoMother,   \* the mother of the world (and of an orphan)
    Gap,        \* clearance left when a detector is moved behind a sibling
    Clearance   \* clearance added when a mother is expanded

ASSUME GeometryAssumption == Gap \in Nat /\ Clearance \in Nat

\* The components of a model, before and after the repairs.
PartShape(c) ==
    /\ DOMAIN c = {"id", "mother", "world", "box", "half", "pos", "role", "mat"}
    /\ c.id # NoMother /\ c.half \in Nat /\ c.pos \in Int
    /\ {c.world, c.box} \subseteq BOOLEAN

ListShape(parts) ==
    /\ parts \in Seq({parts[i] : i \in DOMAIN parts})
    /\ \A i \in DOMAIN parts : PartShape(parts[i])

Abs(n) == IF n < 0 THEN -n ELSE n

Children(parts, m) ==
    {i \in DOMAIN parts : parts[i].mother = parts[m].id /\ parts[i].mother # NoMother}

\* by_id: of several components of one id the last is meant.
Mothers(parts, i) ==
    {m \in DOMAIN parts :
        /\ parts[m].id = parts[i].mother
        /\ \A k \in DOMAIN parts : k > m => parts[k].id # parts[i].mother}

\* _box_inside_bounds
Inside(pos, half, bound) == Abs(pos) + half <= bound

\* _normalize_child_positions_to_mother_frame, one child: a box that does not fit where it
\* is, but would if its position were read in the world's frame, is moved to its mother's.
ToMotherFrame(parts, i) ==
    LET c == parts[i]
        fits(m) == /\ c.box /\ parts[m].box
                   /\ ~Inside(c.pos, c.half, parts[m].half)
                   /\ Inside(c.pos - parts[m].pos, c.half, parts[m].half)
    IN  IF \E m \in Mothers(parts, i) : fits(m)
        THEN LET m == CHOOSE m \in Mothers(parts, i) : fits(m)
             IN  [parts EXCEPT ![i].pos = c.pos - parts[m].pos]
        ELSE parts

\* _box_components_overlap, and the validator's _boxes_overlap
Overlap(a, b) == Abs(a.pos - b.pos) < a.half + b.half

\* _looks_like_downstream_detector
LooksDownstream(c) == c.role \in {"detector", "sensitive"}

\* _move_after_overlapping_siblings: the overlaps are those of the position the box has
\* on entry; the furthest candidate wins, and only a move downstream is made.
MoveBehindSiblings(parts, i) ==
    LET c == parts[i]
        inTheWay == {j \in DOMAIN parts \ {i} :
                        parts[j].mother = c.mother /\ parts[j].box /\ Overlap(c, parts[j])}
        behind == {parts[j].pos + parts[j].half + c.half + Gap : j \in inTheWay}
    IN  IF LooksDownstream(c) /\ c.box /\ c.half > 0 /\ \E z \in behind : z > c.pos
        THEN [parts EXCEPT ![i].pos = Max(behind)]
        ELSE parts

\* _expand_box_mother_for_children, for the mother of the component at i, which the caller
\* visits once per pass, at its first child.
ExpandMotherOf(parts, i) ==
    LET required(m) == Max({Abs(parts[j].pos) + parts[j].half :
                                j \in {k \in Children(parts, m) : parts[k].box}})
        short(m) == /\ parts[m].box
                    /\ \E k \in Children(parts, m) : parts[k].box
                    /\ required(m) > parts[m].half
    IN  IF /\ parts[i].mother # NoMother
           /\ \A j \in 1..(i - 1) : parts[j].mother # parts[i].mother
           /\ \E m \in Mothers(parts, i) : short(m)
        THEN LET m == CHOOSE m \in Mothers(parts, i) : short(m)
             IN  [parts EXCEPT ![m].half = required(m) + Clearance]
        ELSE parts

\* Each of them goes through the components in the order of the draft.
NormalizeFrames(parts) ==
    LET after[k \in 0..Len(parts)] ==
            IF k = 0 THEN parts ELSE ToMotherFrame(after[k - 1], k)
    IN  after[Len(parts)]

ResolveSiblings(parts) ==
    LET after[k \in 0..Len(parts)] ==
            IF k = 0 THEN parts ELSE MoveBehindSiblings(after[k - 1], k)
    IN  after[Len(parts)]

ExpandMothers(parts) ==
    LET after[k \in 0..Len(parts)] ==
            IF k = 0 THEN parts ELSE ExpandMotherOf(after[k - 1], k)
    IN  after[Len(parts)]

\* Variant: one pass over the components.
EnsureContained_OnePass(parts) == ExpandMothers(parts)

\* _ensure_box_mothers_contain_children: passes until nothing changes, at most one per
\* component.
EnsureContained(parts) ==
    LET after[k \in 0..Len(parts)] ==
            IF k = 0 THEN parts ELSE ExpandMothers(after[k - 1])
    IN  after[Len(parts)]

\* The repair sequence of geometry_decomposition_node.
Arrange(parts) ==
    LET normal == NormalizeFrames(parts)
        first  == EnsureContained(ResolveSiblings(normal))
    IN  EnsureContained(ResolveSiblings(first))

-----------------------------------------------------------------------------
\* GeometryInterfaceValidator

\* The mother, her mother, and so on: what every set holds that is closed under them.
Ancestors(parts, i) ==
    {m \in DOMAIN parts : \A S \in SUBSET DOMAIN parts :
        (Mothers(parts, i) \subseteq S /\ \A j \in S : Mothers(parts, j) \subseteq S)
            => m \in S}

Acyclic(parts) == \A i \in DOMAIN parts : i \notin Ancestors(parts, i)

Worlds(parts) == {i \in DOMAIN parts : parts[i].world}

WellFormedTree(parts) ==
    /\ Cardinality(Worlds(parts)) = 1
    /\ \A i \in DOMAIN parts :
         /\ parts[i].mother # NoMother => Mothers(parts, i) # {}
         /\ parts[i].mother = NoMother => parts[i].world
    /\ Acyclic(parts)

\* OverlapPolicyValidator: siblings apart, and every box inside its mother.
SiblingsApart(parts) ==
    \A i, j \in DOMAIN parts :
        (i # j /\ parts[i].mother = parts[j].mother /\ parts[i].box /\ parts[j].box)
            => ~Overlap(parts[i], parts[j])

InsideMothers(parts) ==
    \A i \in DOMAIN parts : \A m \in Mothers(parts, i) :
        (parts[i].box /\ parts[m].box)
            => /\ parts[i].pos - parts[i].half >= -parts[m].half
               /\ parts[i].pos + parts[i].half <= parts[m].half
=============================================================================
