----------------------------- MODULE MCModeling -----------------------------
(***************************************************************************)
(* Drafts of a world and up to three components, placed and nested in the  *)
(* ways that make the repairs interact, and the malformed ones: no world,  *)
(* two worlds, an orphan, a cycle of volumes that are not boxes.           *)
(***************************************************************************)
EXTENDS Delivery, TLC

Part(id, mother, half, pos, role) ==
    [id |-> id, mother |-> mother, world |-> FALSE, box |-> TRUE,
     half |-> half, pos |-> pos, role |-> role, mat |-> "si"]

TheWorld(half) ==
    [id |-> "world", mother |-> "none", world |-> TRUE, box |-> TRUE,
     half |-> half, pos |-> 0, role |-> "plain", mat |-> "air"]

Tube(id, mother, role) == [Part(id, mother, 1, 0, role) EXCEPT !.box = FALSE]

Stacks ==
    {<<TheWorld(6), Part("a", "world", ha, pa, "plain"),
       Part("b", mb, hb, pb, "sensitive"), Part("c", mc, 2, pc, rc)>> :
        ha \in {1, 3}, pa \in {0, 4},
        mb \in {"world", "a"}, hb \in {0, 1}, pb \in {0, 5},
        mc \in {"world", "a", "b"}, pc \in {0, 3}, rc \in {"plain", "detector"}}

Malformed ==
    {<<Part("a", "world", 1, 0, "sensitive")>>,
     <<TheWorld(6)>>,
     <<TheWorld(6), [TheWorld(6) EXCEPT !.id = "world2"],
       Part("a", "world", 1, 0, "sensitive")>>,
     <<TheWorld(6), Part("a", "none", 1, 0, "plain"), Part("b", "world", 1, 3, "sensitive")>>,
     <<TheWorld(6), Part("a", "world", 1, 0, "plain"), Tube("b", "c", "sensitive"),
       Tube("c", "b", "plain")>>,
     <<TheWorld(6), Part("a", "lost", 1, 0, "sensitive")>>,
     <<TheWorld(6), [Part("a", "world", 1, 0, "shield") EXCEPT !.mat = "alloy"],
       Part("b", "world", 1, 3, "sensitive")>>}

MCLeftovers ==
    {[required |-> <<>>, model |-> Nothing, status |-> "none", asks |-> FALSE],
     [required |-> <<TheWorld(6), Part("a", "world", 1, 0, "sensitive")>>,
      model |-> [NoModel EXCEPT
                    !.parts = <<TheWorld(6), Part("a", "world", 1, 0, "sensitive")>>,
                    !.sources = {"electron"}, !.scoring = {"a"}, !.detectors = {"a"}],
      status |-> "passed", asks |-> TRUE]}

Silent == [f \in {} |-> {}]
Names(S) == [names |-> S, choice |-> Nothing]
Say(field, S) == field :> Names(S)
Rather(first, S) == "particle" :> [names |-> S, choice |-> first]

Request(sources, target, proposed, answered, supplement) ==
    [sources |-> sources, target |-> target, outputs |-> {"edep"}, complex |-> FALSE,
     approved |-> TRUE, proposed |-> proposed, answered |-> answered, supplement |-> supplement]

\* Requests to build every geometry for: with and without a target, a stack asked for.
Plain ==
    {Request({"gamma", "neutron"}, 2, Silent, Silent, Silent),
     [Request({"gamma"}, 0, Say("particle", {"proton"}) @@ ("physics" :> "QGSP_BIC"),
              Say("particle", {"neutron"}) @@ ("outputs" :> {"dose"}), Silent)
         EXCEPT !.complex = TRUE]}

\* Requests whose source is said in several ways, for a few geometries.
Spoken ==
    {Request({}, 2, Silent, Silent, Silent),
     Request({"gamma"}, 0, Say("particle", {"proton"}), Silent, Silent),
     Request({"gamma"}, 2, Say("particle", {"proton"}), Say("particle", {"electron"}), Silent),
     Request({}, 0, Say("particle", {"proton"}), Say("particle", {"electron"}),
             Say("particle", {"neutron"})),
     Request({"gamma"}, 2, Say("energy", {"gamma"}) @@ Say("particle", {"gamma"}),
             Say("mixture", {"neutron", "gamma"}), Silent),
     Request({"gamma"}, 2, Say("energy", {"gamma"}) @@ Say("particle", {"gamma"}),
             Say("particle", {"proton"}), Silent),
     Request({"proton"}, 2, Say("mixture", {"proton", "gamma"}),
             Rather("electron", {"electron", "gamma"}), Silent),
     Request({"proton"}, 2, Say("particle", {"proton"}),
             Rather("electron", {"electron", "gamma"}), Silent),
     Request({"gamma"}, 2, Say("particle", {"gamma"}), Say("particle", {"muon"}), Silent),
     Request({"muon"}, 2, Say("particle", {"muon"}) @@ Say("energy", {"muon"}), Silent, Silent),
     Request({}, 2, Say("mixture", {"alpha"}), Say("particle", {"neutron"}), Silent),
     Request({"proton"}, 2, Say("particle", {"proton"}), Say("particle", {"ion"}),
             Say("particle", {"neutron"})),
     Request({"muon", "gamma"}, 2, Silent, Silent, Say("mixture", {"muon", "gamma"})),
     [Request({"gamma"}, 2, Say("particle", {"proton"}), Say("particle", {"electron"}), Silent)
         EXCEPT !.approved = FALSE]}

MCRequests == Plain \cup Spoken

FewStacks == {s \in Stacks : s[2].half = 1 /\ s[3].half = 1 /\ s[4].pos = 3}

MCDrafts(r) ==
    {<<>>} \cup Malformed \cup (IF r \in Plain THEN Stacks ELSE FewStacks)

Went(validation, confirmed, view) ==
    [gates |-> validation # "none", validation |-> validation, said |-> FALSE, reserved |-> FALSE,
     errors |-> validation # "passed", confirmed |-> confirmed, view |-> view]

\* Gates passed and the program shown; gates failed after a stopped repair, with a program
\* that shows no geometry; no gates at all.
MCOutcomes ==
    {Went("passed", TRUE, {"world", "a"}), [Went("failed", FALSE, {}) EXCEPT !.said = TRUE],
     Went("none", FALSE, Nothing)}

MCShelves == {[f \in Files |-> "another"]}
=============================================================================
