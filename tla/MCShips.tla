------------------------------ MODULE MCShips ------------------------------
(* Two computers with installs and one without.  On A, names with dots and *)
(* reserved characters, twins in case, a header that names the other       *)
(* hangar, an install below a directory called SPH; files shared by name,  *)
(* from a directory of their own, and from within the install.  On B, a    *)
(* twin of a blueprint that is sent there.                                 *)
EXTENDS ShipsProperties

MCChar ==
    Words \cup {"a", "A", "b", "c", "d", "q", "x", "y", "z", "1", "2", ".", "/", " ", "=",
               "ship", "type", ".CRAFT", "cwd", "KSP", "KSP2", "C3", "A9"}

Ksp2Root == <<<<"KSP2">>>>
OddRoot == <<<<"SPH">>, <<"KSP">>>>
MCHomeRoots == <<<<<<"KSP">>>>, Ksp2Root>>
MCInstalls == [A |-> {Ksp2Root, OddRoot}, B |-> {<<<<"KSP">>>>, Ksp2Root}, C |-> {}]
Cwd == <<<<"cwd">>>>

File(dir, stem) == Append(dir, Append(stem, ".craft"))
Ship(name) == <<"ship", " ", "=">> \o name

DiskA ==
    File(VabDir(Ksp2Root), <<"a", ".", "1">>) :> <<"x", "y">>
    @@ Append(SphDir(Ksp2Root), <<"A", ".", "1", ".CRAFT">>) :> <<"type", " ", "=", "VAB">>
    @@ File(SphDir(Ksp2Root), <<"b">>) :> Ship(<<"/">>)
    @@ File(VabDir(OddRoot), <<"a", ".", "2">>) :> <<"y">>
    @@ File(Cwd, <<"c", ".", "1">>) :> <<"C3", "A9">>
    @@ File(Cwd, <<"d">>) :> <<"A9">>
DiskB ==
    File(VabDir(<<<<"KSP">>>>), <<"a", ".", "1">>) :> <<"z", "z", "z">>
MCDisks == {[A |-> DiskA, B |-> DiskB, C |-> <<>>]}

Line(host) ==
    [host |-> host, cwd |-> Cwd, env |-> None, target |-> <<>>, ship |-> None, out |-> None]
Send(host, target) == [Line(host) EXCEPT !.target = <<target>>]
Share(target) == Send("A", target)
ShareFrom(dir, target) == [Line("A") EXCEPT !.cwd = dir, !.target = target]
Receive(host) == Line(host)

(* The second sender may share what a receiver has just saved.  *)
MCPlans ==
    {"s1" :> p1 @@ "s2" :> p2 @@ "r1" :> q1 @@ "r2" :> q2 :
       p1 \in {Share(<<"a", ".", "1">>), [Share(<<"a", ".", "1">>) EXCEPT !.ship = Some("Sph")],
               Share(<<"b", ".craft">>)},
       p2 \in {[Share(<<"a", ".", "2">>) EXCEPT !.env = Some(OddRoot)],
               Share(<<"c", ".", "1", ".craft">>), Share(<<"d", ".craft">>), Share(<<"q">>),
               ShareFrom(SphDir(Ksp2Root), <<<<"b", ".craft">>>>),
               ShareFrom(Ksp2Root, <<<<"Ships">>, <<"SPH">>, <<"b", ".craft">>>>),
               Send("B", <<"a", ".", "1">>), Send("C", <<"a">>)},
       q1 \in {Receive("B")},
       q2 \in {Receive("B"), [Receive("B") EXCEPT !.out = Some(Cwd)], Receive("C")}}
=============================================================================
