----------------------------- MODULE MCSources -----------------------------
(***************************************************************************)
(* From the packages of a BOM and the local repository to a bundle that    *)
(* may be applied: machines that share no state.  A behaviour runs one of  *)
(* them; the others stay in one of their states:                           *)
(*   plan    every graph over three components in which component 2        *)
(*           declares its dependencies in the BOM and the others in their  *)
(*           packages, all kinds of requirement for component 1 and on an  *)
(*           absent name                                                   *)
(*   repo    init, doctor and the operator; the second release takes the   *)
(*           configuration in another format and drops the component of    *)
(*           the credential                                                *)
(*   render  renders behind the source preflight, while the files of the   *)
(*           repository and the packages change                            *)
(*   apply   the preflight of an apply, on three kinds of machine          *)
(***************************************************************************)
EXTENDS DependencyOrder

CONSTANTS Machines

MCListed == 1..3
MCUnlisted == {9}
MCDeclarations ==
    {[bom |-> [c \in MCListed |-> IF c = 2 THEN b ELSE {}],
      pkg |-> [c \in MCListed |-> [n \in MCListed \cup MCUnlisted |->
                 IF c = 1 THEN one[n]
                 ELSE IF c = 3 /\ n \in three THEN "required" ELSE "none"]]] :
       b \in SUBSET (MCListed \ {2}), three \in SUBSET MCListed,
       one \in [MCListed \cup MCUnlisted -> Want]}

VARIABLES machine,
    release, files, init, last, edits,
    bomPolicy, packages, topology, host, render, bundle, applying

sourceVars == <<release, files, init, last, edits,
                bomPolicy, packages, topology, host, render, bundle, applying>>
allVars == <<machine, planVars, sourceVars>>

-----------------------------------------------------------------------------
Needs(ext, required) == [ext |-> ext, required |-> required]

Repo == INSTANCE LocalRepo WITH
    Inputs <- {"config", "token", "extra"}, SecretLike <- {"token"}, Stale <- {"token"},
    Exts <- {"env", "yaml"}, Releases <- {"r1", "r2"},
    Contract <- [r1 |-> [config |-> Needs("env", TRUE), token |-> Needs("env", FALSE)],
                 r2 |-> [config |-> Needs("yaml", TRUE), extra |-> Needs("yaml", TRUE)]],
    ResourceName <- "secret.yaml", PatchName <- "deployment.yaml",
    PatchTexts <- {"labels", "image"}, MaxEdits <- 2

(* The second release needs one input more and bootstraps Kubernetes.       *)
TwoReleases == [r1 |-> [config |-> Needs("env", TRUE)],
                r2 |-> [config |-> Needs("env", TRUE), extra |-> Needs("env", TRUE)]]

OnMachine(swap, kube, ports) == [swap |-> swap, kube |-> kube, ports |-> ports, kubeconfig |-> kube]

Render == INSTANCE SourceGate WITH
    Inputs <- {"config", "extra"}, SecretLike <- {}, Stale <- {}, Exts <- {"env"},
    Releases <- {"r1", "r2"}, Contract <- TwoReleases,
    ResourceName <- "secret.yaml", PatchName <- "deployment.yaml",
    PatchTexts <- {"labels", "image"}, MaxEdits <- 2,
    DeclaresPolicy <- {"r2"}, Remote <- FALSE, Bootstraps <- {"r2"},
    Packages <- {"p1", "p2", "broken"}, InvalidPackages <- {"broken"},
    PackagePolicies <- [p1 |-> <<"default">>, p2 |-> <<"wide", "default">>, broken |-> <<>>],
    Topologies <- {"t1"}, LocalTopologies <- {"t1"}, Hosts <- {OnMachine(FALSE, TRUE, TRUE)},
    Editable <- {<<"inputs", "config", "env">>, <<"inputs", "extra", "env">>,
                 <<"resources", "secret.yaml">>, <<"patches", "deployment.yaml">>, <<"policy">>}

Apply == INSTANCE SourceGate WITH
    Inputs <- {"config"}, SecretLike <- {}, Stale <- {}, Exts <- {"env"}, Releases <- {"r1", "r2"},
    Contract <- [r \in {"r1", "r2"} |-> [config |-> Needs("env", TRUE)]],
    ResourceName <- "secret.yaml", PatchName <- "deployment.yaml",
    PatchTexts <- {"labels"}, MaxEdits <- 2,
    DeclaresPolicy <- {}, Remote <- FALSE, Bootstraps <- {"r2"},
    Packages <- {"p1"}, InvalidPackages <- {}, PackagePolicies <- [p1 |-> <<>>],
    Topologies <- {"t1", "t2"}, LocalTopologies <- {"t1"},
    Hosts <- {[OnMachine(FALSE, FALSE, FALSE) EXCEPT !.kubeconfig = TRUE],
              OnMachine(TRUE, TRUE, TRUE), OnMachine(FALSE, FALSE, TRUE)},
    Editable <- {<<"inputs", "config", "env">>}

ASSUME Repo!ContractAssumption /\ Render!ContractAssumption /\ Apply!ContractAssumption

-----------------------------------------------------------------------------
(* What the other machines hold beside the one that runs. *)
OnePlan == [bom |-> [c \in Listed |-> {}],
            pkg |-> [c \in Listed |-> [n \in Listed \cup Unlisted |-> "none"]]]

MCInit ==
    /\ machine \in Machines
    /\ PlanInit
    /\ machine # "plan" => decl = OnePlan
    /\ CASE machine = "apply" -> Apply!GateInit /\ topology = "t1"
         [] machine = "render" -> Render!GateInit
         [] OTHER -> /\ Repo!LocalRepoInit
                     /\ machine = "plan" => release = "r1"
                     /\ bomPolicy = "default" /\ packages = "p1" /\ topology = "t1"
                     /\ host = OnMachine(FALSE, TRUE, TRUE) /\ render = Render!NoRender
                     /\ bundle = Render!NoBundle /\ applying = Render!NotApplying

MCNext ==
    \/ machine = "plan" /\ PlanNext /\ UNCHANGED <<machine, sourceVars>>
    \/ /\ UNCHANGED <<machine, planVars>>
       /\ \/ /\ machine = "repo" /\ Repo!Next
             /\ UNCHANGED <<bomPolicy, packages, topology, host, render, bundle, applying>>
          \/ machine = "render" /\ Render!RenderNext
          \/ machine = "apply" /\ Apply!GateNext

MCSpec == MCInit /\ [][MCNext]_allVars

-----------------------------------------------------------------------------
(* The properties of each machine are stated and explained in its module;   *)
(* PlanSound is that of the plan.                                           *)

(* The local repository: init keeps what is there and completes it, the     *)
(* digest covers what doctor checked, and what doctor passes is usable.     *)
RepoSound ==
    /\ [](machine = "repo" =>
            /\ Repo!TypeOK
            /\ Repo!InitIsComplete /\ Repo!RecordedDigestExact /\ Repo!PassedIsUsable)
    /\ [][machine = "repo" => Repo!KeepsFilesStep]_sourceVars

(* Renders of sources that change: one that passes the gate succeeds, its   *)
(* bundle can be used, and comparing it with the sources is honest.         *)
GateSound ==
    machine = "render" =>
        /\ Render!GateTypeOK
        /\ Render!RenderedIsUsable /\ Render!GatedRenderSucceeds
        /\ Render!MatchedIsFresh /\ Render!RenderClearsStaleness

(* The preflight of an apply: what it lets through is fresh, what it        *)
(* recommends helps.                                                        *)
PreflightSound ==
    machine = "apply" => Apply!GateTypeOK /\ Apply!RecommendationHolds /\ Apply!ApplyIsFresh
=============================================================================
