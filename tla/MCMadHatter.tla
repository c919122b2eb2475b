---------------------------- MODULE MCMadHatter ----------------------------
(* Two plugins that define the same endpoint, and packages that fail in each way. *)
EXTENDS MadHatter

SamePath == [p \in {"a", "b"} |-> "/custom/endpoint"]

\* The module of pytools.py is one that deactivate does not find.
FailingPackages ==
    {[kind |-> "flaky", file |-> "tools"], [kind |-> "raises", file |-> "tools"],
     [kind |-> "moody", file |-> "pytools"], [kind |-> "ok", file |-> NoFile]}
=============================================================================
