----------------------------- MODULE MCDelivery -----------------------------
(***************************************************************************)
(* Two services.  The name of the first ends the name of a platform        *)
(* service.  Its agent also extends the shared lookup.  That of the other  *)
(* leaves a stub that is too large to be stored, or writes over the errors *)
(* of the other service and of the platform.                               *)
(***************************************************************************)
EXTENDS Delivery

MCNames == <<"tags", "users">>
MCMonorepo ==
  (Path("gomod", Shared) :> Content({"mod"}, NoPorts))
  @@ (Path("library", Shared) :> Content({"lib"}, NoPorts))
  @@ (Path("client", Shared) :> Content({"sdk"}, NoPorts))
  @@ (Path("main", "identity") :> Content({"TokenRoleGenerator"}, NoPorts))
  @@ (Path("stub", "identity") :> Content({"register"}, NoPorts))
  @@ (Path("errors", "hashtags") :> Content({"hashtags"}, NoPorts))
  @@ (LookupPath :> Content({"hashtags"}, NoPorts))

Main(s) == Path("main", s) :> Content({"TokenRoleValidator"}, NoPorts)
Errors(s) == Path("errors", s) :> Content({s}, NoPorts)
Stub(s) == Path("stub", s) :> Content({"register"}, NoPorts)
Draft(files, lookup, oversized) == [files |-> files, lookup |-> lookup, oversized |-> oversized]

MCDrafts ==
  [s \in {"tags", "users"} |->
    IF s = "tags"
    THEN {Draft(Main(s) @@ Errors(s) @@ Stub(s), TRUE, {})}
    ELSE {Draft(Main(s) @@ Errors(s) @@ Stub(s) @@ (Path("config", s) :> Content({"own"}, NoPorts)),
                FALSE, {Path("stub", s)}),
          Draft(Errors(s) @@ (Path("errors", "tags") :> Content({s}, NoPorts))
                  @@ (Path("errors", "hashtags") :> Content({s}, NoPorts)), FALSE, {})}]
MCWithin == {<<"tags", "hashtags">>, <<"tags", "tags">>, <<"users", "users">>}
==============================================================================
