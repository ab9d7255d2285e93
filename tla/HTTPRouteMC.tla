---------------------------- MODULE HTTPRouteMC ----------------------------
(***************************************************************************)
(* HTTPRoute with two routes, a and b, of one hostname.                    *)
(***************************************************************************)
EXTENDS HTTPRoute

MCHostnames == [a |-> <<"x">>, b |-> <<"x">>]

B(path, service, conf) == [path |-> path, service |-> service, conf |-> conf]

(* Each route has a path of its own.  A user may point a's rule at another *)
(* Service, so that its old target is an orphan, or change what drift      *)
(* detection compares of b's.                                              *)
MCFirstRules == [a |-> <<B("/a", "s1", "c1")>>, b |-> <<B("/b", "s1", "c1")>>]
MCOtherRules == [a |-> {<<B("/a", "s2", "c1")>>}, b |-> {<<B("/b", "s1", "c2")>>}]
ASSUME MCOwnPaths == OwnPaths

(* A route with two rules of one path and one Service, which differ in     *)
(* what drift detection compares: an exact and a prefix match of "/a", or  *)
(* matches of different headers.                                           *)
MCTwinRules == [a |-> <<B("/a", "s1", "exact"), B("/a", "s1", "prefix")>>]
MCNoOtherRules == [a |-> {}]
MCOneHostname == [a |-> <<"x">>]
=============================================================================
