---------------------------- MODULE MCDppBuilder ----------------------------
(* Two attempts to create one product, two verifications of one predicate for  *)
(* it, one row posted by hand with the receipt of either, and callers with     *)
(* each kind of token.                                                         *)
EXTENDS DppBuilder, TLC

CONSTANTS x1, x2, e1, e2, recycled, noEvent

MCEvents == {e1, e2}
MCProducts == {x1, x2}
MCProductOf == e1 :> x1 @@ e2 :> x1
MCPredicateOf == e1 :> recycled @@ e2 :> recycled
MCConsumers == {"dpp-builder"}
MCRoles == {"supplier", "brand", "auditor", "authority"}
MCTokens == {[valid |-> TRUE, realm |-> {"authority"}, client |-> {}],
             [valid |-> TRUE, realm |-> {"supplier"}, client |-> {"brand"}],
             [valid |-> FALSE, realm |-> {"authority"}, client |-> {}]}
MCGroups == {"LEGIT_INTEREST", "AUTHORITY"}
MCShipped == [p \in {recycled} |-> MCGroups]
MCConfigs == {[predicate |-> recycled, groups |-> {"AUTHORITY"}]}

\* Nothing but their names tells the two events apart, so the first one published may
\* be called e1: every behaviour is, up to an exchange of the names, one of these.
MCFirstEvent == stream # <<>> => stream[1] = e1

\* Bounds: a row is posted by hand only where nothing fails and nothing is generated;
\* the registry changes and something fails only where a single event is published.
MCFewDisturbances ==
  /\ faults + runs > 0 => \A i \in DOMAIN verified : ~verified[i].byHand
  /\ faults > 0 /\ runs > 0 => Len(stream) <= 1

=============================================================================
