----------------------------- MODULE MCSecurity -----------------------------
(***************************************************************************)
(* A publisher p and subscribers s and t, with certificates on two curves, *)
(* and a content key of the group g.                                       *)
(***************************************************************************)
EXTENDS Secured

MCIdentity(n) == n

Own(n) == Cert(<<n, 0>>, IF n = "t" THEN "P521" ELSE "P384", TRUE)
Public(n) == [Own(n) EXCEPT !.priv = FALSE]
Group(i) == Symmetric(<<"group", i>>)

With(s, kid, key) == IF key.type = "SYMMETRIC" THEN SetContentKey(s, kid, key).store
                     ELSE SetCertificate(s, kid, key).store
WithAll(pairs) == FoldLeft(LAMBDA s, p : With(s, p[1], p[2]), SetTrustedCA(EmptyStore).store, pairs)

(* The publisher knows the subscribers, and may have no key of its own;    *)
(* the subscribers may not know the publisher.                             *)
MCStores(n) ==
    IF n = Publisher
    THEN {WithAll(<<<<"g", Group(0)>>, <<"s", Public("s")>>, <<"t", Public("t")>>>> \o own) :
              own \in {<<>>, <<<<"p", Own("p")>>>>}}
    ELSE {WithAll(<<<<"g", Group(0)>>, <<n, Own(n)>>>> \o known) :
              known \in {<<>>, <<<<"p", Public("p")>>>>}}

(* Nobody; the group; t, which is not on the network, before s. *)
MCStarted == {<<>>, <<"g">>, <<"t", "s">>}

MCRekeys(n) ==
    {<<"content", "g", Group(1)>>, <<"content", "g", NullKey>>, <<"network", "w", Group(2)>>}
    \cup (IF n = Publisher THEN {} ELSE {<<"certificate", n, Cert(<<n, 1>>, "P384", TRUE)>>})
=============================================================================
