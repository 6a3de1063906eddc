------------------------------- MODULE MCKeyRing -------------------------------
(***************************************************************************)
(* KeyRing with two callers, the discovery channel and another one, two    *)
(* members and two key pairs, each of which may become the vault's own.    *)
(***************************************************************************)
EXTENDS KeyRing, TLC

CONSTANTS k1, k2, m1, m2, u1, u2, d, o, a, b

AddMember(uri, m, k)  == [op |-> "AddMemberKey", uri |-> uri, member |-> m, key |-> k]
RemoveMember(uri, m)  == [op |-> "RemoveMemberKey", uri |-> uri, member |-> m]
AddCommunity(uri, ck) == [op |-> "AddCommunityKey", uri |-> uri, key |-> ck]

Signed(uri, m, k, ck) == [uri |-> uri, member |-> m, signer |-> k, community |-> ck]

MCMemberOf == (k1 :> m1) @@ (k2 :> m2)

\* The own key replaced, two members that join the other channel at once, the
\* community key of the discovery channel set and changed.
MCUpdates == {AddMember(d, m2, k2), AddMember(d, m1, k2), AddMember(o, m1, k1),
              AddMember(o, m2, k2), RemoveMember(d, m2), RemoveMember(o, m1),
              AddCommunity(d, a), AddCommunity(d, b)}

\* Entries of either member, one under another's name, one in the other channel,
\* one without a body and one that is too short.
MCEntries == {Signed(d, m1, k1, a), Signed(d, m2, k2, a), Signed(d, m2, k1, a),
              Signed(o, m1, k1, a), Signed(d, m2, NoKey, a), Signed(d, m1, k1, NoKey)}

MCSymmetry == Permutations({u1, u2})
=============================================================================
