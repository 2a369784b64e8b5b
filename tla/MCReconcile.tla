----------------------------- MODULE MCReconcile -----------------------------
(***************************************************************************)
(* Instances of ClusterReconcile for TLC: each pair of definitions gives   *)
(* the specs a user creates the resource with and those it edits it to.    *)
(***************************************************************************)
EXTENDS ClusterReconcile

UserTags(value) ==
    [k \in TagKeys |-> IF k \in UserTagKeys THEN value ELSE NoTag]

Untagged == UserTags(NoTag)

SpecsWith(protections, keys, multiRegions, policies, tags) ==
    [deletionProtection : protections, kmsKey : keys, multiRegion : multiRegions,
     policy : policies, tags : tags]

\* Deletion protection on, off or left to the service's default.
ProtectionSpecs == SpecsWith({"on", "off", Nil}, {Nil}, {Nil}, {Nil}, {Untagged})

\* Tags come, go and change together with the policy and the protection.
ContentInitial == SpecsWith({Nil}, {Nil}, {Nil}, {Nil}, {UserTags("v1")})
ContentEdited ==
    SpecsWith({"off"}, {Nil}, {Nil}, Policies \cup {Nil}, {Untagged, UserTags("v2")})

\* Only the tags of the user change; AWS and others change all of them.
TagInitial == SpecsWith({"on"}, {Nil}, {Nil}, {Nil}, {UserTags("v1"), Untagged})
TagEdited  == SpecsWith({"on"}, {Nil}, {Nil}, {Nil}, {UserTags("v1"), UserTags("v2")})

\* What a resource has to converge over: protection, one tag and a policy, though
\* not the policy "", which may differ for ever from the absence of one.
ConvergeInitial == SpecsWith({Nil}, {Nil}, {Nil}, {Nil}, {Untagged})
ConvergeEdited  ==
    SpecsWith({"off"}, {Nil}, {Nil}, Policies \ {EmptyPolicy}, {UserTags("v1")})

\* A multi-region cluster, first without and then with its peers.
MultiRegionInitial ==
    SpecsWith({"off"}, {Nil}, MultiRegions \ PeeredMultiRegions, {Nil}, {Untagged})
MultiRegionEdited  == SpecsWith({"on", "off"}, {Nil}, MultiRegions, {Nil}, {Untagged})

\* The KMS key alone changes.
KMSSpecs == SpecsWith({"off"}, KmsKeys \cup {Nil}, {Nil}, {Nil}, {Untagged})
=============================================================================
