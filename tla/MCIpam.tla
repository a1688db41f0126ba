------------------------------- MODULE MCIpam -------------------------------
\* Small instances of Ipam for TLC.
EXTENDS Ipam, TLC

CONSTANTS i1, i2, v1, v2, v3, s1, d1, d2, d3

\* A stack of two VMs, and a playbook's VM with the address of one of them.
MCIpOf == v1 :> i1 @@ v2 :> i2 @@ v3 :> i2
MCStackOf == v1 :> s1 @@ v2 :> s1 @@ v3 :> None

\* Bounds: only v2 drops out of the cluster view, only i1 is given to a foreign host.
OneHidden == hidden \subseteq {v2}
OneForeign == alloc[i2] # None => alloc[i2].dep # None \/ alloc[i2].vm # None

DepSymmetry == Permutations(Deps)
=============================================================================
