----------------------------- MODULE MCTopology -----------------------------
\* A model of Topology for TLC: the target c and the nodes a and b.  c and b are
\* registered under addresses that are not among their interfaces; the address x
\* is in use on both a and c.
EXTENDS Topology, TLC

CONSTANTS a, b, c, a1, b1, t1, t2, x

AThenB == <<a, b, c>>

Registered == a :> a1 @@ b :> b1 @@ c :> t1

OnThem == a :> {a1, x} @@ b :> {} @@ c :> {t2, x}

Owner == a1 :> a @@ b1 :> b @@ t1 :> c @@ t2 :> c @@ x :> c

\* b is beside a, and reaches a under the address that they share with c.
Leads == [s \in Sources |-> IF s = b THEN [Owner EXCEPT ![x] = a] ELSE Owner]

\* a is near, but far from c; t2 is the quicker way into c.
Times == [s \in Sources |-> a1 :> 1 @@ b1 :> 2 @@ t1 :> 4 @@ t2 :> (IF s = a THEN 3 ELSE 1) @@ x :> 1]

Possible ==
  {<<Local, a1>>, <<Local, b1>>, <<Local, t1>>, <<a, t1>>, <<a, t2>>, <<a, b1>>,
   <<b, t2>>, <<b, x>>}

OneOrAll == {{}, {<<a, t1>>}, {<<b, z>> : z \in Addrs}}
=============================================================================
