----------------------------- MODULE MCDnsCache -------------------------------
(* DnsCache for TLC: a forward name beside a reverse-lookup name, asked    *)
(* for by RESOLVE and by BEGIN streams.                                    *)
EXTENDS DnsCache, TLC

CONSTANTS a1, p1, s1, s2, s3, r1, r2, r3, r4, r5, r6

\* A forward name and a .in-addr.arpa name: a RESOLVE and a BEGIN for the
\* reverse name, a BEGIN for the forward one asking for A and AAAA.
PtrAddresses == {a1, p1}
PtrStreamAddr == (s1 :> p1) @@ (s2 :> p1) @@ (s3 :> a1)
PtrStreamPurpose == (s1 :> "resolve") @@ (s2 :> "connect") @@ (s3 :> "connect")
PtrStreamFamilies == [st \in Streams |-> IF st = s3 THEN {"v4", "v6"} ELSE {"v4"}]
=============================================================================
