---------------------------- MODULE MCProxyCache ----------------------------
(***************************************************************************)
(* Model values for the proxy.  Connections served one after another are  *)
(* interchangeable, and so are the URIs: the code compares URIs only for   *)
(* equality (strcmp in find_cache).                                        *)
(***************************************************************************)
EXTENDS ProxyCache, TLC

CONSTANTS t1, t2, t3, t4, u1, u2, u3

MC_Threads3 == {t1, t2, t3}
MC_Threads4 == {t1, t2, t3, t4}
MC_URIs == {u1, u2, u3}

Sym == Permutations(MC_Threads4) \cup Permutations(MC_URIs)

====
