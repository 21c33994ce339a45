------------------------------ MODULE MCServer -------------------------------
(* Three worker threads, three client addresses, two headers with the right  *)
(* login; one remembered address and one cached header less than there are.  *)
(* The files have one key with each kind of value, and the login keys in all *)
(* combinations.                                                             *)
EXTENDS Server, TLC

CONSTANTS t1, t2, t3, a1, a2, a3, right1, right2, wrong

MCThreads == {t1, t2, t3}
MCAddrs   == {a1, a2, a3}

Good  == Scrypt(32768, 8, 1, TRUE, FALSE)
Bools == [t |-> "bool", v |-> TRUE]

Hashes == {Null, Str("x"), Good, Scrypt(32767, 8, 1, TRUE, FALSE),
           Scrypt(1, 8, 1, TRUE, FALSE), Scrypt(2^20, 8, 1, TRUE, FALSE),
           Scrypt(32768, 8, 17, TRUE, FALSE), Scrypt(4, 8, 1, FALSE, FALSE),
           Scrypt(32768, 8, 1, TRUE, TRUE),
           Pbkdf2(600000, TRUE, FALSE), Pbkdf2(0, TRUE, FALSE),
           Pbkdf2(10^7 + 1, TRUE, FALSE), Pbkdf2(600000, TRUE, TRUE)}
Users  == {Null, Str("owner"), Str("a:b"), Str("")}

Others ==
  {"daemon_host" :> v : v \in {Str("0.0.0.0"), Str("::1"), Str("localhost"), Null}}
  \cup {k :> v : k \in {"daemon_port", "listen_port", "threads", "all_off_gap_ms",
                        "daemon_read_timeout"},
                 v \in {Int_(0), Int_(16), Int_(61), Int_(65536), Float(2), Bools}}
  \cup {"listen_address" :> v : v \in {Str("::"), Str("localhost"), Bools}}
  \cup {"data_file" :> v : v \in {Str("/d.json"), Str("data.json"), Bools}}

Logins ==
  {"password_hash" :> h : h \in Hashes} \cup {"username" :> u : u \in Users}
  \cup {("password_hash" :> h) @@ ("username" :> u) : h \in {Null, Good}, u \in Users}
  \cup {"pasword_hash" :> Good, ("pasword_hash" :> Good) @@ ("username" :> Null)}

MCFiles ==
  {[is |-> f, keys |-> <<>>] : f \in {"missing", "unreadable", "garbage"}}
  \cup {Mapping(k) : k \in Others \cup Logins \cup {<<>>}}

MCPrinted == {Good, Scrypt(2^20, 8, 1, TRUE, FALSE)}

Symmetry == Permutations(MCThreads) \cup Permutations(MCAddrs) \cup Permutations({right1, right2})
=============================================================================
