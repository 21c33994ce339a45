------------------------------- MODULE Config --------------------------------
(***************************************************************************)
(* The configuration of the web app (rsswitch_web/config.py): its keys,     *)
(* their defaults, the check of every value, and resolve_config().  A value *)
(* is a JSON value with its type, as the checks tell true, 3.0 and "3" from *)
(* 3.  A string that looks like a password hash, method$salt$hash, has the  *)
(* type "hash" and the parts of its method.  What a text says as an IP      *)
(* address or a path, and whether OpenSSL can use a hash, is external.      *)
(***************************************************************************)
EXTENDS Integers

Null     == [t |-> "null"]
Int_(n)  == [t |-> "int", v |-> n]
Float(n) == [t |-> "float", v |-> n]
Str(s)   == [t |-> "str", v |-> s]

(* scrypt:n:r:p or pbkdf2:f:n; empty says that it is the hash of an empty    *)
(* password, usable that the hash function can be called with it.            *)
Scrypt(n, r, p, usable, empty) ==
  [t |-> "hash", method |-> "scrypt", n |-> n, r |-> r, p |-> p,
   usable |-> usable, empty |-> empty]
Pbkdf2(n, usable, empty) ==
  [t |-> "hash", method |-> "pbkdf2", n |-> n, usable |-> usable, empty |-> empty]

IPv4 == {"127.0.0.1", "0.0.0.0"}
IPv6 == {"::", "::1"}

MAX_DAEMON_TIMEOUT    == 60
MAX_GAP_MS            == 10000
MAX_SCRYPT_MEMORY     == 2^28
MAX_SCRYPT_P          == 16
MAX_PBKDF2_ITERATIONS == 10^7

DEFAULTS ==
  [daemon_host            |-> Str("127.0.0.1"),
   daemon_port            |-> Int_(5000),
   daemon_connect_timeout |-> Int_(2),
   daemon_read_timeout    |-> Int_(5),
   listen_address         |-> Str("127.0.0.1"),
   listen_port            |-> Int_(8080),
   threads                |-> Int_(4),
   data_file              |-> Str("/data.json"),
   all_off_gap_ms         |-> Int_(200),
   username               |-> Null,
   password_hash          |-> Null]

-----------------------------------------------------------------------------
(* Each check holds when the value is acceptable.                            *)
is_int(x, low, high) == x.t = "int" /\ low <= x.v /\ x.v <= high

check_host(x) == x.t = "str" /\ x.v \in IPv4

check_timeout(x) ==
  x.t \in {"int", "float"} /\ 0 < x.v /\ x.v <= MAX_DAEMON_TIMEOUT

check_listen_address(x) == x.t = "str" /\ x.v \in IPv4 \cup IPv6

check_data_file(x) == x.t = "str" /\ x.v \notin {"data.json", "/data\\0.json"}

check_username(x) == x.t = "null" \/ (x.t = "str" /\ x.v \notin {"", "a:b", "a\nb"})

PowerOfTwo(n) == \E k \in 1..28 : n = 2^k

check_hash(x) ==
  \/ x.t = "null"
  \/ /\ x.t = "hash" /\ x.method = "scrypt"
     /\ PowerOfTwo(x.n) /\ x.r >= 1 /\ x.p >= 1
     /\ x.r <= MAX_SCRYPT_MEMORY \div (128 * x.n) /\ x.p <= MAX_SCRYPT_P
     /\ x.usable /\ ~x.empty
  \/ /\ x.t = "hash" /\ x.method = "pbkdf2"
     /\ x.usable
     /\ 1 <= x.n /\ x.n <= MAX_PBKDF2_ITERATIONS
     /\ ~x.empty

CHECKS(key, x) ==
  CASE key = "daemon_host" -> check_host(x)
    [] key = "daemon_port" -> is_int(x, 1, 65535)
    [] key \in {"daemon_connect_timeout", "daemon_read_timeout"} -> check_timeout(x)
    [] key = "listen_address" -> check_listen_address(x)
    [] key = "listen_port" -> is_int(x, 0, 65535)
    [] key = "threads" -> is_int(x, 1, 16)
    [] key = "data_file" -> check_data_file(x)
    [] key = "all_off_gap_ms" -> is_int(x, 0, MAX_GAP_MS)
    [] key = "username" -> check_username(x)
    [] key = "password_hash" -> check_hash(x)

(* The mapping of the file laid over the defaults.                           *)
Laid(file) ==
  [k \in DOMAIN DEFAULTS |-> IF k \in DOMAIN file THEN file[k] ELSE DEFAULTS[k]]

(* Mutant: an unknown key is ignored.                                        *)
resolve_config_lenient(file) ==
  /\ \A k \in DOMAIN DEFAULTS : CHECKS(k, Laid(file)[k])
  /\ Laid(file).username # Null => Laid(file).password_hash # Null

(* resolve_config() returns, and does not raise a ConfigError.  A password   *)
(* without a user name is for "admin".                                       *)
resolve_config(file) ==
  /\ DOMAIN file \subseteq DOMAIN DEFAULTS
  /\ \A k \in DOMAIN DEFAULTS : CHECKS(k, Laid(file)[k])
  /\ Laid(file).username # Null => Laid(file).password_hash # Null
=============================================================================
