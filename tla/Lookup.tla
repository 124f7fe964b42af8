------------------------------- MODULE Lookup -------------------------------
(***************************************************************************)
(* Host names to addresses: dns_resolve and its callback, ip_from_string,  *)
(* and the boxing of a 32-bit address into an OCaml integer and back, from *)
(* resolve_host of pio.ml to the call that uses the address.  lwIP's       *)
(* resolver and its cache are external.                                    *)
(***************************************************************************)
EXTENDS Integers

CONSTANTS
    Callers,     \* the cores that look names up (the code: the network's one)
    Names,       \* host names
    Addresses,   \* the addresses hosts have
    Quarter,     \* a quarter of the machine's words: 2^30
    NoName

Words == 0 .. 4 * Quarter - 1

ASSUME LookupAssumption ==
    /\ Quarter \in Nat \ {0}
    /\ Addresses \subseteq Words /\ 0 \notin Addresses
    /\ NoName \notin Names

VARIABLES
    dns_done, dns_result_ip,   \* shared by all calls of dns_resolve
    cache,       \* external: lwIP's answers that are still valid, 0 if none
    request,     \* external: the name lwIP resolves for each caller
    looking,     \* where each caller is
    ip,          \* the OCaml integer a caller got
    meant,       \* history: the address lwIP, or the literal, gave to this call
    target       \* the address the caller sent to, 0 if the lookup failed

lookupVars == <<dns_done, dns_result_ip, cache, request, looking, ip, meant, target>>

LookupInit ==
    /\ dns_done = 0 /\ dns_result_ip = 0
    /\ cache = [n \in Names |-> 0]
    /\ request = [c \in Callers |-> NoName]
    /\ looking = [c \in Callers |-> "idle"]
    /\ ip = [c \in Callers |-> 0]
    /\ meant = [c \in Callers |-> 0]
    /\ target = [c \in Callers |-> 0]

-----------------------------------------------------------------------------
(* Words                                                                   *)

(* Val_int: the top bit of the word is shifted out. *)
ValInt(x) == 2 * (x % (2 * Quarter)) + 1

(* Faulty variant: a shift that does not copy the sign. *)
IntValLogical(v) == v \div 2

(* Int_val: an arithmetic shift, of a signed word. *)
IntVal(v) == v \div 2 + IF v < 2 * Quarter THEN 0 ELSE 2 * Quarter

(* ip_to_string shifts the 31 bits of the OCaml integer logically. *)
Shown(v) == v \div 2

-----------------------------------------------------------------------------
(* Faulty variant: the flag of the last lookup is still up. *)
ForgetNothing == dns_done

ClearDone == 0

(* dns_gethostbyname knows the name, asks a server, or refuses.            *)
DnsResolve(c, n) ==
    /\ looking[c] = "idle" /\ request[c] = NoName
    /\ \/ /\ cache[n] # 0
          /\ ip' = [ip EXCEPT ![c] = ValInt(cache[n])]
          /\ meant' = [meant EXCEPT ![c] = cache[n]]
          /\ looking' = [looking EXCEPT ![c] = "back"]
          /\ UNCHANGED <<dns_done, request>>
       \/ /\ cache[n] = 0
          /\ request' = [request EXCEPT ![c] = n]
          /\ dns_done' = ClearDone
          /\ looking' = [looking EXCEPT ![c] = "wait"]
          /\ UNCHANGED <<ip, meant>>
       \/ /\ ip' = [ip EXCEPT ![c] = ValInt(0)]
          /\ looking' = [looking EXCEPT ![c] = "back"]
          /\ UNCHANGED <<dns_done, request, meant>>
    /\ UNCHANGED <<dns_result_ip, cache, target>>

(* Faulty variant: the address of the last lookup is kept. *)
ResultOnSuccess(a) == IF a # 0 THEN a ELSE dns_result_ip

ResultOf(a) == a

(* Faulty variant: only success is reported. *)
DoneOnSuccess(a) == IF a # 0 THEN 1 ELSE dns_done

DoneAfter(a) == 1

(* dns_callback, in a poll of a waiting core; a = 0: no such host.         *)
DnsCallback(c, a) ==
    /\ request[c] # NoName /\ \E d \in Callers : looking[d] = "wait"
    /\ dns_result_ip' = ResultOf(a)
    /\ dns_done' = DoneAfter(a)
    /\ cache' = [cache EXCEPT ![request[c]] = a]
    /\ request' = [request EXCEPT ![c] = NoName]
    /\ meant' = [meant EXCEPT ![c] = a]
    /\ UNCHANGED <<looking, ip, target>>

(* while (!dns_done) ends: the result, boxed. *)
DnsReturn(c) ==
    /\ looking[c] = "wait" /\ dns_done = 1
    /\ ip' = [ip EXCEPT ![c] = ValInt(dns_result_ip)]
    /\ looking' = [looking EXCEPT ![c] = "back"]
    /\ UNCHANGED <<dns_done, dns_result_ip, cache, request, meant, target>>

(* A host that starts with a digit: the address it spells, 0 if none.      *)
ResolveLiteral(c, a) ==
    /\ looking[c] = "idle"
    /\ ip' = [ip EXCEPT ![c] = ValInt(a)]
    /\ meant' = [meant EXCEPT ![c] = a]
    /\ looking' = [looking EXCEPT ![c] = "back"]
    /\ UNCHANGED <<dns_done, dns_result_ip, cache, request, target>>

(* pio.ml: Dns_failed, or tcp_connect or udp_sendto to the unboxed address. *)
UseAddress(c) ==
    /\ looking[c] = "back"
    /\ target' = [target EXCEPT ![c] = IF ip[c] = ValInt(0) THEN 0 ELSE IntVal(ip[c])]
    /\ looking' = [looking EXCEPT ![c] = "used"]
    /\ UNCHANGED <<dns_done, dns_result_ip, cache, request, ip, meant>>

(* Not the code's: the caller asks again; what was kept for the properties *)
(* is dropped.                                                             *)
LookupOver(c) ==
    /\ looking[c] = "used"
    /\ looking' = [looking EXCEPT ![c] = "idle"]
    /\ ip' = [ip EXCEPT ![c] = 0]
    /\ meant' = [meant EXCEPT ![c] = 0]
    /\ target' = [target EXCEPT ![c] = 0]
    /\ UNCHANGED <<dns_done, dns_result_ip, cache, request>>

(* External: an answer's time to live has passed. *)
Expire(n) ==
    /\ cache[n] # 0
    /\ cache' = [cache EXCEPT ![n] = 0]
    /\ UNCHANGED <<dns_done, dns_result_ip, request, looking, ip, meant, target>>

Answer(c) == \E a \in Addresses \cup {0} : DnsCallback(c, a)

LookupStep(c) ==
    \/ \E n \in Names : DnsResolve(c, n)
    \/ \E a \in Addresses \cup {0} : ResolveLiteral(c, a)
    \/ DnsReturn(c) \/ UseAddress(c) \/ LookupOver(c)

LookupNext ==
    \/ \E c \in Callers : LookupStep(c) \/ Answer(c)
    \/ \E n \in Names : Expire(n)

LookupSpec == LookupInit /\ [][LookupNext]_lookupVars

(* The caller polls; external: lwIP answers every request, or gives it up. *)
LookupFairness ==
    \A c \in Callers : WF_lookupVars(DnsReturn(c)) /\ WF_lookupVars(Answer(c))

-----------------------------------------------------------------------------
(* Properties                                                              *)

TopBitsAgree(x) == x < Quarter \/ x >= 3 * Quarter

(* The type of every variable. *)
LookupTypeOK ==
    /\ dns_done \in {0, 1} /\ dns_result_ip \in Words
    /\ cache \in [Names -> Words]
    /\ request \in [Callers -> Names \cup {NoName}]
    /\ looking \in [Callers -> {"idle", "wait", "back", "used"}]
    /\ ip \in [Callers -> Words]
    /\ meant \in [Callers -> Words]
    /\ target \in [Callers -> Words]

(* What dns_resolve (or ip_from_string) returns is the answer to this very *)
(* call, boxed, and a failure if there was none: not what an earlier       *)
(* lookup, answered or given up, left in dns_done and dns_result_ip.       *)
OwnAnswer ==
    \A c \in Callers : looking[c] = "back" => ip[c] = ValInt(meant[c])

(* Which address a call contacts, for every address a host can have: its   *)
(* own if its two top bits agree (a last octet up to 63, or from 192 on),  *)
(* else, after Val_int and Int_val, one whose last octet is 128 away: not  *)
(* the host's.  Never the address of another lookup; and the call fails,   *)
(* with 0, if there is no host, or its address is 0.0.0.128.               *)
ContactsHostOrTwin ==
    \A c \in Callers : looking[c] = "used" =>
        target[c] = IF TopBitsAgree(meant[c])
                      THEN meant[c]
                      ELSE (meant[c] + 2 * Quarter) % (4 * Quarter)

(* dns_resolve returns, whether lwIP finds the host or gives up.           *)
LookupEnds ==
    \A c \in Callers : looking[c] = "wait" ~> looking[c] = "back"

=============================================================================
