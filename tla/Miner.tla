------------------------------- MODULE Miner --------------------------------
(***************************************************************************)
(* The search of the hash solver of hw4 (src/hw4/src/crypto_miner.c): which *)
(* nonces a worker tries for the variant of the problem it was given, and   *)
(* what it finds.  Polya has the worker that is canceled meanwhile.         *)
(*                                                                         *)
(* The hash is a set of nonces that make it small enough, as any set may be. *)
(***************************************************************************)
EXTENDS Integers
LOCAL INSTANCE FiniteSetsExt

CONSTANTS Base,       \* values of a byte: 256 in the program
          NonceSize   \* bytes of a nonce: 8 in the program

ASSUME MinerAssumption == Base \in Nat \ {0, 1} /\ NonceSize \in Nat \ {0}

Places == 1 .. NonceSize
Nonces == [Places -> 0 .. Base - 1]

\* The first nonce of a variant: its most significant byte, which is the last, depends
\* on the variant.
vary_problem(nvars, var) ==
  [i \in Places |-> IF i = NonceSize /\ nvars # 0 THEN ((var * Base) \div nvars) % Base ELSE 0]

\* A carry reaches the bytes behind those that are full.
update_nonce(nonce) ==
  [i \in Places |-> IF \A j \in 1 .. i - 1 : nonce[j] = Base - 1
                    THEN (nonce[i] + 1) % Base ELSE nonce[i]]
Exhausted(nonce) == \A i \in Places : nonce[i] = Base - 1

\* Whether a digest, a sequence of bits, begins with diff zeros; a difficulty of 0 runs
\* through all bits and fails.
check_result(digest, diff) ==
  diff \in DOMAIN digest /\ \A i \in 1 .. diff : digest[i] = 0

NoNonce == <<>>

\* The nonce found from a first one on, for the set of nonces that solve the problem.
solve(solutions) ==
  LET from[nonce \in Nonces] ==
        CASE nonce \in solutions -> nonce
          [] nonce \notin solutions /\ Exhausted(nonce) -> NoNonce
          [] OTHER -> from[update_nonce(nonce)]
  IN from

-----------------------------------------------------------------------------
(* What TLC evaluates.                                                     *)

LOCAL Value(nonce) == MapThenSumSet(LAMBDA i : nonce[i] * Base ^ (i - 1), Places)

\* The bytes are a counter, "least-significant digit first" (crypto_miner.c:323-326),
\* which ends with its greatest value.
ASSUME NoncesCount ==
  \A nonce \in Nonces :
    /\ Value(update_nonce(nonce)) = (Value(nonce) + 1) % Base ^ NonceSize
    /\ Exhausted(nonce) <=> Value(nonce) = Base ^ NonceSize - 1

\* "The starting nonces used by the processes will be spaced evenly" (115-120): with up to
\* Base variants the first nonces are in the order of the variants, and never two the same.
ASSUME VariantsSpaced ==
  \A nvars \in 1 .. Base : \A var \in 0 .. nvars - 1 :
    /\ vary_problem(nvars, var) \in Nonces
    /\ var > 0 => Value(vary_problem(nvars, var)) - Value(vary_problem(nvars, var - 1))
                   >= (Base \div nvars) * Base ^ (NonceSize - 1)

\* A worker finds the least solution that is not before its first nonce.  It does not
\* stop where the next variant begins, so that the searches overlap from there on, and
\* variant 0, which every problem has, misses no solution.
ASSUME SearchesEnd ==
  \A solutions \in {{n, o} : n, o \in Nonces} :
    LET found == solve(solutions) IN
    \A nvars \in 1 .. 3 : \A var \in 0 .. nvars - 1 :
      LET first == vary_problem(nvars, var)
          ahead == {n \in solutions : Value(n) >= Value(first)}
      IN IF ahead = {} THEN found[first] = NoNonce /\ var # 0
         ELSE found[first] \in ahead /\ \A n \in ahead : Value(found[first]) <= Value(n)
=============================================================================
