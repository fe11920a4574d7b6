---------------------------- MODULE LdJsonProofs ----------------------------
(***************************************************************************)
(* Proofs about the snowflakes of LdJson, every one of them.                *)
(***************************************************************************)
EXTENDS LdJson, TLAPS

\* The masks of ld_json_pack_snowflake leave what their widths allow: 5, 5 and 12 bits.
THEOREM SnowflakeWidths ==
    ASSUME NEW flake \in Nat
    PROVE  /\ PackSnowflake(flake).timestamp \in Nat
           /\ PackSnowflake(flake).worker_id \in 0..31
           /\ PackSnowflake(flake).process_id \in 0..31
           /\ PackSnowflake(flake).increment \in 0..4095
  <1>1. flake \div 4194304 \in Nat
    BY SMT
  <1>2. flake % 4194304 \in Nat /\ flake % 4194304 < 4194304
    BY SMT
  <1>3. flake % 131072 \in Nat /\ flake % 131072 < 131072
    BY SMT
  <1>4. flake % 4096 \in Nat /\ flake % 4096 < 4096
    BY SMT
  <1>5. (flake % 4194304) \div 131072 \in Nat /\ (flake % 4194304) \div 131072 <= 31
    BY <1>2, SMT
  <1>6. (flake % 131072) \div 4096 \in Nat /\ (flake % 131072) \div 4096 <= 31
    BY <1>3, SMT
  <1>7. flake % 4096 <= 4095
    BY <1>4, SMT
  <1>8. /\ PackSnowflake(flake).timestamp = flake \div 4194304
        /\ PackSnowflake(flake).worker_id = (flake % 4194304) \div 131072
        /\ PackSnowflake(flake).process_id = (flake % 131072) \div 4096
        /\ PackSnowflake(flake).increment = flake % 4096
    BY SMT DEF PackSnowflake
  <1> QED
    BY <1>1, <1>4, <1>5, <1>6, <1>7, <1>8, SMT

\* A remainder is made of the quotient and the remainder of a divisor.
LEMMA Remainders ==
    ASSUME NEW flake \in Nat
    PROVE  /\ flake = (flake \div 4194304) * 4194304 + (flake % 4194304)
           /\ flake % 4194304 = ((flake % 4194304) \div 131072) * 131072 + (flake % 131072)
           /\ flake % 131072 = ((flake % 131072) \div 4096) * 4096 + (flake % 4096)
  BY SMT

\* No bit of a snowflake is lost or read twice: it can be put together again from its
\* parts (tests/tests-json.c has one of them).
THEOREM SnowflakeRoundTrip ==
    ASSUME NEW flake \in Nat
    PROVE  FlakeOf(PackSnowflake(flake)) = flake
  <1> DEFINE a == flake \div 4194304
             b == (flake % 4194304) \div 131072
             c == (flake % 131072) \div 4096
             d == flake % 4096
  <1>1. a \in Nat /\ b \in Nat /\ c \in Nat /\ d \in Nat
    BY SMT
  <1>2. flake = a * 4194304 + (b * 131072 + (c * 4096 + d))
    BY Remainders, SMT
  <1>3. FlakeOf(PackSnowflake(flake)) = a * 4194304 + b * 131072 + c * 4096 + d
    BY SMT DEF FlakeOf, PackSnowflake
  <1> HIDE DEF a, b, c, d
  <1> QED
    BY <1>1, <1>2, <1>3, SMT

\* Snowflakes are ordered as the moments they were made at.
THEOREM SnowflakeOrder ==
    ASSUME NEW one \in Nat, NEW other \in Nat, one <= other
    PROVE  PackSnowflake(one).unix_timestamp <= PackSnowflake(other).unix_timestamp
  <1>1. one \div 4194304 <= other \div 4194304
    BY SMT
  <1>2. one \div 4194304 \in Nat /\ other \div 4194304 \in Nat
    BY SMT
  <1> QED
    BY <1>1, <1>2, JsonAssumption, SMT DEF PackSnowflake
=============================================================================
