-------------------------------- MODULE Forks --------------------------------
(***************************************************************************)
(* Hard forks (sidechain/hardfork.go): the major version of a Monero block *)
(* by its height, and the version of a share by its timestamp.  Version v  *)
(* is entry v of each network's table.                                     *)
(***************************************************************************)
EXTENDS Integers, Sequences, Functions

mainNetHardForks ==
    <<1, 1009827, 1141317, 1220516, 1288616, 1400000, 1546000, 1685555,
      1686275, 1788000, 1788720, 1978433, 2210000, 2210720, 2688888, 2689608>>

testNetHardForks ==
    <<1, 624634, 800500, 801219, 802660, 971400, 1057027, 1057058,
      1057778, 1154318, 1155038, 1308737, 1543939, 1544659, 1982800, 1983520>>

stageNetHardForks ==
    <<1, 32000, 33000, 34000, 35000, 36000, 37000, 176456,
      177176, 269000, 269720, 454721, 675405, 676125, 1151000, 1151720>>

\* The tables of p2pool: version and time.
p2poolHardForks(network) ==
    CASE network = "mainnet"  -> <<<<1, 0>>, <<2, 1679173200>>>>
      [] network = "testnet"  -> <<<<1, 0>>, <<2, 1674507600>>>>
      [] network = "stagenet" -> <<<<2, 0>>>>

NetworkHardFork(network) ==
    CASE network = "mainnet"  -> mainNetHardForks
      [] network = "testnet"  -> testNetHardForks
      [] network = "stagenet" -> stageNetHardForks

\* How many entries after the first the loop passes before it breaks, given which are reached.
Passed(reached) ==
    LET late == {i \in 2..Len(reached) : ~reached[i]} IN
    IF late = {} THEN Len(reached) - 1 ELSE (CHOOSE i \in late : \A j \in late : i <= j) - 2

NetworkMajorVersion(network, height) ==
    LET table == NetworkHardFork(network) IN
    1 + Passed([i \in DOMAIN table |-> height >= table[i]])

P2PoolShareVersion(network, timestamp) ==
    LET table == p2poolHardForks(network) IN
    table[1 + Passed([i \in DOMAIN table |-> timestamp >= table[i][2]])][1]
====
