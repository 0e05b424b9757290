------------------------------ MODULE MCHashUnit ------------------------------
(***************************************************************************)
(* HashUnit for TLC: the points of the keys 1 and 6, and what a command    *)
(* line may ask for, right and wrong.                                      *)
(***************************************************************************)
EXTENDS HashUnit

One == [odd |-> FALSE,
        x |-> <<Hex(\h79BE, \h667E), Hex(\hF9DC, \hBBAC), Hex(\h55A0, \h6295), Hex(\hCE87, \h0B07),
                Hex(\h029B, \hFCDB), Hex(\h2DCE, \h28D9), Hex(\h59F2, \h815B), Hex(\h16F8, \h1798)>>]

Six == [odd |-> TRUE,
        x |-> <<Hex(\hFFF9, \h7BD5), Hex(\h755E, \hEEA4), Hex(\h2045, \h3A14), Hex(\h3552, \h35D3),
                Hex(\h82F6, \h472F), Hex(\h8568, \hA18B), Hex(\h2F05, \h7A14), Hex(\h6029, \h7556)>>]

OneAndSix == {One, Six}

\* 1BgGZ9tcN4rm9KBzDn7KprQz87SZ26SAMH and 1Cf2hs39Woi61YNkYGUAcohL2K2q4pawBq, of these keys, and
\* 1111111111111111111114oLvT2, of a hash that is 0.
AddressOfOne ==
  <<0, 10, 39, 15, 32, 8, 51, 35, 21, 3, 49, 44, 8, 18, 10, 57, 12, 45, 6, 18, 47, 49, 23, 57, 7,
    6, 25, 32, 1, 5, 25, 9, 20, 16>>
AddressOfSix ==
  <<0, 11, 38, 1, 40, 50, 2, 8, 29, 46, 41, 5, 0, 31, 21, 43, 31, 15, 27, 9, 35, 46, 40, 19, 1,
    18, 1, 48, 3, 47, 33, 54, 10, 48>>
AddressOfZero == [n \in 1..21 |-> 0] \o <<3, 46, 19, 53, 26, 1>>

\* 751e76e8199196d454941c45d1b3a323f1433bd6
HashOfOne ==
  <<7, 5, 1, 14, 7, 6, 14, 8, 1, 9, 9, 1, 9, 6, 13, 4, 5, 4, 9, 4, 1, 12, 4, 5, 13, 1, 11, 3, 10,
    3, 2, 3, 15, 1, 4, 3, 3, 11, 13, 6>>

Addresses ==
  {AddressOfOne, AddressOfSix, AddressOfZero,
   [AddressOfOne EXCEPT ![34] = 17],                               \* a wrong last character
   [AddressOfOne EXCEPT ![12] = 8, ![13] = 44],                    \* two of them swapped
   [AddressOfOne EXCEPT ![20] = Foreign],
   <<0>> \o AddressOfOne, Tail(AddressOfZero), <<2>> \o Tail(AddressOfOne)}

Hashes ==
  {HashOfOne,
   [HashOfOne EXCEPT ![16] = 5],                                   \* word 1 differs
   [HashOfOne EXCEPT ![40] = 7],                                   \* word 4 differs
   [HashOfOne EXCEPT ![3] = Foreign], Tail(HashOfOne), Append(HashOfOne, 0)}

Asked ==
  {[address |-> a, hash |-> <<>>] : a \in Addresses} \union
  {[address |-> <<>>, hash |-> h] : h \in Hashes} \union
  {[address |-> <<>>, hash |-> <<>>], [address |-> AddressOfOne, hash |-> HashOfOne]}
===============================================================================
