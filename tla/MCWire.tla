-------------------------------- MODULE MCWire --------------------------------
(***************************************************************************)
(* Wire with the IDL's lists after one mistake: two entries swapped, one   *)
(* left out, one naming another account, one without its rights.           *)
(***************************************************************************)
EXTENDS WireClaims

CONSTANTS a, b

TwoLetters == {a, b}

AccountsNamed ==
  UNION {{AccountList[c][ix][i].account : i \in DOMAIN AccountList[c][ix]} :
           c \in DOMAIN AccountList, ix \in Instructions}

Swapped(list, i, j) == [list EXCEPT ![i] = list[j], ![j] = list[i]]

Slipped(list) ==
  LET Places == DOMAIN list
  IN  {Swapped(list, i, j) : i \in Places, j \in Places}
      \cup {RemoveAt(list, i) : i \in Places}
      \cup {[list EXCEPT ![i].account = other] : i \in Places, other \in AccountsNamed}
      \cup {[list EXCEPT ![i].signer = FALSE] : i \in Places}
      \cup {[list EXCEPT ![i].writable = FALSE] : i \in Places}

OneMistake ==
  UNION {{[ix |-> ix, list |-> l] : l \in Slipped(Idl[ix])} : ix \in Instructions}

NoMistake == {}
===============================================================================
