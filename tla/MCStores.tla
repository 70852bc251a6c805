------------------------------ MODULE MCStores ------------------------------
(* Keys are strings of characters, two of which a plain join would confuse. *)
EXTENDS Stores, TLC

MCTenants == {<<"t">>}
MCUsers == {<<"u">>, <<"u", ":">>}
MCNotificationIDs == {<<"n">>, <<":", "n">>}
MCCreates == {<<<<<<"t">>, <<"u">>, <<"n">>>>, 1>>, <<<<<<"t">>, <<"u">>, <<":", "n">>>>, 2>>,
              <<<<<<"t">>, <<"u", ":">>, <<"n">>>>, 1>>}

Ask(cursor, unreadOnly) == [tenant |-> <<"t">>, user |-> <<"u">>, cursor |-> cursor, unreadOnly |-> unreadOnly]
MCQueries == {Ask(0, FALSE), Ask(2, TRUE)}

MCChars == {"t", "u", "n", ":"} \cup {ToString(d) : d \in 0..9}
MCItoa == [n \in 0..99 |-> IF n < 10 THEN <<ToString(n)>> ELSE <<ToString(n \div 10), ToString(n % 10)>>]

Symmetry == Permutations(Clients)
=============================================================================
