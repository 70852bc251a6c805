----------------------------- MODULE MCDelivery -----------------------------
EXTENDS Delivery

All == {"AccountSID", "AuthToken", "From", "MessagingServiceSID", "FCMProjectID", "FCMCredentialsJSON",
        "VAPIDPublic", "VAPIDPrivate", "ContactEmail", "Sender", "EmailFrom"}

\* Everything, no messaging service, no static number, neither; the static number
\* bare or with its WhatsApp prefix.
MCSettings == {All \ x : x \in SUBSET {"From", "MessagingServiceSID"}}
                \cup {(All \cup {"From:whatsapp"}) \ x : x \in SUBSET {"MessagingServiceSID"}}

\* Around the limits of a phone number, with and without the prefix, and made up
\* wrong; for the others what they tell apart.
Dest(n, good, wa) == [n |-> n, good |-> good, wa |-> wa]
Numbers == {Dest(6, TRUE, FALSE), Dest(15, TRUE, TRUE), Dest(5, TRUE, FALSE),
            Dest(16, TRUE, TRUE), Dest(9, FALSE, FALSE), Dest(0, FALSE, FALSE)}

MCDests == [k \in Kinds |->
  CASE k \in Phone      -> Numbers
    [] k = "web_push"  -> {d \in Numbers : ~d.wa /\ d.n # 5}
    [] OTHER           -> {d \in Numbers : d.n \in {0, 6}}]
=============================================================================
