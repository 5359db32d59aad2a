---------------------------- MODULE MCCompanyStore ----------------------------
(* Two companies: one with every section, in which one address begins like    *)
(* another and mails give names, prefixes and unknown addresses; and one with *)
(* a capital in its domain, which has namesakes, a mail and a document.       *)
EXTENDS CompanyStore

At(local, domain) == [local |-> local, domain |-> domain]

MCGenerated == [r \in Runs |->
    IF r = "acme"
    THEN [people |-> << "ann.leeds", "ann.lee", "bo" >>,
          domain |-> "acme.com",
          mails  |-> << [from |-> At("ann.lee", "acme.io"), to |-> << At("bo", "acme.io"), At("team", "acme.io") >>],
                        [from |-> At("ann", "acme.io"), to |-> << At("ann.lee", "by name") >>] >>,
          size   |-> [s \in {"documents", "servers", "network", "alerts", "devops", "security", "artifacts"} |->
                        IF s = "servers" THEN 2 ELSE 1],
          edr    |-> TRUE]
    ELSE [people |-> << "bo", "bo", "ann.leeds", "ann.lee" >>,
          domain |-> "nova.com",
          mails  |-> << [from |-> At("ann.lee", "Nova.io"), to |-> << At("bo", "nova.io") >>] >>,
          size   |-> [s \in {"documents", "servers", "network", "alerts", "devops", "security", "artifacts"} |->
                        IF s = "documents" THEN 1 ELSE 0],
          edr    |-> FALSE]]

MCStarts == { <<"ann", "ann.lee">>, <<"ann", "ann.leeds">>, <<"ann.lee", "ann.leeds">> }
              \cup { <<p, p>> : p \in {"ann.lee", "ann.leeds", "bo"} }

MCLower == [d \in {"acme.com", "acme.io", "nova.com", "nova.io", "Nova.io"} |->
               IF d = "Nova.io" THEN "nova.io" ELSE d]

MCRole == [q \in Readers |-> q]
===============================================================================
