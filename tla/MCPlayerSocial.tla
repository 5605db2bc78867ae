---------------------------- MODULE MCPlayerSocial ----------------------------
EXTENDS PlayerSocial

\* friend notes: a short one, one longer than 48 characters, one with a quote
\* (the persistence run uses the last two)
MCutf8truncate(n) == IF n = "long" THEN "long_cut" ELSE n
MCEscapeString(n) == IF n = "it's" THEN "it\\'s" ELSE n
====
