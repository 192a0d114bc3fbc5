-------------------------------- MODULE MCFeeds --------------------------------
(* Instances of Feeds: a job's name says which source it runs.               *)
EXTENDS Feeds, TLC

CONSTANTS kev1, nvd1, nvd2, epss1, rss1, rss2, manual1

MCHandler == [kev |-> "kev", nvd |-> "nvd", epss |-> "epss", rss |-> "rss",
              blog |-> "rss", manual |-> "none"]
MCSources == DOMAIN MCHandler
MCSourceOf ==
  [j \in Jobs |-> CASE j = kev1 -> "kev" [] j \in {nvd1, nvd2} -> "nvd" [] j = epss1 -> "epss"
                    [] j = rss1 -> "rss" [] j = rss2 -> "blog" [] OTHER -> "manual"]
\* Vulnerability feeds and news feeds share nothing but the slots.
MCPass == {{kev1, nvd1, epss1}, {rss1, rss2}, {rss1, manual1}}
\* Two hours of NVD around one KEV run.
MCHourly == {{kev1, nvd1, nvd2}}
MCSymmetry == Permutations(Slots)
===============================================================================
