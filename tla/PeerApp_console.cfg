\* Either peer; two changes of the tables, one fault, one tick and one poll
\* beside the POST of the page.
SPECIFICATION FairSpec
CONSTANTS
    Frameworks = {"next", "nuxt"}
    MaxEdits = 2
    MaxFaults = 1
    Ticks = {t1}
    Polls = {p1}
    Nothing = Nothing
INVARIANTS TypeOK OneServiceEach OperationStaysShown OwnMessageUnlessCrossed
PROPERTIES RetriedByTimer
