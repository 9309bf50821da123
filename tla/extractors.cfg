SPECIFICATION FairSpec
CONSTANTS
    Callers = {c1, c2}
    Nobody = Nobody
    Unplayable = {2}
    Configs = {{}, {"yandex"}, {"spotify", "vk", "yandex"}}
    PageSize = 2
    Faults = {"web", "edit"}
    MaxTracks = 3
    MaxEdits = 1
INVARIANTS TypeOK ClientOfToken WholeAnswer RowsStream HoldersGoOn
PROPERTIES RequestsEnd
CHECK_DEADLOCK FALSE
