CONSTANTS
    Tabs = {t1, t2}
    First = t1
    Rows <- MCRows
    None = None
    MaxTokens = 3
SPECIFICATION MCSpec
INVARIANT FavouriteWasShownInOneTab
PROPERTY CartReachesFavouritesInOneTab
PROPERTY RedirectsEnd
