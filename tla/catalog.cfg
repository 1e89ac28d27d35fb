\* Two modes, the second of which comes and goes; two feeds, one user.
SPECIFICATION CatalogSpec
CONSTANTS
    Modes = {1, 4}
    BuiltIn = {1}
    Fallback = 1
    f1 = f1
    f2 = f2
    Feeds = {f1, f2}
    a = a
    b = b
    a1 = a1
    a2 = a2
    b1 = b1
    CategoryList <- MCCategories
    ServiceList <- MCServices
    CategoryOf <- MCCategoryOf
    Offers <- MCOffers
    People = {u}
    Gap = 2
    Chosen = {3}
    NoFeedRow = NoFeedRow
    NoPreview = NoPreview
    MaxChanges = 3
INVARIANTS
    DesiredIsCurrent
PROPERTIES
    NumbersAreSound
    ResetIsReviewed
    PreviewIsTrue
